-------------------------- MODULE ProxySafetyProofs ---------------------------
(***************************************************************************)
(* What descriptor numbers mean.  A number is an element of master_fd_set, *)
(* an index of the buffers, a key of server_list and an entry of           *)
(* client_fds, and is handed out again once closed: the parts of SafeInv   *)
(* are proved together because each keeps the others from going stale.     *)
(***************************************************************************)
EXTENDS ProxyTypeProofs, SequenceTheorems

SafeInv ==
  /\ TypeInv
  /\ WatchedSockets
  /\ NoStaleVisit
  /\ OriginsRecognised
  /\ WaitersAreAskers

------------------------------------------------------------------------------
(***************************************************************************)
(* The cache: but for an insertion, an object's waiting clients only       *)
(* become fewer, and its URL stays.                                        *)
(***************************************************************************)
Inherits(i) ==
  /\ i \in Slots /\ arr[i] # NULL
  /\ arr'[i].url = arr[i].url /\ arr'[i].key = arr[i].key
  /\ arr'[i].client_fds \subseteq arr[i].client_fds

NobodyJoins == \A i \in Slots' : arr'[i] # NULL => Inherits(i)

LEMMA SameCacheJoins ==
  ASSUME CacheTypeOK, UNCHANGED cacheVars PROVE NobodyJoins
BY DEF NobodyJoins, Inherits, Slots, cacheVars

LEMMA DeleteExpiredJoins ==
  ASSUME CacheTypeOK, DeleteExpired PROVE NobodyJoins
BY DEF NobodyJoins, Inherits, Slots, DeleteExpired

LEMMA DeleteBySockfdJoins ==
  ASSUME CacheTypeOK, NEW fd, DeleteBySockfd(fd)
  PROVE  /\ NobodyJoins
         /\ \A i \in Slots' : arr'[i] # NULL => fd \notin arr'[i].client_fds
BY DEF CacheTypeOK, CacheObj, NobodyJoins, Inherits, Slots, DeleteBySockfd,
       DeleteFromClientfds

LEMMA CacheTickJoins ==
  ASSUME CacheTypeOK, CacheTick PROVE NobodyJoins
BY DEF CacheTypeOK, CacheObj, NobodyJoins, Inherits, Slots, CacheTick

LEMMA StoreJoins ==
  ASSUME CacheTypeOK, NEW i \in Slots, arr[i] # NULL, NEW limit, NEW from, NEW fds,
         StoreResponse(i, limit, from, fds)
  PROVE  NobodyJoins
BY DEF CacheTypeOK, CacheObj, NobodyJoins, Inherits, Slots, StoreResponse,
       DeleteFromClientfds

LEMMA TouchJoins ==
  ASSUME CacheTypeOK, NEW i \in Slots, arr[i] # NULL, NEW fd, TouchObject(i, fd)
  PROVE  NobodyJoins
BY DEF CacheTypeOK, CacheObj, NobodyJoins, Inherits, Slots, TouchObject,
       DeleteFromClientfds

\* The inserted object is the only one somebody joins.
LEMMA InsertJoins ==
  ASSUME CacheTypeOK, NEW obj, InsertIntoCache(obj)
  PROVE  \A i \in Slots' : arr'[i] # NULL => arr'[i] = obj \/ Inherits(i)
<1> DEFINE cap == IF num_obj >= capacity THEN 2 * capacity ELSE capacity
           old == [i \in 0..(cap - 1) |-> IF i < capacity THEN arr[i] ELSE NULL]
<1> SUFFICES ASSUME NEW i \in Slots', arr'[i] # NULL, arr'[i] # obj
             PROVE  Inherits(i)
  OBVIOUS
<1>1. capacity' = cap /\ i \in 0..(cap - 1)
  BY DEF InsertIntoCache, Slots
<1>2. arr'[i] = old[i]
  BY <1>1 DEF InsertIntoCache
<1>3. old[i] # NULL
  BY <1>2
<1>4. i < capacity /\ arr'[i] = arr[i]
  BY <1>1, <1>2, <1>3
<1>5. i \in Slots
  BY <1>1, <1>4 DEF Slots, CacheTypeOK
<1> QED
  BY <1>4, <1>5 DEF Inherits

------------------------------------------------------------------------------
(***************************************************************************)
(* Steps at whose end every connection is what it was.                     *)
(***************************************************************************)
SameEnds ==
  /\ \A g \in Fds : sock'[g].role = sock[g].role /\ sock'[g].url = sock[g].url
  /\ UNCHANGED <<master, max_sock, live, server_list>>

NothingForgotten ==
  \A g \in Fds, u \in Urls : asks[g][u] > 0 => asks'[g][u] > 0

\* Nobody is watched, visited or waiting who was not before.
LEMMA QuietStep ==
  ASSUME SafeInv, TypeInv', SameEnds, NobodyJoins, NothingForgotten, NoStaleVisit'
  PROVE  SafeInv'
<1>1. WatchedSockets'
  BY DEF SafeInv, SameEnds, WatchedSockets, Open
<1>2. OriginsRecognised'
  BY DEF SafeInv, SameEnds, OriginsRecognised, IsServer, ServerUrl
<1>3. WaitersAreAskers'
  <2> SUFFICES ASSUME NEW i \in Slots', arr'[i] # NULL,
                      NEW fd \in arr'[i].client_fds
               PROVE  /\ sock'[fd].role = "client" /\ fd \in live'
                      /\ ~(IsServer(fd)')
                      /\ asks'[fd][arr'[i].url] > 0
    BY DEF WaitersAreAskers
  <2>1. /\ i \in Slots /\ arr[i] # NULL /\ arr'[i].url = arr[i].url
        /\ fd \in arr[i].client_fds
    BY DEF NobodyJoins, Inherits
  <2>2. fd \in Fds /\ arr[i].url \in Urls
    BY <2>1 DEF SafeInv, TypeInv, CacheInv, CacheTypeOK, CacheObj
  <2>3. /\ sock[fd].role = "client" /\ fd \in live /\ ~IsServer(fd)
        /\ asks[fd][arr[i].url] > 0
    BY <2>1 DEF SafeInv, WaitersAreAskers
  <2> QED
    BY <2>1, <2>2, <2>3 DEF SameEnds, NothingForgotten, IsServer
<1> QED
  BY <1>1, <1>2, <1>3 DEF SafeInv

\* A step that touches no socket and visits at most one descriptor.
LEMMA StillReady ==
  ASSUME NoStaleVisit, LoopTypeOK, NEW fd,
         \A g \in Fds \ {fd} : sock'[g] = sock[g],
         pc' = pc, ready' \subseteq ready \ {fd}
  PROVE  NoStaleVisit'
<1> SUFFICES ASSUME pc' = "dispatch", NEW g \in ready' \ {ListenFd}
             PROVE  Open(g)' /\ Readable(g)'
  BY DEF NoStaleVisit
<1>1. g \in Fds \ {fd} /\ g \in ready \ {ListenFd}
  BY DEF LoopTypeOK
<1>2. Open(g) /\ Readable(g)
  BY <1>1 DEF NoStaleVisit
<1> QED
  BY <1>1, <1>2 DEF Open, Readable

\* Reading from fd changes nothing about anyone else, nor who fd is.
LEMMA DrainedEffect ==
  ASSUME LoopTypeOK, NEW fd \in Fds, NEW k
  PROVE  /\ \A g \in Fds \ {fd} : Drained(fd, k)[g] = sock[g]
         /\ \A g \in Fds : /\ Drained(fd, k)[g].role = sock[g].role
                           /\ Drained(fd, k)[g].url = sock[g].url
BY DEF LoopTypeOK, Socket, Drained

\* handleClient counts the request it looked up; no other count goes back.
LEMMA CountedEffect ==
  ASSUME HistoryTypeOK, NEW fd \in Fds, NEW u \in Urls, Counted(fd, u),
         MaxSends > 0
  PROVE  NothingForgotten /\ asks'[fd][u] > 0
<1>1. asks \in [Fds -> [Urls -> 0..MaxSends]] /\ MaxSends \in Nat
  BY ProxyAssumption DEF HistoryTypeOK
<1>2. /\ asks'[fd][u] = IF asks[fd][u] < MaxSends THEN asks[fd][u] + 1
                        ELSE asks[fd][u]
      /\ \A g \in Fds, v \in Urls : <<g, v>> # <<fd, u>> => asks'[g][v] = asks[g][v]
  BY <1>1 DEF Counted
<1>3. asks[fd][u] \in 0..MaxSends
  BY <1>1
<1>4. asks'[fd][u] > 0
  BY <1>1, <1>2, <1>3
<1> QED
  BY <1>2, <1>4 DEF NothingForgotten

------------------------------------------------------------------------------
(***************************************************************************)
(* The steps that close or open nothing.                                   *)
(***************************************************************************)

\* Nothing but the buckets, the histories and the place in the loop changes.
LEMMA BetweenPassesSafe ==
  ASSUME SafeInv, TypeInv', UNCHANGED <<sock, master, max_sock, live, server_list>>,
         NobodyJoins, NothingForgotten,
         pc' # "dispatch" \/ ready' \subseteq Selected \cup {ListenFd}
  PROVE  SafeInv'
<1>1. SameEnds
  BY DEF SameEnds
<1>2. ASSUME NEW g \in Selected PROVE Open(g) /\ Readable(g)
  BY DEF Selected, Watched, SafeInv, WatchedSockets
<1>3. NoStaleVisit'
  <2> SUFFICES ASSUME pc' = "dispatch", NEW g \in ready' \ {ListenFd}
               PROVE  Open(g)' /\ Readable(g)'
    BY DEF NoStaleVisit
  <2>1. Open(g) /\ Readable(g)
    BY <1>2
  <2> QED
    BY <2>1 DEF Open, Readable
<1> QED
  BY <1>1, <1>3, QuietStep

LEMMA SameAsks ==
  ASSUME UNCHANGED asks PROVE NothingForgotten
BY DEF NothingForgotten

LEMMA LoopStepSafe ==
  ASSUME SafeInv, TypeInv',
         AddTokensStep \/ CheckCachedMessages \/ Select \/ EndOfPass \/ Die
  PROVE  SafeInv'
<1> CacheTypeOK
  BY DEF SafeInv, TypeInv, CacheInv
<1>1. UNCHANGED <<sock, master, max_sock, live, server_list, asks>>
  BY DEF AddTokensStep, AddTokens, CheckCachedMessages, Select, EndOfPass, Die,
         bufferVars, ghosts
<1>2. NobodyJoins
  BY SameCacheJoins, DeleteExpiredJoins
     DEF AddTokensStep, CheckCachedMessages, Select, EndOfPass, Die
<1>3. pc' # "dispatch" \/ ready' \subseteq Selected \cup {ListenFd}
  BY DEF AddTokensStep, CheckCachedMessages, Select, EndOfPass, Die
<1> QED
  BY <1>1, <1>2, <1>3, SameAsks, BetweenPassesSafe

LEMMA ReadErrorSafe ==
  ASSUME SafeInv, TypeInv', NEW fd \in Fds, ReadError(fd) PROVE SafeInv'
<1> CacheTypeOK /\ LoopTypeOK
  BY DEF SafeInv, TypeInv, CacheInv
<1>1. sock' = [sock EXCEPT ![fd].inq = <<>>]
  BY DEF ReadError
<1>2. /\ \A g \in Fds \ {fd} : sock'[g] = sock[g]
      /\ \A g \in Fds : sock'[g].role = sock[g].role /\ sock'[g].url = sock[g].url
  BY <1>1 DEF LoopTypeOK, Socket
<1>3. SameEnds /\ NobodyJoins /\ NothingForgotten
  BY <1>2, SameCacheJoins, SameAsks DEF ReadError, SameEnds, bufferVars, ghosts
<1>4. NoStaleVisit'
  BY <1>2, StillReady DEF ReadError, Visited, SafeInv
<1> QED
  BY <1>3, <1>4, QuietStep

\* The handlers that leave fd as it is but for what was read from it.
LEMMA ReadingSafe ==
  ASSUME SafeInv, TypeInv', NEW fd \in Fds, NEW k, sock' = Drained(fd, k),
         Visited(fd), UNCHANGED <<master, max_sock, live, server_list>>,
         NobodyJoins, NothingForgotten
  PROVE  SafeInv'
<1> LoopTypeOK
  BY DEF SafeInv, TypeInv
<1>1. SameEnds
  BY DrainedEffect DEF SameEnds
<1>2. NoStaleVisit'
  BY DrainedEffect, StillReady DEF Visited, SafeInv
<1> QED
  BY <1>1, <1>2, QuietStep

LEMMA RelaySafe ==
  ASSUME SafeInv, TypeInv', NEW fd \in Fds, NEW k,
         Relay(fd, k) \/ KeepPartial(fd, k)
  PROVE  SafeInv'
<1> CacheTypeOK
  BY DEF SafeInv, TypeInv, CacheInv
<1>1. /\ sock' = Drained(fd, k) /\ Visited(fd)
      /\ UNCHANGED <<cacheVars, master, max_sock, live, server_list, asks>>
  BY DEF Relay, KeepPartial, Hold, ghosts
<1> QED
  BY <1>1, SameCacheJoins, SameAsks, ReadingSafe

LEMMA AnsweredOrDroppedSafe ==
  ASSUME SafeInv, TypeInv', NEW fd \in Fds, NEW k \in 1..MaxSends,
         NEW r \in Requests, ServeFromCache(fd, k, r) \/ DropRequest(fd, k, r)
  PROVE  SafeInv'
<1> CacheTypeOK /\ HistoryTypeOK /\ MaxSends > 0
  BY ProxyAssumption DEF SafeInv, TypeInv, CacheInv
<1>1. Consumed(fd, k, r.url)
  BY DEF ServeFromCache, DropRequest
<1>2. /\ sock' = Drained(fd, k) /\ Visited(fd) /\ Counted(fd, r.url)
      /\ UNCHANGED <<master, max_sock, live, server_list>>
  BY <1>1 DEF Consumed, Hold
<1>3. NothingForgotten
  BY <1>2, RequestType, CountedEffect
<1>4. NobodyJoins
  <2>1. CASE ServeFromCache(fd, k, r)
    <3>1. PICK i \in Slots : FindByUrl(r.url, i) /\ TouchObject(i, fd)
      BY <2>1 DEF ServeFromCache
    <3>2. arr[i] # NULL
      BY <3>1 DEF FindByUrl, Matches
    <3> QED
      BY <3>1, <3>2, TouchJoins
  <2>2. CASE DropRequest(fd, k, r)
    BY <2>2, SameCacheJoins DEF DropRequest
  <2> QED
    BY <2>1, <2>2
<1> QED
  BY <1>2, <1>3, <1>4, ReadingSafe

\* The peers and the clock.
LEMMA EnvironmentSafe ==
  ASSUME SafeInv, TypeInv', Environment PROVE SafeInv'
<1> CacheTypeOK /\ LoopTypeOK
  BY DEF SafeInv, TypeInv, CacheInv
<1>1. CASE Tick
  <2>1. /\ UNCHANGED <<sock, master, max_sock, live, server_list, asks, pc, ready>>
        /\ NobodyJoins
    BY <1>1, CacheTickJoins DEF Tick, BufferTick, loopVars, ghosts
  <2>2. SameEnds /\ NothingForgotten
    BY <2>1, SameAsks DEF SameEnds
  <2>3. NoStaleVisit'
    BY <2>1 DEF SafeInv, NoStaleVisit, Open, Readable
  <2> QED
    BY <2>1, <2>2, <2>3, QuietStep
<1>2. ASSUME NEW fd \in Fds, ClientSend(fd) \/ OriginSend(fd) \/ PeerClose(fd)
      PROVE  SafeInv'
  <2>1. /\ UNCHANGED <<cacheVars, master, max_sock, live, server_list, asks, pc,
                       ready>>
        /\ \A g \in Fds \ {fd} : sock'[g] = sock[g]
        /\ sock'[fd].role = sock[fd].role /\ sock'[fd].url = sock[fd].url
        /\ Readable(fd)'
    <3>1. CASE PeerClose(fd)
      BY <3>1 DEF PeerClose, bufferVars, loopVars, ghosts, LoopTypeOK, Socket,
                  Readable
    <3>2. ASSUME NEW role, NEW chunks, Sends(fd, role, chunks)
          PROVE  <2>1!1 /\ <2>1!2 /\ <2>1!3 /\ <2>1!4
      <4>1. PICK c : sock' = [sock EXCEPT ![fd].inq = Append(@, c),
                                         ![fd].sends = @ + 1]
        BY <3>2 DEF Sends
      <4>2. sock[fd] \in Socket /\ sock[fd].inq \in Seq(Chunk)
        BY DEF LoopTypeOK, Socket
      <4>3. sock'[fd].inq = Append(sock[fd].inq, c)
        BY <4>1, <4>2 DEF LoopTypeOK, Socket
      <4>4. Readable(fd)'
        BY <4>2, <4>3 DEF Readable
      <4>5. /\ \A g \in Fds \ {fd} : sock'[g] = sock[g]
            /\ sock'[fd].role = sock[fd].role /\ sock'[fd].url = sock[fd].url
        BY <4>1, <4>2 DEF LoopTypeOK, Socket
      <4> QED
        BY <3>2, <4>4, <4>5 DEF Sends, bufferVars, loopVars, ghosts
    <3> QED
      BY <1>2, <3>1, <3>2 DEF ClientSend, OriginSend
  <2>2. SameEnds /\ NobodyJoins /\ NothingForgotten
    BY <2>1, SameCacheJoins, SameAsks DEF SameEnds
  <2>3. NoStaleVisit'
    BY <2>1 DEF SafeInv, NoStaleVisit, Open, Readable, LoopTypeOK
  <2> QED
    BY <2>2, <2>3, QuietStep
<1> QED
  BY <1>1, <1>2 DEF Environment

------------------------------------------------------------------------------
(***************************************************************************)
(* A descriptor is closed.                                                 *)
(***************************************************************************)

\* fd is free, watched no more and waits nowhere; everyone else is as before.
\* handleDisconnect decrements max_sock if it was fd, handleServer does not.
Closes(fd) ==
  /\ sock' = [sock EXCEPT ![fd] = NoSocket]
  /\ master' = master \ {fd} /\ Visited(fd)
  /\ \/ max_sock' = max_sock
     \/ max_sock = fd /\ max_sock' = max_sock - 1
  /\ \A g \in Fds \ {fd} : /\ server_list'[g] = server_list[g]
                           /\ asks'[g] = asks[g]
                           /\ g \in live => g \in live'
  /\ NobodyJoins
  /\ \A i \in Slots' : arr'[i] # NULL => fd \notin arr'[i].client_fds

LEMMA ClosingSafe ==
  ASSUME SafeInv, TypeInv', NEW fd \in Fds, Closes(fd) PROVE SafeInv'
<1> USE DEF Closes
<1> LoopTypeOK
  BY DEF SafeInv, TypeInv
<1>1. /\ sock'[fd].role = "free"
      /\ \A g \in Fds \ {fd} : sock'[g] = sock[g]
  BY DEF LoopTypeOK, NoSocket, Connection
<1>2. WatchedSockets'
  <2>1. master' = {ListenFd} \cup {g \in Fds : Open(g)'}
    BY <1>1, FdsRange DEF SafeInv, WatchedSockets, Open
  <2>2. ASSUME NEW g \in Fds, Open(g)' PROVE g <= max_sock' /\ g \in live'
    <3>1. g # fd /\ Open(g)
      BY <1>1, <2>2 DEF Open
    <3>2. g <= max_sock /\ g \in live /\ max_sock \in Int
      BY <3>1, FdsRange DEF SafeInv, WatchedSockets, LoopTypeOK
    <3> QED
      BY <3>1, <3>2, FdsRange
  <2> QED
    BY <2>1, <2>2 DEF WatchedSockets
<1>3. NoStaleVisit'
  BY <1>1, StillReady DEF Visited, SafeInv
<1>4. OriginsRecognised'
  BY <1>1 DEF SafeInv, OriginsRecognised, IsServer, ServerUrl
<1>5. WaitersAreAskers'
  <2> SUFFICES ASSUME NEW i \in Slots', arr'[i] # NULL,
                      NEW g \in arr'[i].client_fds
               PROVE  /\ sock'[g].role = "client" /\ g \in live'
                      /\ ~(IsServer(g)')
                      /\ asks'[g][arr'[i].url] > 0
    BY DEF WaitersAreAskers
  <2>1. /\ i \in Slots /\ arr[i] # NULL /\ arr'[i].url = arr[i].url
        /\ g \in arr[i].client_fds /\ g # fd
    BY DEF NobodyJoins, Inherits
  <2>2. g \in Fds
    BY <2>1 DEF SafeInv, TypeInv, CacheInv, CacheTypeOK, CacheObj
  <2>3. /\ sock[g].role = "client" /\ g \in live /\ ~IsServer(g)
        /\ asks[g][arr[i].url] > 0
    BY <2>1 DEF SafeInv, WaitersAreAskers
  <2> QED
    BY <1>1, <2>1, <2>2, <2>3 DEF IsServer
<1> QED
  BY <1>2, <1>3, <1>4, <1>5 DEF SafeInv

LEMMA HandleDisconnectSafe ==
  ASSUME SafeInv, TypeInv', NEW fd \in Fds, HandleDisconnect(fd) PROVE SafeInv'
<1> CacheTypeOK /\ HistoryTypeOK
  BY DEF SafeInv, TypeInv, CacheInv
<1>1. /\ NobodyJoins
      /\ \A i \in Slots' : arr'[i] # NULL => fd \notin arr'[i].client_fds
  BY DeleteBySockfdJoins DEF HandleDisconnect
<1>2. \A g \in Fds \ {fd} : /\ server_list'[g] = server_list[g]
                            /\ asks'[g] = asks[g]
                            /\ g \in live => g \in live'
  BY DEF HandleDisconnect, DeleteBuffer, HistoryTypeOK
<1>3. Closes(fd)
  BY <1>1, <1>2 DEF HandleDisconnect, Closes
<1> QED
  BY <1>3, ClosingSafe

\* A descriptor with a node in server_list waits for nothing, so the cache need
\* not be told that handleServer closes it.
LEMMA StoreAndForwardSafe ==
  ASSUME SafeInv, TypeInv', NEW fd \in Fds, NEW k, StoreAndForward(fd, k)
  PROVE  SafeInv'
<1> CacheTypeOK /\ HistoryTypeOK /\ LoopTypeOK
  BY DEF SafeInv, TypeInv, CacheInv
<1>1. PICK i \in Slots :
        /\ FindByUrl(ServerUrl(fd), i)
        /\ StoreResponse(i, AgeLimit(Buffer(fd, k)[Len(Buffer(fd, k))]),
                         sock[fd].url, Served(i))
        /\ CloseOrigin(fd, i)
  BY DEF StoreAndForward
<1>2. NobodyJoins
  <2>1. arr[i] # NULL
    BY <1>1 DEF FindByUrl, Matches
  <2> QED
    BY <1>1, <2>1, StoreJoins
<1>3. \A j \in Slots' : arr'[j] # NULL => fd \notin arr'[j].client_fds
  BY <1>2 DEF StoreAndForward, SafeInv, WaitersAreAskers, NobodyJoins, Inherits
<1>4. \A g \in Fds \ {fd} : /\ server_list'[g] = server_list[g]
                            /\ asks'[g] = asks[g]
                            /\ g \in live => g \in live'
  BY DEF StoreAndForward, DeleteNode, HistoryTypeOK, LoopTypeOK
<1>5. Closes(fd)
  BY <1>1, <1>2, <1>3, <1>4 DEF StoreAndForward, CloseOrigin, Closes
<1> QED
  BY <1>5, ClosingSafe

------------------------------------------------------------------------------
(***************************************************************************)
(* A descriptor is handed out.                                             *)
(***************************************************************************)

\* new was free and is watched from now on; whatever it was before, an origin
\* gets a node in front of those left behind.
Hands(new) ==
  /\ ~Open(new) /\ Open(new)'
  /\ \A g \in Fds \ {new} :
       /\ sock'[g].role = sock[g].role /\ sock'[g].url = sock[g].url
       /\ server_list'[g] = server_list[g]
  /\ Watch(new) /\ live' = live \cup {new}
  /\ sock'[new].role = "origin" =>
       IsServer(new)' /\ ServerUrl(new)' = sock'[new].url

LEMMA HandingSafe ==
  ASSUME SafeInv, TypeInv', NEW new \in Fds, Hands(new)
  PROVE  WatchedSockets' /\ OriginsRecognised'
<1> USE DEF Hands
<1> LoopTypeOK
  BY DEF SafeInv, TypeInv
<1>1. max_sock \in Int /\ new \in Int
  BY FdsRange DEF LoopTypeOK
<1>2. WatchedSockets'
  <2>1. master' = {ListenFd} \cup {g \in Fds : Open(g)'}
    BY DEF SafeInv, WatchedSockets, Open, Watch
  <2>2. ASSUME NEW g \in Fds, Open(g)' PROVE g <= max_sock' /\ g \in live'
    <3>1. g = new \/ (Open(g) /\ g <= max_sock /\ g \in live /\ g \in Int)
      BY <2>2, FdsRange DEF Open, SafeInv, WatchedSockets
    <3> QED
      BY <1>1, <3>1 DEF Watch
  <2> QED
    BY <2>1, <2>2 DEF WatchedSockets
<1>3. OriginsRecognised'
  BY DEF SafeInv, OriginsRecognised, IsServer, ServerUrl
<1> QED
  BY <1>2, <1>3

\* A client still waits, since it is open and so is not the one handed out.
LEMMA StillWaiting ==
  ASSUME SafeInv, NEW new \in Fds, Hands(new), NothingForgotten,
         NEW i \in Slots', arr'[i] # NULL, Inherits(i),
         NEW g \in arr'[i].client_fds
  PROVE  /\ sock'[g].role = "client" /\ g \in live'
         /\ ~(IsServer(g)')
         /\ asks'[g][arr'[i].url] > 0
<1>1. /\ i \in Slots /\ arr[i] # NULL /\ arr'[i].url = arr[i].url
      /\ g \in arr[i].client_fds
  BY DEF Inherits
<1>2. g \in Fds /\ arr[i].url \in Urls
  BY <1>1 DEF SafeInv, TypeInv, CacheInv, CacheTypeOK, CacheObj
<1>3. /\ sock[g].role = "client" /\ g \in live /\ ~IsServer(g)
      /\ asks[g][arr[i].url] > 0
  BY <1>1 DEF SafeInv, WaitersAreAskers
<1>4. g # new
  BY <1>3 DEF Hands, Open
<1> QED
  BY <1>1, <1>2, <1>3, <1>4 DEF Hands, NothingForgotten, IsServer

LEMMA HandleNewConnectionSafe ==
  ASSUME SafeInv, TypeInv', HandleNewConnection PROVE SafeInv'
<1> CacheTypeOK /\ LoopTypeOK
  BY DEF SafeInv, TypeInv, CacheInv
<1>1. PICK new \in Fds :
        /\ NextFd(new) /\ Watch(new) /\ InsertBuffer(new, content)
        /\ sock' = [sock EXCEPT ![new] = Connection("client", NoUrl)]
  BY DEF HandleNewConnection
<1>2. sock'[new].role = "client" /\ \A g \in Fds \ {new} : sock'[g] = sock[g]
  BY <1>1 DEF LoopTypeOK, Connection
<1>3. Hands(new)
  BY <1>1, <1>2 DEF Hands, NextFd, Open, InsertBuffer, HandleNewConnection
<1>4. NobodyJoins /\ NothingForgotten
  BY SameCacheJoins, SameAsks DEF HandleNewConnection, ghosts
<1>5. WaitersAreAskers'
  BY <1>3, <1>4, StillWaiting DEF WaitersAreAskers, NobodyJoins
<1>6. NoStaleVisit'
  <2> SUFFICES ASSUME pc' = "dispatch", NEW g \in ready' \ {ListenFd}
               PROVE  Open(g)' /\ Readable(g)'
    BY DEF NoStaleVisit
  <2>1. g \in Fds /\ Open(g) /\ Readable(g)
    BY DEF HandleNewConnection, Visited, SafeInv, NoStaleVisit, LoopTypeOK
  <2>2. g # new
    BY <1>1, <2>1 DEF NextFd
  <2> QED
    BY <1>2, <2>1, <2>2 DEF Open, Readable
<1> QED
  BY <1>3, <1>5, <1>6, HandingSafe DEF SafeInv

------------------------------------------------------------------------------
(***************************************************************************)
(* handleClient connects to an origin.                                     *)
(***************************************************************************)

\* What a client that asks is: it was selected, so it is open, and a descriptor
\* without a node in server_list is no origin.
LEMMA AskerIsClient ==
  ASSUME SafeInv, NEW fd \in Fds, NEW k, NEW r, Asks(fd, k, r)
  PROVE  sock[fd].role = "client" /\ fd \in live /\ ~IsServer(fd)
<1>1. Open(fd)
  BY FdsRange DEF Asks, Reads, Turn, SafeInv, NoStaleVisit
<1>2. sock[fd].role \in {"free", "client", "origin"}
  BY DEF SafeInv, TypeInv, LoopTypeOK, Socket
<1> QED
  BY <1>1, <1>2 DEF Open, Asks, SafeInv, OriginsRecognised, WatchedSockets

LEMMA OpensOriginEffect ==
  ASSUME SafeInv, NEW fd \in Fds, NEW k \in 1..MaxSends, NEW r \in Requests,
         NEW new \in Fds, OpensOrigin(fd, k, r, new)
  PROVE  Hands(new) /\ NothingForgotten /\ asks'[fd][r.url] > 0 /\ NoStaleVisit'
<1> LoopTypeOK /\ HistoryTypeOK /\ MaxSends > 0
  BY ProxyAssumption DEF SafeInv, TypeInv
<1>1. /\ NextFd(new) /\ Watch(new) /\ InsertBuffer(new, Cleared(fd))
      /\ PushNode(new, r.url) /\ Visited(fd) /\ Counted(fd, r.url)
      /\ sock' = [Drained(fd, k) EXCEPT ![new] = Connection("origin", r.url)]
  BY DEF OpensOrigin
<1>2. NothingForgotten /\ asks'[fd][r.url] > 0
  BY <1>1, RequestType, CountedEffect
<1>3. /\ sock'[new].role = "origin" /\ sock'[new].url = r.url
      /\ \A g \in Fds \ {new} : /\ sock'[g].role = sock[g].role
                                /\ sock'[g].url = sock[g].url
                                /\ g # fd => sock'[g] = sock[g]
  <2>1. Drained(fd, k) = [Drained(fd, k) EXCEPT ![fd] = Drained(fd, k)[fd]]
        /\ DOMAIN Drained(fd, k) = Fds
    BY DEF Drained, LoopTypeOK
  <2> QED
    BY <1>1, <2>1, DrainedEffect DEF Connection
<1>4. /\ server_list'[new] = <<r.url>> \o server_list[new]
      /\ \A g \in Fds \ {new} : server_list'[g] = server_list[g]
  BY <1>1 DEF PushNode, LoopTypeOK
<1>5. IsServer(new)' /\ ServerUrl(new)' = r.url
  <2>1. r.url \in Urls /\ server_list[new] \in Seq(Urls)
    BY RequestType DEF LoopTypeOK
  <2>2. <<r.url>> \o server_list[new] # <<>>
        /\ Head(<<r.url>> \o server_list[new]) = r.url
    BY <2>1
  <2> QED
    BY <1>4, <2>2 DEF IsServer, ServerUrl
<1>6. Hands(new)
  BY <1>1, <1>3, <1>4, <1>5 DEF Hands, NextFd, Open, InsertBuffer
<1>7. NoStaleVisit'
  <2> SUFFICES ASSUME pc' = "dispatch", NEW g \in ready' \ {ListenFd}
               PROVE  Open(g)' /\ Readable(g)'
    BY DEF NoStaleVisit
  <2>1. g \in Fds /\ g # fd /\ Open(g) /\ Readable(g)
    BY <1>1 DEF Visited, SafeInv, NoStaleVisit, LoopTypeOK
  <2>2. g # new
    BY <1>1, <2>1 DEF NextFd
  <2> QED
    BY <1>3, <2>1, <2>2 DEF Open, Readable
<1> QED
  BY <1>2, <1>6, <1>7

LEMMA ForwardGetSafe ==
  ASSUME SafeInv, TypeInv', NEW fd \in Fds, NEW k \in 1..MaxSends,
         NEW r \in Requests, NEW new \in Fds, ForwardGet(fd, k, r, new)
  PROVE  SafeInv'
<1> CacheTypeOK
  BY DEF SafeInv, TypeInv, CacheInv
<1>1. OpensOrigin(fd, k, r, new)
  BY DEF ForwardGet
<1>2. Hands(new) /\ NothingForgotten /\ asks'[fd][r.url] > 0 /\ NoStaleVisit'
  BY <1>1, OpensOriginEffect
<1>3. sock[fd].role = "client" /\ fd \in live /\ ~IsServer(fd)
  BY <1>1, AskerIsClient DEF OpensOrigin
<1>4. PICK key : InsertIntoCache(NewCacheObject(r.url, key, fd))
  BY DEF ForwardGet
<1>5. WaitersAreAskers'
  <2> SUFFICES ASSUME NEW i \in Slots', arr'[i] # NULL,
                      NEW g \in arr'[i].client_fds
               PROVE  /\ sock'[g].role = "client" /\ g \in live'
                      /\ ~(IsServer(g)')
                      /\ asks'[g][arr'[i].url] > 0
    BY DEF WaitersAreAskers
  <2>1. CASE arr'[i] = NewCacheObject(r.url, key, fd)
    <3>1. g = fd /\ arr'[i].url = r.url
      BY <2>1 DEF NewCacheObject
    <3>2. fd # new
      BY <1>2, <1>3 DEF Hands, Open
    <3> QED
      BY <1>2, <1>3, <3>1, <3>2 DEF Hands, IsServer
  <2>2. CASE Inherits(i)
    BY <1>2, <2>2, StillWaiting
  <2> QED
    BY <1>4, <2>1, <2>2, InsertJoins
<1> QED
  BY <1>2, <1>5, HandingSafe DEF SafeInv

LEMMA OtherOriginSafe ==
  ASSUME SafeInv, TypeInv', NEW fd \in Fds, NEW k \in 1..MaxSends,
         NEW r \in Requests, NEW new \in Fds,
         OpenTunnel(fd, k, r, new) \/ ConnectOnly(fd, k, r, new)
  PROVE  SafeInv'
<1> CacheTypeOK
  BY DEF SafeInv, TypeInv, CacheInv
<1>1. OpensOrigin(fd, k, r, new) /\ UNCHANGED cacheVars
  BY DEF OpenTunnel, ConnectOnly
<1>2. Hands(new) /\ NothingForgotten /\ NoStaleVisit'
  BY <1>1, OpensOriginEffect
<1>3. WaitersAreAskers'
  BY <1>1, <1>2, SameCacheJoins, StillWaiting DEF WaitersAreAskers, NobodyJoins
<1> QED
  BY <1>2, <1>3, HandingSafe DEF SafeInv

------------------------------------------------------------------------------
(***************************************************************************)
(* Every step.                                                             *)
(***************************************************************************)
LEMMA InitSafe == Init => SafeInv
<1> SUFFICES ASSUME Init PROVE SafeInv
  OBVIOUS
<1>1. TypeInv
  BY InitType
<1>2. \A fd \in Fds : sock[fd].role = "free"
  BY DEF Init, NoSocket, Connection
<1>3. \A i \in Slots : arr[i] = NULL
  BY DEF Init, CacheInit, Slots
<1> QED
  BY <1>1, <1>2, <1>3
     DEF Init, SafeInv, WatchedSockets, NoStaleVisit, OriginsRecognised,
         WaitersAreAskers, Open

LEMMA HandleExistingConnectionSafe ==
  ASSUME SafeInv, TypeInv', NEW fd \in Fds, HandleExistingConnection(fd)
  PROVE  SafeInv'
<1>1. CASE HandleDisconnect(fd) \/ ReadError(fd)
  BY <1>1, HandleDisconnectSafe, ReadErrorSafe
<1>2. ASSUME NEW k \in 1..MaxSends, HandleServer(fd, k)
      PROVE  SafeInv'
  BY <1>2, StoreAndForwardSafe, LoopStepSafe DEF HandleServer, AssertFails
<1>3. ASSUME NEW k \in 1..MaxSends, HandleClient(fd, k)
      PROVE  SafeInv'
  <2>1. PICK r \in Requests :
          \/ \E new \in Fds : \/ ForwardGet(fd, k, r, new)
                              \/ OpenTunnel(fd, k, r, new)
                              \/ ConnectOnly(fd, k, r, new)
          \/ OriginFails(fd, k, r)
          \/ ServeFromCache(fd, k, r)
          \/ DropRequest(fd, k, r)
    BY <1>3 DEF HandleClient
  <2>2. ASSUME NEW new \in Fds,
               \/ ForwardGet(fd, k, r, new)
               \/ OpenTunnel(fd, k, r, new)
               \/ ConnectOnly(fd, k, r, new)
        PROVE  SafeInv'
    BY <2>2, ForwardGetSafe, OtherOriginSafe
  <2>3. CASE OriginFails(fd, k, r)
    BY <2>3, LoopStepSafe DEF OriginFails
  <2>4. CASE ServeFromCache(fd, k, r) \/ DropRequest(fd, k, r)
    BY <2>4, AnsweredOrDroppedSafe
  <2> QED
    BY <2>1, <2>2, <2>3, <2>4
<1>4. ASSUME NEW k \in 1..MaxSends, Relay(fd, k) \/ KeepPartial(fd, k)
      PROVE  SafeInv'
  BY <1>4, RelaySafe
<1>5. ASSUME NEW k \in 1..MaxSends, WriteFails(fd, k)
      PROVE  SafeInv'
  BY <1>5, LoopStepSafe DEF WriteFails
<1> QED
  BY <1>1, <1>2, <1>3, <1>4, <1>5 DEF HandleExistingConnection

LEMMA NextSafe ==
  ASSUME SafeInv, [Next]_vars PROVE SafeInv'
<1>1. TypeInv'
  BY NextType DEF SafeInv
<1>2. CASE Loop
  <2>1. CASE AddTokensStep \/ CheckCachedMessages \/ Select \/ EndOfPass
    BY <1>1, <2>1, LoopStepSafe
  <2>2. CASE RetryFails \/ AcceptFails
    BY <1>1, <2>2, LoopStepSafe DEF RetryFails, AcceptFails
  <2>3. CASE HandleNewConnection
    BY <1>1, <2>3, HandleNewConnectionSafe
  <2>4. CASE \E fd \in Fds : HandleExistingConnection(fd)
    BY <1>1, <2>4, HandleExistingConnectionSafe
  <2> QED
    BY <1>2, <2>1, <2>2, <2>3, <2>4 DEF Loop
<1>3. CASE Environment
  BY <1>1, <1>3, EnvironmentSafe
<1>4. CASE Terminated \/ UNCHANGED vars
  <2>1. UNCHANGED vars
    BY <1>4 DEF Terminated
  <2>2. CacheTypeOK
    BY DEF SafeInv, TypeInv, CacheInv
  <2>3. SameEnds /\ NobodyJoins /\ NothingForgotten
    BY <2>1, <2>2, SameCacheJoins, SameAsks DEF vars, SameEnds, loopVars,
       bufferVars, ghosts
  <2>4. NoStaleVisit'
    BY <2>1 DEF vars, loopVars, SafeInv, NoStaleVisit, Open, Readable
  <2> QED
    BY <1>1, <2>3, <2>4, QuietStep
<1> QED
  BY <1>2, <1>3, <1>4 DEF Next

\* The descriptor numbers mean the same to every component in every reachable
\* state, however often the kernel reuses them.
THEOREM SafetyInvariant == Spec => []SafeInv
<1>1. Init => SafeInv
  BY InitSafe
<1>2. SafeInv /\ [Next]_vars => SafeInv'
  BY NextSafe
<1> QED
  BY <1>1, <1>2, PTL DEF Spec

\* The descriptors in master_fd_set are the open ones, at most max_sock, each
\* with a buffer, although handleDisconnect only ever decrements max_sock by one.
THEOREM WatchesOpenSockets == Spec => []WatchedSockets
<1>1. SafeInv => WatchedSockets
  BY DEF SafeInv
<1> QED
  BY <1>1, SafetyInvariant, PTL

\* The loop over copy_fd_set visits no descriptor that a handler before it has
\* closed or that was handed out again since select.
THEOREM VisitsOpenSockets == Spec => []NoStaleVisit
<1>1. SafeInv => NoStaleVisit
  BY DEF SafeInv
<1> QED
  BY <1>1, SafetyInvariant, PTL

\* isServer finds the node of the open connection, not one left behind.
THEOREM RecognisesOrigins == Spec => []OriginsRecognised
<1>1. SafeInv => OriginsRecognised
  BY DEF SafeInv
<1> QED
  BY <1>1, SafetyInvariant, PTL

\* Who waits in client_fds is an open client that asked for that URL.
THEOREM WaitersAsked == Spec => []WaitersAreAskers
<1>1. SafeInv => WaitersAreAskers
  BY DEF SafeInv
<1> QED
  BY <1>1, SafetyInvariant, PTL

------------------------------------------------------------------------------
(***************************************************************************)
(* What the cache is used for: handleClient inserts an object only when it *)
(* found none, with its own client waiting, and nothing else adds a client *)
(* to an object.                                                           *)
(***************************************************************************)
\* The step of handleClient that inserts an object.
Fetches == \E fd \in Fds, k \in 1..MaxSends, r \in Requests, new \in Fds :
             ForwardGet(fd, k, r, new)

\* Every other step leaves the waiting clients to become fewer.
LEMMA OnlyFetchesJoin ==
  ASSUME TypeInv, [Next]_vars PROVE NobodyJoins \/ Fetches
<1> CacheTypeOK
  BY DEF TypeInv, CacheInv
<1>1. CASE UNCHANGED cacheVars
  BY <1>1, SameCacheJoins
<1>2. CASE EndOfPass \/ Tick
  BY <1>2, DeleteExpiredJoins, CacheTickJoins DEF EndOfPass, Tick
<1>3. ASSUME NEW fd \in Fds, HandleExistingConnection(fd)
      PROVE  NobodyJoins \/ Fetches
  <2>1. CASE HandleDisconnect(fd)
    BY <2>1, DeleteBySockfdJoins DEF HandleDisconnect
  <2>2. CASE ReadError(fd)
    BY <2>2, <1>1 DEF ReadError
  <2>3. ASSUME NEW k \in 1..MaxSends, StoreAndForward(fd, k)
        PROVE  NobodyJoins
    <3>1. PICK i \in Slots :
            /\ FindByUrl(ServerUrl(fd), i)
            /\ StoreResponse(i, AgeLimit(Buffer(fd, k)[Len(Buffer(fd, k))]),
                             sock[fd].url, Served(i))
      BY <2>3 DEF StoreAndForward
    <3>2. arr[i] # NULL
      BY <3>1 DEF FindByUrl, Matches
    <3> QED
      BY <3>1, <3>2, StoreJoins
  <2>4. ASSUME NEW k \in 1..MaxSends, NEW r \in Requests, ServeFromCache(fd, k, r)
        PROVE  NobodyJoins
    <3>1. PICK i \in Slots : FindByUrl(r.url, i) /\ TouchObject(i, fd)
      BY <2>4 DEF ServeFromCache
    <3>2. arr[i] # NULL
      BY <3>1 DEF FindByUrl, Matches
    <3> QED
      BY <3>1, <3>2, TouchJoins
  <2>5. ASSUME NEW k \in 1..MaxSends, NEW r \in Requests, NEW new \in Fds,
               OpenTunnel(fd, k, r, new) \/ ConnectOnly(fd, k, r, new)
        PROVE  NobodyJoins
    BY <2>5, <1>1, SameCacheJoins DEF OpenTunnel, ConnectOnly
  <2>6. ASSUME NEW k \in 1..MaxSends, NEW r \in Requests,
               OriginFails(fd, k, r) \/ DropRequest(fd, k, r)
        PROVE  NobodyJoins
    BY <2>6, SameCacheJoins DEF OriginFails, DropRequest, Die
  <2>7. ASSUME NEW k \in 1..MaxSends,
               \/ AssertFails(fd, k) \/ Relay(fd, k) \/ KeepPartial(fd, k)
               \/ WriteFails(fd, k)
        PROVE  NobodyJoins
    BY <2>7, SameCacheJoins DEF AssertFails, Relay, KeepPartial, WriteFails, Die
  <2> QED
    BY <1>3, <2>1, <2>2, <2>3, <2>4, <2>5, <2>6, <2>7
       DEF HandleExistingConnection, HandleServer, HandleClient, Fetches
<1>4. CASE Loop
  <2>1. CASE AddTokensStep \/ CheckCachedMessages \/ RetryFails \/ Select
             \/ HandleNewConnection \/ AcceptFails
    BY <2>1, <1>1 DEF AddTokensStep, CheckCachedMessages, RetryFails, Select,
                      HandleNewConnection, AcceptFails, Die
  <2> QED
    BY <1>2, <1>3, <1>4, <2>1 DEF Loop
<1>5. CASE Environment
  BY <1>1, <1>2, <1>5 DEF Environment, ClientSend, OriginSend, Sends, PeerClose
<1>6. CASE Terminated \/ UNCHANGED vars
  BY <1>1, <1>6 DEF Terminated, vars, cacheVars
<1> QED
  BY <1>4, <1>5, <1>6 DEF Next

\* A fetch adds one object, whose URL had none and whose client waits alone.
LEMMA FetchEffect ==
  ASSUME TypeInv, Fetches
  PROVE  \E u \in Urls, fd \in Fds : \E key \in KeysRead[u] :
           /\ ~Found(u)
           /\ InsertIntoCache(NewCacheObject(u, key, fd))
           /\ \A i \in Slots' : arr'[i] # NULL =>
                arr'[i] = NewCacheObject(u, key, fd) \/ Inherits(i)
<1>1. PICK fd \in Fds, k \in 1..MaxSends, r \in Requests, new \in Fds :
        ForwardGet(fd, k, r, new)
  BY DEF Fetches
<1>2. PICK key \in KeysRead[r.url] :
        InsertIntoCache(NewCacheObject(r.url, key, fd))
  BY <1>1 DEF ForwardGet
<1>3. r.url \in Urls /\ ~Found(r.url)
  BY <1>1, RequestType DEF ForwardGet, OpensOrigin
<1>4. \A i \in Slots' : arr'[i] # NULL =>
        arr'[i] = NewCacheObject(r.url, key, fd) \/ Inherits(i)
  BY <1>2, InsertJoins DEF TypeInv, CacheInv
<1> QED
  BY <1>2, <1>3, <1>4

------------------------------------------------------------------------------
LEMMA NextOneWaiter ==
  ASSUME TypeInv, AtMostOneWaiter, [Next]_vars PROVE AtMostOneWaiter'
<1>1. CASE NobodyJoins
  BY <1>1 DEF AtMostOneWaiter, NobodyJoins, Inherits
<1>2. CASE Fetches
  <2>1. PICK u \in Urls, fd \in Fds : \E key \in KeysRead[u] :
          \A i \in Slots' : arr'[i] # NULL =>
            arr'[i] = NewCacheObject(u, key, fd) \/ Inherits(i)
    BY <1>2, FetchEffect
  <2> QED
    BY <2>1 DEF AtMostOneWaiter, Inherits, NewCacheObject
<1> QED
  BY <1>1, <1>2, OnlyFetchesJoin

\* client_fds, which the code erases from while it iterates over it, never
\* holds two descriptors.
THEOREM WaitsAlone == Spec => []AtMostOneWaiter
<1>1. Init => AtMostOneWaiter
  BY DEF Init, CacheInit, AtMostOneWaiter, Slots
<1>2. TypeInv /\ AtMostOneWaiter /\ [Next]_vars => AtMostOneWaiter'
  BY NextOneWaiter
<1> QED
  BY <1>1, <1>2, TypeInvariant, PTL DEF Spec

------------------------------------------------------------------------------
\* strcmp reads a key right, or as the URL of no request.
FaithfulKeys == \A u \in Urls : KeysRead[u] \subseteq {u, NoUrl}

\* Only the inserted object has a key that no object had before.
LEMMA InsertKeepsKeys ==
  ASSUME TypeInv, UniqueKeys, NEW u \in Urls, NEW key \in {u, NoUrl}, NEW fd \in Fds,
         ~Found(u), InsertIntoCache(NewCacheObject(u, key, fd))
  PROVE  UniqueKeys'
<1> DEFINE obj == NewCacheObject(u, key, fd)
           cap == IF num_obj >= capacity THEN 2 * capacity ELSE capacity
           old == [i \in 0..(cap - 1) |-> IF i < capacity THEN arr[i] ELSE NULL]
           empty == {i \in 0..(cap - 1) : old[i] = NULL}
           First(i) == i \in empty /\ \A j \in empty : i <= j
<1>1. capacity' = cap /\ capacity \in Nat \ {0} /\ cap \in Nat
  BY DEF InsertIntoCache, TypeInv, CacheInv, CacheTypeOK
<1>2. \A i \in Slots' : arr'[i] = IF First(i) THEN obj ELSE old[i]
  BY <1>1 DEF InsertIntoCache, Slots
<1>3. ASSUME NEW i \in Slots', ~First(i), arr'[i] # NULL
      PROVE  i \in Slots /\ arr'[i] = arr[i] /\ arr[i].key # u
  <2>1. i \in 0..(cap - 1) /\ arr'[i] = old[i]
    BY <1>1, <1>2, <1>3 DEF Slots
  <2>2. i \in Slots /\ arr'[i] = arr[i]
    BY <1>1, <1>3, <2>1 DEF Slots
  <2> QED
    BY <1>3, <2>2 DEF Found, Matches
<1>4. ASSUME NEW i \in Slots', NEW j \in Slots', First(i), First(j)
      PROVE  i = j
  <2> HIDE DEF cap
  <2> QED
    BY <1>1, <1>4
<1>5. obj.key \in Urls => obj.key = u
  BY BaseAssumption DEF NewCacheObject
<1> SUFFICES ASSUME NEW i \in Slots', NEW j \in Slots',
                    arr'[i] # NULL, arr'[j] # NULL,
                    arr'[i].key = arr'[j].key, arr'[i].key \in Urls
             PROVE  i = j
  BY DEF UniqueKeys
<1> HIDE DEF First, obj
<1>6. CASE First(i) /\ First(j)
  BY <1>4, <1>6
<1>7. CASE First(i) /\ ~First(j)
  BY <1>2, <1>3, <1>5, <1>7
<1>8. CASE ~First(i) /\ First(j)
  BY <1>2, <1>3, <1>5, <1>8
<1>9. CASE ~First(i) /\ ~First(j)
  BY <1>3, <1>9 DEF UniqueKeys
<1> QED
  BY <1>6, <1>7, <1>8, <1>9

LEMMA NextUniqueKeys ==
  ASSUME FaithfulKeys, TypeInv, UniqueKeys, [Next]_vars PROVE UniqueKeys'
<1>1. CASE NobodyJoins
  BY <1>1 DEF UniqueKeys, NobodyJoins, Inherits
<1>2. CASE Fetches
  BY <1>2, FetchEffect, InsertKeepsKeys DEF FaithfulKeys
<1> QED
  BY <1>1, <1>2, OnlyFetchesJoin

\* find_by_url is unambiguous, even if a key is read past its end as something
\* that no client asks for, as long as it is not read as another URL.
THEOREM OneObjectPerUrl == FaithfulKeys => (Spec => []UniqueKeys)
<1> SUFFICES ASSUME FaithfulKeys PROVE Spec => []UniqueKeys
  OBVIOUS
<1>1. Init => UniqueKeys
  BY DEF Init, CacheInit, UniqueKeys, Slots
<1>2. TypeInv /\ UniqueKeys /\ [Next]_vars => UniqueKeys'
  BY NextUniqueKeys
<1> QED
  BY <1>1, <1>2, TypeInvariant, PTL DEF Spec

------------------------------------------------------------------------------
(***************************************************************************)
(* Tunnels.                                                                *)
(***************************************************************************)
(***************************************************************************)
(* What goes through a tunnel is no message of its own to the handlers:    *)
(* from the client no request, from the origin no complete response.       *)
(***************************************************************************)
QuietTunnels ==
  \A fd \in Fds, k \in 1..MaxSends : Tunnels(fd) # {} /\ Reads(fd, k) => NoMessage(fd, k)

(***************************************************************************)
(* The first end of a tunnel to be closed is an end of the newest tunnel.  *)
(***************************************************************************)
NewestEndsFirst ==
  \A fd \in Fds :
    Turn(fd) /\ sock[fd].fin /\ sock[fd].inq = <<>> =>
      Tunnels(fd) \subseteq {Len(secure_list)}

\* Each node is a standing tunnel between two open descriptors that are in no other.
NodesStand ==
  \A i \in DOMAIN secure_list :
    LET node == secure_list[i] IN
    /\ Open(node.client_fd) /\ Open(node.server_fd)
    /\ partner[node.client_fd] = node.server_fd
    /\ partner[node.server_fd] = node.client_fd
    /\ node.client_fd # node.server_fd
    /\ \A j \in DOMAIN secure_list, fd \in Fds :
         Involves(node, fd) /\ Involves(secure_list[j], fd) => i = j

TunnelInv ==
  /\ NodesStand
  /\ \A fd \in Fds : partner[fd] # 0 => Tunnels(fd) # {}

\* No end of a tunnel is closed.
StayOpen == \A g \in Fds : Open(g) /\ Tunnels(g) # {} => sock'[g].role # "free"

\* A node's ends are descriptors, and who is in no node is in no tunnel.
LEMMA NodeEnds ==
  ASSUME SecureTypeOK
  PROVE  /\ \A i \in DOMAIN secure_list : secure_list[i].client_fd \in Fds
                                          /\ secure_list[i].server_fd \in Fds
         /\ DOMAIN secure_list = 1..Len(secure_list) /\ Len(secure_list) \in Nat
<1>1. DOMAIN secure_list = 1..Len(secure_list) /\ Len(secure_list) \in Nat
  BY LenProperties DEF SecureTypeOK
<1>2. \A i \in 1..Len(secure_list) : secure_list[i] \in Node
  BY ElementOfSeq DEF SecureTypeOK
<1> QED
  BY <1>1, <1>2 DEF Node

\* No tunnel comes or goes.
LEMMA TunnelsStay ==
  ASSUME SecureTypeOK, TunnelInv, UNCHANGED <<secure_list, partner>>, StayOpen
  PROVE  TunnelInv'
<1>1. \A fd : Tunnels(fd)' = Tunnels(fd)
  BY DEF Tunnels
<1>2. NodesStand'
  <2>1. \A i \in DOMAIN secure_list : /\ secure_list[i].client_fd \in Fds
                                       /\ secure_list[i].server_fd \in Fds
                                       /\ Tunnels(secure_list[i].client_fd) # {}
                                       /\ Tunnels(secure_list[i].server_fd) # {}
    BY NodeEnds DEF Tunnels, Involves
  <2> QED
    BY <2>1 DEF TunnelInv, NodesStand, StayOpen, Open
<1> QED
  BY <1>1, <1>2 DEF TunnelInv

\* Closing a descriptor that is in no tunnel changes no tunnel.
LEMMA OutsiderForgotten ==
  ASSUME SecureTypeOK, HistoryTypeOK, TunnelInv, NEW fd \in Fds, Tunnels(fd) = {}, Forget(fd)
  PROVE  partner' = partner
<1>1. \A g \in Fds : partner[g] # fd
  <2> SUFFICES ASSUME NEW g \in Fds, partner[g] = fd PROVE FALSE
    OBVIOUS
  <2>1. PICK i \in DOMAIN secure_list : Involves(secure_list[i], g)
    BY FdsRange DEF TunnelInv, Tunnels
  <2>2. Involves(secure_list[i], fd)
    BY <2>1 DEF TunnelInv, NodesStand, Involves
  <2> QED
    BY <2>2 DEF Tunnels
<1>2. partner[fd] = 0
  BY DEF TunnelInv
<1>3. \A g \in Fds : partner'[g] = partner[g]
  BY <1>1, <1>2 DEF Forget
<1> QED
  BY <1>3 DEF Forget, HistoryTypeOK

\* A client that is in no tunnel gets one.
LEMMA TunnelOpens ==
  ASSUME TypeInv, TunnelInv, NEW fd \in Fds, NEW k, NEW r, NEW new \in Fds,
         OpenTunnel(fd, k, r, new), Tunnels(fd) = {}, Open(fd)
  PROVE  TunnelInv'
<1> DEFINE n == Len(secure_list)
           node == [client_fd |-> fd, server_fd |-> new]
<1>1. SecureTypeOK /\ HistoryTypeOK /\ LoopTypeOK
  BY DEF TypeInv
<1>2. /\ n \in Nat /\ DOMAIN secure_list = 1..n
      /\ \A i \in 1..n : secure_list[i].client_fd \in Fds /\ secure_list[i].server_fd \in Fds
  BY <1>1, NodeEnds
<1>3. /\ ~Open(new) /\ sock' = [Drained(fd, k) EXCEPT ![new] = Connection("origin", r.url)]
      /\ partner' = [partner EXCEPT ![fd] = new, ![new] = fd]
      /\ secure_list' = Append(secure_list, node)
  BY DEF OpenTunnel, OpensOrigin, NextFd, InsertSecureNode
<1>4. fd # new
  BY <1>3
<1>5. /\ secure_list' \in Seq(Node) /\ Len(secure_list') = n + 1
      /\ DOMAIN secure_list' = 1..(n + 1)
      /\ \A i \in 1..n : secure_list'[i] = secure_list[i]
      /\ secure_list'[n + 1] = node
  BY <1>1, <1>2, <1>3 DEF SecureTypeOK, Node
<1>6. /\ \A g \in Fds : Open(g) => sock'[g].role # "free"
      /\ sock'[fd].role # "free" /\ sock'[new].role # "free"
  <2>1. sock'[new] = Connection("origin", r.url)
    BY <1>1, <1>3 DEF Drained, LoopTypeOK
  <2>2. \A g \in Fds : g # new => sock'[g] = Drained(fd, k)[g]
    BY <1>1, <1>3 DEF Drained, LoopTypeOK
  <2>3. \A g \in Fds : Drained(fd, k)[g].role = sock[g].role
    BY <1>1, DrainedEffect
  <2> QED
    BY <1>3, <1>4, <2>1, <2>2, <2>3 DEF Open, Connection
<1>7. /\ partner'[fd] = new /\ partner'[new] = fd
      /\ \A g \in Fds : g # fd /\ g # new => partner'[g] = partner[g]
  BY <1>1, <1>3, <1>4 DEF HistoryTypeOK
<1>8. node.client_fd = fd /\ node.server_fd = new
  OBVIOUS
<1> HIDE DEF node, n
<1>9. \A i \in 1..n : ~Involves(secure_list[i], fd) /\ ~Involves(secure_list[i], new)
  BY <1>2, <1>3 DEF Tunnels, TunnelInv, NodesStand, Involves
<1>10. \A g : Involves(node, g) <=> g = fd \/ g = new
  BY <1>8 DEF Involves
<1>11. \A i \in 1..(n + 1) : i = n + 1 \/ i \in 1..n
  BY <1>2
<1>12. 1..n \subseteq 1..(n + 1) /\ n + 1 \in 1..(n + 1)
  BY <1>2
<1>13. ASSUME NEW i \in 1..(n + 1)
       PROVE  LET m == secure_list'[i] IN
              /\ sock'[m.client_fd].role # "free" /\ sock'[m.server_fd].role # "free"
              /\ partner'[m.client_fd] = m.server_fd
              /\ partner'[m.server_fd] = m.client_fd
              /\ m.client_fd # m.server_fd
              /\ \A j \in 1..(n + 1), g \in Fds :
                   Involves(m, g) /\ Involves(secure_list'[j], g) => i = j
  <2>1. CASE i = n + 1
    <3>1. secure_list'[i] = node
      BY <1>5, <2>1
    <3>2. \A j \in 1..(n + 1), g \in Fds :
            Involves(node, g) /\ Involves(secure_list'[j], g) => i = j
      BY <1>5, <1>9, <1>10, <1>11, <2>1
    <3> QED
      BY <1>4, <1>6, <1>7, <1>8, <3>1, <3>2
  <2>2. CASE i \in 1..n
    <3>1. /\ Open(secure_list[i].client_fd) /\ Open(secure_list[i].server_fd)
          /\ partner[secure_list[i].client_fd] = secure_list[i].server_fd
          /\ partner[secure_list[i].server_fd] = secure_list[i].client_fd
          /\ secure_list[i].client_fd # secure_list[i].server_fd
          /\ \A j \in 1..n, g \in Fds :
               Involves(secure_list[i], g) /\ Involves(secure_list[j], g) => i = j
      BY <1>2, <2>2 DEF TunnelInv, NodesStand
    <3>2. /\ secure_list[i].client_fd \notin {fd, new}
          /\ secure_list[i].server_fd \notin {fd, new}
      BY <1>9, <2>2 DEF Involves
    <3>3. \A j \in 1..(n + 1), g \in Fds :
            Involves(secure_list[i], g) /\ Involves(secure_list'[j], g) => i = j
      BY <1>5, <1>9, <1>10, <1>11, <2>2, <3>1
    <3>4. /\ sock'[secure_list[i].client_fd].role # "free"
          /\ sock'[secure_list[i].server_fd].role # "free"
      BY <1>2, <1>6, <2>2, <3>1
    <3>5. /\ partner'[secure_list[i].client_fd] = partner[secure_list[i].client_fd]
          /\ partner'[secure_list[i].server_fd] = partner[secure_list[i].server_fd]
      BY <1>2, <1>7, <2>2, <3>2
    <3>6. secure_list'[i] = secure_list[i]
      BY <1>5, <2>2
    <3> QED
      BY <3>1, <3>3, <3>4, <3>5, <3>6
  <2> QED
    BY <1>11, <2>1, <2>2
<1>14. NodesStand'
  BY <1>5, <1>13 DEF NodesStand, Open, Involves
<1>15. ASSUME NEW g \in Fds, partner'[g] # 0 PROVE Tunnels(g)' # {}
  <2>1. CASE g = fd \/ g = new
    BY <1>5, <1>10, <1>12, <2>1 DEF Tunnels, Involves
  <2>2. CASE g # fd /\ g # new
    <3>1. PICK i \in 1..n : Involves(secure_list[i], g)
      BY <1>2, <1>7, <1>15, <2>2 DEF TunnelInv, Tunnels
    <3> QED
      BY <1>5, <1>12, <3>1 DEF Tunnels, Involves
  <2> QED
    BY <2>1, <2>2
<1> QED
  BY <1>14, <1>15 DEF TunnelInv

\* An end of the newest tunnel is closed, or a descriptor that is in none.
LEMMA TunnelCloses ==
  ASSUME TypeInv, TunnelInv, NEW fd \in Fds, HandleDisconnect(fd),
         Tunnels(fd) \subseteq {Len(secure_list)}
  PROVE  TunnelInv'
<1> DEFINE n == Len(secure_list)
<1>1. SecureTypeOK /\ HistoryTypeOK /\ LoopTypeOK
  BY DEF TypeInv
<1>2. /\ n \in Nat /\ DOMAIN secure_list = 1..n
      /\ \A i \in 1..n : secure_list[i].client_fd \in Fds /\ secure_list[i].server_fd \in Fds
  BY <1>1, NodeEnds
<1>3. DeleteSecureNode(fd) /\ Forget(fd) /\ sock' = [sock EXCEPT ![fd] = NoSocket]
  BY DEF HandleDisconnect
<1>4. \A g \in Fds : g # fd => sock'[g] = sock[g]
  BY <1>1, <1>3 DEF LoopTypeOK
<1>5. CASE Tunnels(fd) = {}
  <2>1. UNCHANGED <<secure_list, partner>>
    BY <1>1, <1>3, <1>5, OutsiderForgotten DEF DeleteSecureNode
  <2>2. StayOpen
    BY <1>4, <1>5 DEF StayOpen, Open
  <2> QED
    BY <1>1, <2>1, <2>2, TunnelsStay
<1>6. CASE Tunnels(fd) # {}
  <2>1. Tunnels(fd) = {n} /\ n \in 1..n /\ Involves(secure_list[n], fd)
    BY <1>2, <1>6 DEF Tunnels
  <2> DEFINE last == secure_list[n]
             old == 1..(n - 1)
  <2>2. secure_list' = [i \in old |-> secure_list[i]]
    <3>1. secure_list' = [i \in old |-> IF i <= n THEN secure_list[i] ELSE secure_list[n]]
      BY <1>3, <2>1 DEF DeleteSecureNode
    <3>2. \A i \in old : i <= n
      BY <1>2
    <3> QED
      BY <3>1, <3>2
  <2>3. DOMAIN secure_list' = old /\ \A i \in old : secure_list'[i] = secure_list[i]
    BY <2>2
  <2>4. old \subseteq 1..n /\ n \notin old /\ \A i \in 1..n : i = n \/ i \in old
    <3> HIDE DEF n
    <3> QED
      BY <1>2
  <2>5. /\ partner[last.client_fd] = last.server_fd /\ partner[last.server_fd] = last.client_fd
        /\ last.client_fd \in Fds /\ last.server_fd \in Fds
        /\ \A i \in 1..n, g \in Fds :
             Involves(last, g) /\ Involves(secure_list[i], g) => i = n
    BY <1>2, <2>1 DEF TunnelInv, NodesStand
  <2>6. \A i \in old, g \in Fds : Involves(secure_list[i], g) => ~Involves(last, g)
    BY <2>4, <2>5
  <2>7. \A g \in Fds : Involves(last, g) =>
          g \in {last.client_fd, last.server_fd}
    BY DEF Involves
  <2>8. ASSUME NEW g \in Fds
        PROVE  partner'[g] = IF Involves(last, g) THEN 0 ELSE partner[g]
    <3>1. fd \in {last.client_fd, last.server_fd}
      BY <2>1 DEF Involves
    <3>2. partner'[g] = IF g = fd \/ partner[g] = fd THEN 0 ELSE partner[g]
      BY <1>3 DEF Forget
    <3>3. CASE Involves(last, g)
      BY <2>5, <2>7, <3>1, <3>2, <3>3
    <3>4. CASE ~Involves(last, g)
      <4>1. partner[g] # fd
        <5> SUFFICES ASSUME partner[g] = fd PROVE FALSE
          OBVIOUS
        <5>1. PICK i \in 1..n : Involves(secure_list[i], g)
          BY <1>2, FdsRange DEF TunnelInv, Tunnels
        <5>2. Involves(secure_list[i], fd)
          BY <1>2, <5>1 DEF TunnelInv, NodesStand, Involves
        <5> QED
          BY <2>1, <2>5, <3>4, <5>1, <5>2
      <4>2. g # fd
        BY <2>1, <3>4
      <4> QED
        BY <3>2, <3>4, <4>1, <4>2
    <3> QED
      BY <3>3, <3>4
  <2> HIDE DEF last, old
  <2>9. ASSUME NEW i \in old
        PROVE  /\ secure_list[i].client_fd # fd /\ secure_list[i].server_fd # fd
               /\ partner'[secure_list[i].client_fd] = partner[secure_list[i].client_fd]
               /\ partner'[secure_list[i].server_fd] = partner[secure_list[i].server_fd]
    <3>1. /\ Involves(secure_list[i], secure_list[i].client_fd)
          /\ Involves(secure_list[i], secure_list[i].server_fd)
      BY DEF Involves
    <3>2. secure_list[i].client_fd \in Fds /\ secure_list[i].server_fd \in Fds
      BY <1>2, <2>4
    <3>3. Involves(last, fd)
      BY <2>1 DEF last
    <3> QED
      BY <2>6, <2>8, <3>1, <3>2, <3>3
  <2>10. NodesStand'
    <3>1. \A i \in old :
            /\ Open(secure_list[i].client_fd) /\ Open(secure_list[i].server_fd)
            /\ partner[secure_list[i].client_fd] = secure_list[i].server_fd
            /\ partner[secure_list[i].server_fd] = secure_list[i].client_fd
            /\ secure_list[i].client_fd # secure_list[i].server_fd
            /\ \A j \in old, g \in Fds :
                 Involves(secure_list[i], g) /\ Involves(secure_list[j], g) => i = j
      BY <1>2, <2>4 DEF TunnelInv, NodesStand
    <3>2. \A i \in old : sock'[secure_list[i].client_fd].role # "free"
                         /\ sock'[secure_list[i].server_fd].role # "free"
      BY <1>2, <1>4, <2>4, <2>9, <3>1 DEF Open
    <3> QED
      BY <2>3, <2>9, <3>1, <3>2 DEF NodesStand, Open, Involves
  <2>11. ASSUME NEW g \in Fds, partner'[g] # 0 PROVE Tunnels(g)' # {}
    <3>1. ~Involves(last, g) /\ partner[g] # 0
      BY <2>8, <2>11
    <3>2. PICK i \in 1..n : Involves(secure_list[i], g)
      BY <1>2, <3>1 DEF TunnelInv, Tunnels
    <3>3. i \in old
      BY <2>4, <3>1, <3>2 DEF last
    <3> QED
      BY <2>3, <3>2, <3>3 DEF Tunnels, Involves
  <2> QED
    BY <2>10, <2>11 DEF TunnelInv
<1> QED
  BY <1>5, <1>6

\* handleServer closes a descriptor that is in no tunnel.
LEMMA StoreKeepsTunnels ==
  ASSUME TypeInv, TunnelInv, NEW fd \in Fds, NEW k, StoreAndForward(fd, k),
         Tunnels(fd) = {}
  PROVE  TunnelInv'
<1>1. SecureTypeOK /\ HistoryTypeOK /\ LoopTypeOK
  BY DEF TypeInv
<1>2. /\ Forget(fd) /\ UNCHANGED secure_list
      /\ \A g \in Fds : g # fd => sock'[g] = sock[g]
  BY <1>1 DEF StoreAndForward, CloseOrigin, LoopTypeOK
<1>3. UNCHANGED <<secure_list, partner>> /\ StayOpen
  BY <1>1, <1>2, OutsiderForgotten DEF StayOpen, Open
<1> QED
  BY <1>1, <1>3, TunnelsStay

LEMMA TunnelStep ==
  ASSUME SafeInv, TunnelInv, QuietTunnels, NewestEndsFirst, [Next]_vars
  PROVE  TunnelInv'
<1>1. TypeInv /\ SecureTypeOK /\ HistoryTypeOK /\ LoopTypeOK
  BY DEF SafeInv, TypeInv
<1>2. ASSUME UNCHANGED <<secure_list, partner>>,
             \A g \in Fds : Open(g) => sock'[g].role # "free"
      PROVE  TunnelInv'
  BY <1>1, <1>2, TunnelsStay DEF StayOpen
<1>3. ASSUME UNCHANGED <<secure_list, partner, sock>>
      PROVE  TunnelInv'
  BY <1>2, <1>3 DEF Open
<1>4. ASSUME NEW fd \in Fds, NEW k \in 1..MaxSends, ~NoMessage(fd, k), Reads(fd, k)
      PROVE  Tunnels(fd) = {} /\ Open(fd)
  <2>1. Tunnels(fd) = {}
    BY <1>4 DEF QuietTunnels
  <2>2. Open(fd)
    BY <1>4, FdsRange DEF Reads, Turn, SafeInv, NoStaleVisit
  <2> QED
    BY <2>1, <2>2
<1>5. ASSUME NEW fd \in Fds, NEW k, NEW r, Asks(fd, k, r)
      PROVE  ~NoMessage(fd, k) /\ Reads(fd, k)
  BY <1>5 DEF Asks, NoMessage, Parses, HasRequest
<1>6. ASSUME NEW fd \in Fds, NEW k
      PROVE  \A g \in Fds : Open(g) => Drained(fd, k)[g].role # "free"
  BY <1>1, DrainedEffect DEF Open
<1>7. ASSUME NEW fd \in Fds, HandleExistingConnection(fd)
      PROVE  TunnelInv'
  <2>1. CASE HandleDisconnect(fd)
    <3>1. Tunnels(fd) \subseteq {Len(secure_list)}
      BY <2>1 DEF HandleDisconnect, NewestEndsFirst
    <3> QED
      BY <1>1, <2>1, <3>1, TunnelCloses
  <2>2. CASE ReadError(fd)
    BY <1>1, <1>2, <2>2 DEF ReadError, LoopTypeOK, Open, Socket, ghosts
  <2>3. ASSUME NEW k \in 1..MaxSends, HandleServer(fd, k)
        PROVE  TunnelInv'
    <3>1. CASE StoreAndForward(fd, k)
      <4>1. ~NoMessage(fd, k) /\ Reads(fd, k)
        BY <3>1 DEF StoreAndForward, NoMessage
      <4> QED
        BY <1>1, <1>4, <3>1, <4>1, StoreKeepsTunnels
    <3>2. CASE AssertFails(fd, k)
      BY <1>3, <3>2 DEF AssertFails, Die, ghosts
    <3> QED
      BY <2>3, <3>1, <3>2 DEF HandleServer
  <2>4. ASSUME NEW k \in 1..MaxSends, NEW r \in Requests, NEW new \in Fds,
               OpenTunnel(fd, k, r, new)
        PROVE  TunnelInv'
    <3>1. Tunnels(fd) = {} /\ Open(fd)
      BY <1>4, <1>5, <2>4 DEF OpenTunnel, OpensOrigin
    <3> QED
      BY <1>1, <2>4, <3>1, TunnelOpens
  <2>5. ASSUME NEW k \in 1..MaxSends, NEW r \in Requests, NEW new \in Fds,
               ForwardGet(fd, k, r, new) \/ ConnectOnly(fd, k, r, new)
        PROVE  TunnelInv'
    <3>1. /\ UNCHANGED <<secure_list, partner>>
          /\ sock' = [Drained(fd, k) EXCEPT ![new] = Connection("origin", r.url)]
      BY <2>5 DEF ForwardGet, ConnectOnly, OpensOrigin
    <3>2. \A g \in Fds : sock'[g] = IF g = new THEN Connection("origin", r.url)
                                    ELSE Drained(fd, k)[g]
      BY <1>1, <3>1 DEF Drained, LoopTypeOK
    <3> QED
      BY <1>2, <1>6, <3>1, <3>2 DEF Connection
  <2>6. ASSUME NEW k \in 1..MaxSends, NEW r \in Requests,
               OriginFails(fd, k, r) \/ ServeFromCache(fd, k, r) \/ DropRequest(fd, k, r)
        PROVE  TunnelInv'
    <3>1. CASE OriginFails(fd, k, r)
      BY <1>3, <3>1 DEF OriginFails, Die, ghosts
    <3>2. CASE ServeFromCache(fd, k, r) \/ DropRequest(fd, k, r)
      BY <1>2, <1>6, <3>2 DEF ServeFromCache, DropRequest, Consumed
    <3> QED
      BY <2>6, <3>1, <3>2
  <2>7. ASSUME NEW k \in 1..MaxSends, Relay(fd, k) \/ KeepPartial(fd, k)
        PROVE  TunnelInv'
    BY <1>2, <1>6, <2>7 DEF Relay, KeepPartial, ghosts
  <2>8. ASSUME NEW k \in 1..MaxSends, WriteFails(fd, k)
        PROVE  TunnelInv'
    BY <1>3, <2>8 DEF WriteFails, Die, ghosts
  <2> QED
    BY <1>7, <2>1, <2>2, <2>3, <2>4, <2>5, <2>6, <2>7, <2>8
       DEF HandleExistingConnection, HandleClient
<1>8. CASE Loop
  <2>1. CASE AddTokensStep \/ CheckCachedMessages \/ RetryFails \/ Select
             \/ AcceptFails \/ EndOfPass
    BY <1>3, <2>1 DEF AddTokensStep, CheckCachedMessages, RetryFails, Select,
                      AcceptFails, EndOfPass, Die, ghosts
  <2>2. CASE HandleNewConnection
    <3>1. PICK fd \in Fds : sock' = [sock EXCEPT ![fd] = Connection("client", NoUrl)]
      BY <2>2 DEF HandleNewConnection
    <3>2. \A g \in Fds : sock'[g] = IF g = fd THEN Connection("client", NoUrl) ELSE sock[g]
      BY <1>1, <3>1 DEF LoopTypeOK
    <3> QED
      BY <1>2, <2>2, <3>2 DEF HandleNewConnection, Connection, Open, ghosts
  <2> QED
    BY <1>7, <1>8, <2>1, <2>2 DEF Loop
<1>9. CASE Environment
  <2>1. ASSUME NEW fd \in Fds, ClientSend(fd) \/ OriginSend(fd) \/ PeerClose(fd)
        PROVE  TunnelInv'
    <3>1. UNCHANGED <<secure_list, partner>>
      BY <2>1 DEF ClientSend, OriginSend, PeerClose, Sends, ghosts
    <3>2. \A g \in Fds : sock'[g].role = sock[g].role
      <4>1. sock[fd] \in Socket /\ sock \in [Fds -> Socket]
        BY <1>1 DEF LoopTypeOK
      <4>2. CASE PeerClose(fd)
        BY <4>1, <4>2 DEF PeerClose, Socket
      <4>3. ASSUME NEW role, NEW chunks, Sends(fd, role, chunks)
            PROVE  \A g \in Fds : sock'[g].role = sock[g].role
        BY <4>1, <4>3 DEF Sends, Socket
      <4> QED
        BY <2>1, <4>2, <4>3 DEF ClientSend, OriginSend
    <3> QED
      BY <1>2, <3>1, <3>2 DEF Open
  <2>2. CASE Tick
    BY <1>3, <2>2 DEF Tick, ghosts
  <2> QED
    BY <1>9, <2>1, <2>2 DEF Environment
<1>10. CASE Terminated \/ UNCHANGED vars
  BY <1>3, <1>10 DEF Terminated, vars, ghosts
<1> QED
  BY <1>8, <1>9, <1>10 DEF Next

(***************************************************************************)
(* findNodeBySockfd leads to the other end of every tunnel, and nowhere    *)
(* for a descriptor in none, for any number of tunnels, as long as their   *)
(* ends send no messages of their own through them and the newest ends     *)
(* first; deleteSecureNode removes the wrong node when it does not.        *)
(***************************************************************************)
THEOREM NewestFirstTunnelsAreTrue ==
  Spec /\ []QuietTunnels /\ []NewestEndsFirst => []TunnelTruth
<1>1. Init => TunnelInv
  BY DEF Init, SecureInit, TunnelInv, NodesStand
<1>2. SafeInv /\ TunnelInv /\ QuietTunnels /\ NewestEndsFirst /\ [Next]_vars => TunnelInv'
  BY TunnelStep
<1>3. SafeInv /\ TunnelInv => TunnelTruth
  <2> SUFFICES ASSUME SafeInv, TunnelInv, NEW fd \in Fds PROVE FindNode(fd, partner[fd])
    BY DEF TunnelTruth
  <2>1. CASE Tunnels(fd) = {}
    BY <2>1 DEF FindNode, TunnelInv
  <2>2. CASE Tunnels(fd) # {}
    <3>1. PICK i \in Tunnels(fd) : TRUE
      BY <2>2
    <3>2. SecureTypeOK
      BY DEF SafeInv, TypeInv
    <3>3. i \in DOMAIN secure_list /\ i \in Nat /\ Involves(secure_list[i], fd)
      BY <3>1, <3>2, NodeEnds DEF Tunnels
    <3>4. \A j \in Tunnels(fd) : i <= j
      BY <3>3 DEF TunnelInv, NodesStand, Tunnels
    <3>5. partner[fd] = OtherEnd(secure_list[i], fd)
      BY <3>3 DEF TunnelInv, NodesStand, Involves, OtherEnd
    <3> QED
      BY <3>1, <3>4, <3>5 DEF FindNode
  <2> QED
    BY <2>1, <2>2
<1> QED
  BY <1>1, <1>2, <1>3, SafetyInvariant, PTL DEF Spec

\* One tunnel after another, of any two descriptors, is always found.
THEOREM SingleTunnelsAreTrue ==
  Spec /\ []QuietTunnels /\ [](Len(secure_list) <= 1) => []TunnelTruth
<1>1. SafeInv /\ Len(secure_list) <= 1 => NewestEndsFirst
  <2> SUFFICES ASSUME SafeInv, Len(secure_list) <= 1, NEW fd \in Fds
               PROVE  Tunnels(fd) \subseteq {Len(secure_list)}
    BY DEF NewestEndsFirst
  <2>1. SecureTypeOK
    BY DEF SafeInv, TypeInv
  <2> QED
    BY <2>1, NodeEnds DEF Tunnels
<1> QED
  BY <1>1, NewestFirstTunnelsAreTrue, SafetyInvariant, PTL

==============================================================================
