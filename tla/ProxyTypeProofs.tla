--------------------------- MODULE ProxyTypeProofs ----------------------------
(***************************************************************************)
(* What the operations of the cache, of the buffers and of the tunnels     *)
(* preserve, whatever calls them, and from that the type invariant of the  *)
(* proxy, with what makes it inductive: the cache's scan covers its        *)
(* objects (check_cached_messages reads no slot outside the array), and a  *)
(* pending connection is within the bound.                                 *)
(***************************************************************************)
EXTENDS Proxy, TLAPS

------------------------------------------------------------------------------
(***************************************************************************)
(* The cache.                                                              *)
(***************************************************************************)
CacheInv == CacheTypeOK /\ ScanCoversObjects

\* The empty cache is well formed and scanned completely.
LEMMA CacheInitInv == CacheInit => CacheInv
<1> SUFFICES ASSUME CacheInit PROVE CacheInv
  OBVIOUS
<1>1. capacity = 1 /\ num_obj = 0 /\ Slots = {0}
  BY DEF CacheInit, Slots
<1>2. arr \in [Slots -> {NULL}]
  BY <1>1 DEF CacheInit
<1> QED
  BY <1>1, <1>2 DEF CacheInv, CacheTypeOK, ScanCoversObjects

\* A new cache object is one.
LEMMA NewObject ==
  ASSUME NEW u \in Urls, NEW k \in KeysRead[u], NEW fd \in Fds
  PROVE  NewCacheObject(u, k, fd) \in CacheObj
<1>1. k \in Urls \cup {NoUrl}
  BY CacheAssumption
<1>2. 0 \in 0..TimeCap
  BY BaseAssumption
<1> QED
  BY <1>1, <1>2 DEF NewCacheObject, CacheObj

\* insert_into_cache, whether or not it grows the array: the object lands in a
\* slot that check_cached_messages scans, since the slot num_obj is empty.
LEMMA InsertKeepsInv ==
  ASSUME CacheInv, NEW obj \in CacheObj, InsertIntoCache(obj)
  PROVE  CacheInv'
<1> USE DEF Slots
<1> DEFINE cap == IF num_obj >= capacity THEN 2 * capacity ELSE capacity
           old == [i \in 0..(cap - 1) |-> IF i < capacity THEN arr[i] ELSE NULL]
           empty == {i \in 0..(cap - 1) : old[i] = NULL}
<1>1. /\ capacity \in Nat \ {0} /\ num_obj \in Nat /\ num_obj <= capacity
      /\ arr \in [Slots -> CacheObj \cup {NULL}]
      /\ \A i \in Slots : arr[i] # NULL => i < num_obj
  BY DEF CacheInv, CacheTypeOK, ScanCoversObjects
<1>2. cap \in Nat /\ cap > 0 /\ num_obj < cap /\ capacity <= cap
  BY <1>1
<1>3. old \in [0..(cap - 1) -> CacheObj \cup {NULL}]
  <2> SUFFICES ASSUME NEW i \in 0..(cap - 1)
               PROVE  (IF i < capacity THEN arr[i] ELSE NULL) \in CacheObj \cup {NULL}
    OBVIOUS
  <2>1. i < capacity => i \in Slots
    BY <1>1, <1>2
  <2> HIDE DEF cap
  <2> QED
    BY <1>1, <2>1
<1>4. num_obj \in empty
  <2>1. num_obj \in 0..(cap - 1)
    BY <1>1, <1>2
  <2>2. num_obj < capacity => arr[num_obj] = NULL
    BY <1>1
  <2> HIDE DEF cap
  <2> QED
    BY <2>1, <2>2
<1>5. /\ capacity' = cap
      /\ arr' = [i \in 0..(cap - 1) |->
                   IF i \in empty /\ \A j \in empty : i <= j THEN obj ELSE old[i]]
      /\ num_obj' = num_obj + (IF empty = {} THEN 0 ELSE 1)
  BY DEF InsertIntoCache
<1>6. num_obj' = num_obj + 1
  <2> HIDE DEF empty
  <2> QED
    BY <1>4, <1>5
<1>7. \A i \in 0..(cap - 1) : old[i] # NULL => i < num_obj
  <2> SUFFICES ASSUME NEW i \in 0..(cap - 1), old[i] # NULL PROVE i < num_obj
    OBVIOUS
  <2>1. i < capacity /\ arr[i] # NULL
    <3> HIDE DEF cap
    <3> QED
      OBVIOUS
  <2>2. i \in Slots
    BY <2>1, <1>1, <1>2
  <2> QED
    BY <1>1, <2>1, <2>2
<1> HIDE DEF cap, old, empty
<1>8. CacheTypeOK'
  BY <1>1, <1>2, <1>3, <1>5, <1>6 DEF CacheTypeOK
<1>9. ScanCoversObjects'
  <2>1. num_obj' <= capacity'
    BY <1>1, <1>2, <1>5, <1>6
  <2>2. ASSUME NEW i \in Slots', arr'[i] # NULL
        PROVE  i < num_obj'
    <3>1. i \in 0..(cap - 1)
      BY <1>5
    <3>2. CASE i \in empty /\ \A j \in empty : i <= j
      BY <3>1, <3>2, <1>1, <1>4, <1>6
    <3>3. CASE ~(i \in empty /\ \A j \in empty : i <= j)
      <4>1. arr'[i] = old[i]
        BY <3>1, <3>3, <1>5
      <4> QED
        BY <3>1, <4>1, <2>2, <1>1, <1>6, <1>7
    <3> QED
      BY <3>2, <3>3
  <2> QED
    BY <2>1, <2>2 DEF ScanCoversObjects
<1> QED
  BY <1>8, <1>9 DEF CacheInv

\* An operation that keeps the array's length and only rewrites or deletes
\* objects keeps the invariant; the operations below are of this kind.
LEMMA RewriteKeepsInv ==
  ASSUME CacheInv, num_obj' = num_obj, capacity' = capacity,
         arr' \in [Slots -> CacheObj \cup {NULL}],
         \A i \in Slots : arr[i] = NULL => arr'[i] = NULL
  PROVE  CacheInv'
<1>1. Slots' = Slots
  BY DEF Slots
<1>2. CacheTypeOK'
  BY <1>1 DEF CacheInv, CacheTypeOK
<1>3. ScanCoversObjects'
  BY <1>1 DEF CacheInv, CacheTypeOK, ScanCoversObjects
<1> QED
  BY <1>2, <1>3 DEF CacheInv

\* delete_from_clientfds yields an object again.
LEMMA DeleteFromKeepsObject ==
  ASSUME NEW obj \in CacheObj, NEW fds
  PROVE  DeleteFromClientfds(obj, fds) \in CacheObj
BY DEF DeleteFromClientfds, CacheObj

\* Storing a response, in the object of a slot that holds one.
LEMMA StoreKeepsInv ==
  ASSUME CacheInv, NEW i \in Slots, arr[i] # NULL, NEW m \in MaxAges,
         NEW src \in Urls \cup {NoUrl}, NEW fds, StoreResponse(i, m, src, fds)
  PROVE  CacheInv'
<1> DEFINE obj == [arr[i] EXCEPT !.max_age = m, !.age = 0, !.source = src]
<1>1. arr \in [Slots -> CacheObj \cup {NULL}] /\ arr[i] \in CacheObj
  BY DEF CacheInv, CacheTypeOK
<1>2. obj \in CacheObj
  <2>1. 0 \in 0..TimeCap
    BY BaseAssumption
  <2> QED
    BY <1>1, <2>1 DEF CacheObj
<1>3. DeleteFromClientfds(obj, fds) \in CacheObj
  BY <1>2, DeleteFromKeepsObject
<1>4. arr' = [arr EXCEPT ![i] = DeleteFromClientfds(obj, fds)]
  BY DEF StoreResponse
<1> HIDE DEF obj
<1> QED
  BY <1>1, <1>3, <1>4, RewriteKeepsInv DEF StoreResponse

\* Answering from the cache.
LEMMA TouchKeepsInv ==
  ASSUME CacheInv, NEW i \in Slots, arr[i] # NULL, NEW fd, TouchObject(i, fd)
  PROVE  CacheInv'
<1> DEFINE obj == [arr[i] EXCEPT !.idle = 0]
<1>1. arr \in [Slots -> CacheObj \cup {NULL}] /\ arr[i] \in CacheObj
  BY DEF CacheInv, CacheTypeOK
<1>2. obj \in CacheObj
  BY <1>1, BaseAssumption DEF CacheObj
<1>3. DeleteFromClientfds(obj, {fd}) \in CacheObj
  BY <1>2, DeleteFromKeepsObject
<1>4. arr' = [arr EXCEPT ![i] = DeleteFromClientfds(obj, {fd})]
  BY DEF TouchObject
<1> HIDE DEF obj
<1> QED
  BY <1>1, <1>3, <1>4, RewriteKeepsInv DEF TouchObject

\* delete_expired
LEMMA DeleteExpiredKeepsInv ==
  ASSUME CacheInv, DeleteExpired PROVE CacheInv'
BY RewriteKeepsInv DEF CacheInv, CacheTypeOK, DeleteExpired

\* delete_by_sockfd
LEMMA DeleteBySockfdKeepsInv ==
  ASSUME CacheInv, NEW fd, DeleteBySockfd(fd) PROVE CacheInv'
<1>1. arr \in [Slots -> CacheObj \cup {NULL}]
  BY DEF CacheInv, CacheTypeOK
<1>2. ASSUME NEW i \in Slots, arr[i] # NULL
      PROVE  DeleteFromClientfds(arr[i], {fd}) \in CacheObj
  BY <1>1, <1>2, DeleteFromKeepsObject
<1> QED
  BY <1>1, <1>2, RewriteKeepsInv DEF DeleteBySockfd

\* The clock.
LEMMA CacheTickKeepsInv ==
  ASSUME CacheInv, CacheTick PROVE CacheInv'
<1>1. arr \in [Slots -> CacheObj \cup {NULL}]
  BY DEF CacheInv, CacheTypeOK
<1> DEFINE Aged(obj) == [obj EXCEPT !.age = IF @ = -1 THEN -1 ELSE Older(@),
                                    !.idle = Older(@)]
<1>2. ASSUME NEW t \in 0..TimeCap PROVE Older(t) \in 0..TimeCap
  BY BaseAssumption DEF Older
<1>3. ASSUME NEW obj \in CacheObj PROVE Aged(obj) \in CacheObj
  <2>1. obj.idle \in 0..TimeCap /\ (obj.age = -1 \/ obj.age \in 0..TimeCap)
    BY DEF CacheObj
  <2>2. Older(obj.idle) \in 0..TimeCap
        /\ (IF obj.age = -1 THEN -1 ELSE Older(obj.age)) \in (0..TimeCap) \cup {-1}
    BY <2>1, <1>2
  <2> QED
    BY <2>2 DEF CacheObj
<1>4. arr' = [i \in Slots |-> IF arr[i] = NULL THEN NULL ELSE Aged(arr[i])]
  BY DEF CacheTick
<1> HIDE DEF Aged
<1>5. arr' \in [Slots -> CacheObj \cup {NULL}]
  BY <1>1, <1>3, <1>4
<1>6. \A i \in Slots : arr[i] = NULL => arr'[i] = NULL
  BY <1>4
<1> QED
  BY <1>5, <1>6, RewriteKeepsInv DEF CacheTick

------------------------------------------------------------------------------
(***************************************************************************)
(* Buffers, token buckets and tunnels.                                     *)
(***************************************************************************)
\* The empty list.
LEMMA BufferInitType == BufferInit => BufferTypeOK
<1> SUFFICES ASSUME BufferInit PROVE BufferTypeOK
  OBVIOUS
<1>1. 0 \in 0..BucketSize /\ 0 \in 0..TimeCap
  BY BufferAssumption, BaseAssumption
<1> QED
  BY <1>1 DEF BufferInit, BufferTypeOK

\* A new buffer has an empty bucket.
LEMMA NewBucketType ==
  ASSUME BufferTypeOK, NEW fd, NewBucket(fd)
  PROVE  tokens' \in [Fds -> 0..BucketSize] /\ elapsed' \in [Fds -> 0..TimeCap]
<1>1. 0 \in 0..BucketSize /\ 0 \in 0..TimeCap
  BY BufferAssumption, BaseAssumption
<1> QED
  BY <1>1 DEF BufferTypeOK, NewBucket

LEMMA InsertBufferType ==
  ASSUME BufferTypeOK, NEW fd \in Fds, NEW held \in [Fds -> Seq(Chunk)],
         InsertBuffer(fd, held)
  PROVE  BufferTypeOK'
BY NewBucketType DEF BufferTypeOK, InsertBuffer, NewPartialBuffer

LEMMA DeleteBufferType ==
  ASSUME BufferTypeOK, NEW fd \in Fds, DeleteBuffer(fd)
  PROVE  BufferTypeOK'
BY NewBucketType DEF BufferTypeOK, DeleteBuffer, NewPartialBuffer

\* What insertPartialBuffer and clearFromBufferList leave in the buffers.
LEMMA AppendedType ==
  ASSUME BufferTypeOK, NEW fd \in Fds, NEW chunks \in Seq(Chunk)
  PROVE  Appended(fd, chunks) \in [Fds -> Seq(Chunk)]
BY DEF BufferTypeOK, Appended

LEMMA ClearedType ==
  ASSUME BufferTypeOK, NEW fd \in Fds
  PROVE  Cleared(fd) \in [Fds -> Seq(Chunk)]
BY DEF BufferTypeOK, Cleared

LEMMA HoldType ==
  ASSUME BufferTypeOK, NEW held \in [Fds -> Seq(Chunk)], Hold(held)
  PROVE  BufferTypeOK'
BY DEF BufferTypeOK, Hold

\* add_tokens never fills a bucket beyond its size.
LEMMA RefilledRange ==
  ASSUME BufferTypeOK, NEW fd \in Fds
  PROVE  Refilled(fd) \in 0..BucketSize
<1>1. elapsed[fd] \in Nat /\ tokens[fd] \in 0..BucketSize
  BY BaseAssumption DEF BufferTypeOK
<1>2. TokenRate \in Nat /\ Second \in Nat /\ Second > 0 /\ BucketSize \in Nat
  BY BufferAssumption
<1>3. elapsed[fd] * TokenRate \in Nat
  BY <1>1, <1>2
<1>4. \A n \in Nat : n \div Second \in Nat
  BY <1>2
<1> QED
  BY <1>1, <1>2, <1>3, <1>4 DEF Refilled

LEMMA AddTokensType ==
  ASSUME BufferTypeOK, NEW length, AddTokens(length)
  PROVE  BufferTypeOK'
<1>1. 0 \in 0..TimeCap
  BY BaseAssumption
<1> QED
  BY <1>1, RefilledRange DEF BufferTypeOK, AddTokens

\* use_tokens: who can pay still has a bucket in range afterwards.
LEMMA PaidType ==
  ASSUME BufferTypeOK, NEW size \in Nat, NEW fds, \A fd \in fds : CanPay(fd, size)
  PROVE  Paid(fds, size) \in [Fds -> 0..BucketSize]
BY BufferAssumption DEF BufferTypeOK, CanPay, Paid

LEMMA BufferTickType ==
  ASSUME BufferTypeOK, BufferTick
  PROVE  BufferTypeOK'
<1>1. 0 \in 0..TimeCap /\ \A t \in 0..TimeCap : Older(t) \in 0..TimeCap
  BY BaseAssumption DEF Older
<1> QED
  BY <1>1 DEF BufferTypeOK, BufferTick

------------------------------------------------------------------------------
LEMMA SecureInitType == SecureInit => SecureTypeOK
BY DEF SecureInit, SecureTypeOK

LEMMA InsertSecureNodeType ==
  ASSUME SecureTypeOK, NEW c \in Fds, NEW s \in Fds, InsertSecureNode(c, s)
  PROVE  SecureTypeOK'
BY DEF SecureTypeOK, InsertSecureNode, Node

\* deleteSecureNode shortens the list by one node and invents none.
LEMMA DeleteSecureNodeType ==
  ASSUME SecureTypeOK, NEW fd, DeleteSecureNode(fd)
  PROVE  SecureTypeOK'
<1>1. CASE Tunnels(fd) = {}
  BY <1>1 DEF SecureTypeOK, DeleteSecureNode
<1>2. CASE Tunnels(fd) # {}
  <2>1. PICK d \in Tunnels(fd) :
          secure_list' = [i \in 1..(Len(secure_list) - 1) |->
                            IF i <= d THEN secure_list[i] ELSE secure_list[d]]
    BY <1>2 DEF DeleteSecureNode
  <2>2. d \in 1..Len(secure_list) /\ Len(secure_list) \in Nat
    BY DEF Tunnels, SecureTypeOK
  <2>3. \A i \in 1..Len(secure_list) : secure_list[i] \in Node
    BY DEF SecureTypeOK
  <2>4. Len(secure_list) - 1 \in Nat
    BY <2>2
  <2>5. secure_list' \in [1..(Len(secure_list) - 1) -> Node]
    BY <2>1, <2>2, <2>3
  <2> QED
    BY <2>4, <2>5 DEF SecureTypeOK
<1> QED
  BY <1>1, <1>2

------------------------------------------------------------------------------
(***************************************************************************)
(* The proxy.                                                              *)
(***************************************************************************)
TypeInv ==
  /\ CacheInv /\ BufferTypeOK /\ SecureTypeOK /\ LoopTypeOK /\ HistoryTypeOK
  /\ ListenFd \in ready => conns < MaxConns

------------------------------------------------------------------------------
(***************************************************************************)
(* A component nobody touches keeps its type.                              *)
(***************************************************************************)
LEMMA SameCache == ASSUME CacheInv, UNCHANGED cacheVars PROVE CacheInv'
BY DEF CacheInv, CacheTypeOK, ScanCoversObjects, Slots, cacheVars

LEMMA SameBuffers == ASSUME BufferTypeOK, UNCHANGED bufferVars PROVE BufferTypeOK'
BY DEF BufferTypeOK, bufferVars

LEMMA SameTunnels == ASSUME SecureTypeOK, UNCHANGED secure_list PROVE SecureTypeOK'
BY DEF SecureTypeOK

LEMMA SameHistory == ASSUME HistoryTypeOK, UNCHANGED ghosts PROVE HistoryTypeOK'
BY DEF HistoryTypeOK, ghosts

------------------------------------------------------------------------------
(***************************************************************************)
(* The values the actions assign.                                          *)
(***************************************************************************)

\* Every descriptor of a connection is larger than the listening one.
LEMMA FdsRange ==
  /\ ListenFd \in Nat /\ MaxFd \in Nat /\ ListenFd \notin Fds
  /\ \A fd \in Fds : fd \in Nat /\ ListenFd < fd /\ fd <= MaxFd
BY BaseAssumption DEF Fds

LEMMA ConnectionType ==
  ASSUME NEW role \in {"free", "client", "origin"}, NEW u \in Sources
  PROVE  Connection(role, u) \in Socket
BY ProxyAssumption DEF Connection, Socket

LEMMA NoSocketType == NoSocket \in Socket
BY ConnectionType DEF NoSocket, Sources

\* What is read and what is left of it are chunks.
LEMMA ReadsType ==
  ASSUME LoopTypeOK, BufferTypeOK, NEW fd \in Fds, NEW k \in 1..Len(sock[fd].inq)
  PROVE  /\ SubSeq(sock[fd].inq, 1, k) \in Seq(Chunk)
         /\ Buffer(fd, k) \in Seq(Chunk)
         /\ Drained(fd, k) \in [Fds -> Socket]
<1>1. sock[fd].inq \in Seq(Chunk) /\ sock[fd] \in Socket
  BY DEF LoopTypeOK, Socket
<1>2. SubSeq(sock[fd].inq, 1, k) \in Seq(Chunk)
  BY <1>1
<1>3. Buffer(fd, k) \in Seq(Chunk)
  BY <1>2 DEF Buffer, BufferTypeOK
<1>4. SubSeq(sock[fd].inq, k + 1, Len(sock[fd].inq)) \in Seq(Chunk)
  BY <1>1
<1>5. Drained(fd, k) \in [Fds -> Socket]
  BY <1>1, <1>4 DEF Drained, LoopTypeOK, Socket
<1> QED
  BY <1>2, <1>3, <1>5

LEMMA AnsweredType ==
  ASSUME HistoryTypeOK, NEW fds, NEW src \in Sources
  PROVE  Answered(fds, src) \in [Fds -> [Sources -> 0..AnswerCap]]
<1>1. AnswerCap \in Nat
  BY ProxyAssumption DEF AnswerCap
<1>2. ASSUME NEW g \in Fds, answers[g][src] < AnswerCap
      PROVE  [answers[g] EXCEPT ![src] = @ + 1] \in [Sources -> 0..AnswerCap]
  <2>1. answers[g] \in [Sources -> 0..AnswerCap]
    BY DEF HistoryTypeOK
  <2>2. answers[g][src] + 1 \in 0..AnswerCap
    BY <1>1, <1>2, <2>1
  <2> QED
    BY <2>1, <2>2
<1> QED
  BY <1>2 DEF HistoryTypeOK, Answered

LEMMA CountedType ==
  ASSUME HistoryTypeOK, NEW fd \in Fds, NEW u \in Urls, Counted(fd, u)
  PROVE  asks' \in [Fds -> [Urls -> 0..MaxSends]]
<1>1. asks[fd] \in [Urls -> 0..MaxSends]
  BY DEF HistoryTypeOK
<1>2. (IF asks[fd][u] < MaxSends THEN asks[fd][u] + 1 ELSE asks[fd][u])
        \in 0..MaxSends
  BY <1>1, ProxyAssumption
<1> QED
  BY <1>1, <1>2 DEF HistoryTypeOK, Counted

LEMMA ForgetType ==
  ASSUME HistoryTypeOK, NEW fd, Forget(fd)
  PROVE  partner' \in [Fds -> Fds \cup {0}]
BY DEF HistoryTypeOK, Forget

\* The histories of a closed descriptor.
LEMMA NoHistoryType ==
  NoAsks \in [Urls -> 0..MaxSends] /\ NoAnswers \in [Sources -> 0..AnswerCap]
BY ProxyAssumption DEF NoAsks, NoAnswers, AnswerCap

\* A visited descriptor is struck from ready, nothing is added.
LEMMA VisitedType ==
  ASSUME LoopTypeOK, NEW fd, Visited(fd)
  PROVE  /\ ready' \subseteq Fds \cup {ListenFd} /\ ready' \subseteq ready
         /\ pc' \in {"add_tokens", "check", "dispatch", "dead"} /\ idx' \in Nat
BY DEF LoopTypeOK, Visited

LEMMA WatchType ==
  ASSUME LoopTypeOK, NEW fd \in Fds, Watch(fd)
  PROVE  max_sock' \in ListenFd..MaxFd /\ master' \subseteq Fds \cup {ListenFd}
BY FdsRange DEF LoopTypeOK, Watch

\* The clients of an object that get its response are its clients.
LEMMA ServedCanPay ==
  /\ \A i : \A fd \in Served(i) : CanPay(fd, WithAge(ResLen))
  /\ \A fd \in Retried : CanPay(fd, ResLen)
BY DEF Served, Retried

LEMMA SizesType == ResLen \in Nat /\ WithAge(ResLen) \in Nat
BY ProxyAssumption DEF WithAge

\* A request that is looked up is one that was read.
LEMMA RequestType ==
  ASSUME NEW r \in Requests
  PROVE  r \in Request /\ r.url \in Urls
<1>1. r \in Request
  BY DEF Requests
<1> QED
  BY <1>1 DEF Request

------------------------------------------------------------------------------
(***************************************************************************)
(* The passes of the loop.                                                 *)
(***************************************************************************)
LEMMA InitType == Init => TypeInv
<1> SUFFICES ASSUME Init PROVE TypeInv
  OBVIOUS
<1>1. CacheInv
  BY CacheInitInv DEF Init
<1>2. BufferTypeOK /\ SecureTypeOK
  BY BufferInitType, SecureInitType DEF Init
<1>3. max_sock \in ListenFd..MaxFd
  BY BaseAssumption DEF Init
<1>4. LoopTypeOK
  BY <1>3, FdsRange, NoSocketType, ProxyAssumption, BaseAssumption
     DEF Init, LoopTypeOK
<1>5. HistoryTypeOK
  BY NoHistoryType DEF Init, HistoryTypeOK
<1> QED
  BY <1>1, <1>2, <1>4, <1>5 DEF TypeInv, Init

LEMMA AddTokensStepType ==
  ASSUME TypeInv, AddTokensStep PROVE TypeInv'
<1> USE DEF AddTokensStep, TypeInv
<1>1. CacheInv'
  BY SameCache
<1>2. BufferTypeOK'
  BY AddTokensType
<1>3. SecureTypeOK' /\ HistoryTypeOK'
  BY SameTunnels, SameHistory
<1>4. LoopTypeOK'
  BY DEF LoopTypeOK
<1> QED
  BY <1>1, <1>2, <1>3, <1>4

\* The slot idx is in the array, since num_obj is at most capacity.
LEMMA CheckCachedMessagesType ==
  ASSUME TypeInv, CheckCachedMessages PROVE TypeInv'
<1> USE DEF TypeInv
<1>1. CacheInv'
  BY SameCache DEF CheckCachedMessages
<1>2. BufferTypeOK'
  <2>1. tokens' = Paid(Retried, ResLen)
    BY DEF CheckCachedMessages
  <2>2. tokens' \in [Fds -> 0..BucketSize]
    BY <2>1, PaidType, ServedCanPay, SizesType
  <2> QED
    BY <2>2 DEF BufferTypeOK, CheckCachedMessages
<1>3. SecureTypeOK'
  BY SameTunnels DEF CheckCachedMessages
<1>4. LoopTypeOK'
  BY DEF LoopTypeOK, CheckCachedMessages
<1>5. answers' \in [Fds -> [Sources -> 0..AnswerCap]]
  <2>1. CASE Retried = {}
    BY <2>1 DEF CheckCachedMessages, HistoryTypeOK
  <2>2. CASE Retried # {}
    <3>1. idx \in Slots
      BY DEF CheckCachedMessages, CacheInv, CacheTypeOK, ScanCoversObjects,
             LoopTypeOK, Slots
    <3>2. arr[idx] \in CacheObj
      BY <2>2, <3>1 DEF Retried, CacheInv, CacheTypeOK
    <3>3. arr[idx].source \in Sources
      BY <3>2 DEF CacheObj, Sources
    <3> QED
      BY <2>2, <3>3, AnsweredType DEF CheckCachedMessages
  <2> QED
    BY <2>1, <2>2
<1>6. HistoryTypeOK'
  BY <1>5 DEF HistoryTypeOK, CheckCachedMessages, AnswerCap
<1> QED
  BY <1>1, <1>2, <1>3, <1>4, <1>6 DEF CheckCachedMessages

LEMMA SelectType ==
  ASSUME TypeInv, Select PROVE TypeInv'
<1> USE DEF TypeInv
<1>1. CacheInv' /\ BufferTypeOK' /\ SecureTypeOK' /\ HistoryTypeOK'
  BY SameCache, SameBuffers, SameTunnels, SameHistory DEF Select
<1>2. PICK fresh \in SUBSET {ListenFd} :
        (fresh # {} => conns < MaxConns) /\ ready' = fresh \cup Selected
  BY DEF Select
<1>3. Selected \subseteq Fds
  BY DEF Selected, Watched, LoopTypeOK
<1>4. LoopTypeOK'
  BY <1>2, <1>3 DEF Select, LoopTypeOK
<1>5. ListenFd \in ready' => conns' < MaxConns
  BY <1>2, <1>3, FdsRange DEF Select
<1> QED
  BY <1>1, <1>4, <1>5

LEMMA EndOfPassType ==
  ASSUME TypeInv, EndOfPass PROVE TypeInv'
<1> USE DEF TypeInv, EndOfPass
<1>1. CacheInv'
  BY DeleteExpiredKeepsInv
<1>2. BufferTypeOK' /\ SecureTypeOK' /\ HistoryTypeOK'
  BY SameBuffers, SameTunnels, SameHistory
<1>3. LoopTypeOK'
  BY DEF LoopTypeOK
<1> QED
  BY <1>1, <1>2, <1>3

LEMMA DieType ==
  ASSUME TypeInv, Die PROVE TypeInv'
<1> USE DEF TypeInv, Die
<1>1. CacheInv' /\ BufferTypeOK' /\ SecureTypeOK' /\ HistoryTypeOK'
  BY SameCache, SameBuffers, SameTunnels, SameHistory
<1>2. LoopTypeOK'
  BY DEF LoopTypeOK
<1> QED
  BY <1>1, <1>2

------------------------------------------------------------------------------
(***************************************************************************)
(* Connections come and go.                                                *)
(***************************************************************************)
LEMMA HandleNewConnectionType ==
  ASSUME TypeInv, HandleNewConnection PROVE TypeInv'
<1> USE DEF TypeInv
<1>1. PICK fd \in Fds :
        /\ Watch(fd)
        /\ InsertBuffer(fd, content)
        /\ sock' = [sock EXCEPT ![fd] = Connection("client", NoUrl)]
  BY DEF HandleNewConnection
<1>2. CacheInv' /\ SecureTypeOK' /\ HistoryTypeOK'
  BY SameCache, SameTunnels, SameHistory DEF HandleNewConnection
<1>3. BufferTypeOK'
  BY <1>1, InsertBufferType DEF BufferTypeOK
<1>4. sock' \in [Fds -> Socket]
  BY <1>1, ConnectionType DEF LoopTypeOK, Sources
<1>5. Visited(ListenFd) /\ conns' = conns + 1 /\ server_list' = server_list
  BY DEF HandleNewConnection
<1>6. conns' \in 0..MaxConns
  BY <1>5, ProxyAssumption DEF HandleNewConnection, Turn, LoopTypeOK
<1>7. LoopTypeOK'
  BY <1>1, <1>4, <1>5, <1>6, WatchType, VisitedType DEF LoopTypeOK
<1> QED
  BY <1>2, <1>3, <1>5, <1>7 DEF Visited

LEMMA HandleDisconnectType ==
  ASSUME TypeInv, NEW fd \in Fds, HandleDisconnect(fd) PROVE TypeInv'
<1> USE DEF TypeInv
<1>1. CacheInv'
  BY DeleteBySockfdKeepsInv DEF HandleDisconnect
<1>2. BufferTypeOK' /\ SecureTypeOK'
  BY DeleteBufferType, DeleteSecureNodeType DEF HandleDisconnect
<1>3. sock' \in [Fds -> Socket]
  BY NoSocketType DEF HandleDisconnect, LoopTypeOK
<1>4. max_sock' \in ListenFd..MaxFd
  BY FdsRange DEF HandleDisconnect, LoopTypeOK
<1>5. LoopTypeOK'
  BY <1>3, <1>4, VisitedType DEF HandleDisconnect, LoopTypeOK
<1>6. HistoryTypeOK'
  <2>1. asks' \in [Fds -> [Urls -> 0..MaxSends]]
    BY NoHistoryType DEF HandleDisconnect, HistoryTypeOK
  <2>2. answers' \in [Fds -> [Sources -> 0..AnswerCap]]
    BY NoHistoryType DEF HandleDisconnect, HistoryTypeOK
  <2> QED
    BY <2>1, <2>2, ForgetType DEF HandleDisconnect, HistoryTypeOK, AnswerCap
<1> QED
  BY <1>1, <1>2, <1>5, <1>6 DEF HandleDisconnect, Visited

LEMMA ReadErrorType ==
  ASSUME TypeInv, NEW fd \in Fds, ReadError(fd) PROVE TypeInv'
<1> USE DEF TypeInv
<1>1. CacheInv' /\ BufferTypeOK' /\ SecureTypeOK' /\ HistoryTypeOK'
  BY SameCache, SameBuffers, SameTunnels, SameHistory DEF ReadError
<1>2. sock' \in [Fds -> Socket]
  <2>1. sock[fd] \in Socket
    BY DEF LoopTypeOK
  <2>2. <<>> \in Seq(Chunk)
    OBVIOUS
  <2>3. \A q \in Seq(Chunk) : [sock[fd] EXCEPT !.inq = q] \in Socket
    BY <2>1 DEF Socket
  <2>4. [sock[fd] EXCEPT !.inq = <<>>] \in Socket
    BY <2>2, <2>3
  <2>5. sock' = [sock EXCEPT ![fd] = [sock[fd] EXCEPT !.inq = <<>>]]
    BY DEF ReadError
  <2> QED
    BY <2>4, <2>5 DEF LoopTypeOK
<1>3. LoopTypeOK'
  BY <1>2, VisitedType DEF ReadError, LoopTypeOK
<1> QED
  BY <1>1, <1>3 DEF ReadError, Visited

------------------------------------------------------------------------------
(***************************************************************************)
(* handleServer.                                                           *)
(***************************************************************************)

\* The limit handleServer stores is one an origin may set, or the default.
LEMMA AgeLimitType ==
  ASSUME NEW c \in Chunk, Whole(c) PROVE AgeLimit(c) \in MaxAges
BY BaseAssumption DEF Chunk, Request, End, Data, Whole, AgeLimit

LEMMA StoreAndForwardType ==
  ASSUME TypeInv, NEW fd \in Fds, NEW k \in Nat, StoreAndForward(fd, k)
  PROVE  TypeInv'
<1> USE DEF TypeInv
<1> DEFINE buf == Buffer(fd, k)
           last == buf[Len(buf)]
<1>1. k \in 1..Len(sock[fd].inq) /\ IsServer(fd) /\ Framed(buf)
  BY DEF StoreAndForward, Reads
<1>2. PICK i \in Slots :
        /\ FindByUrl(ServerUrl(fd), i)
        /\ StoreResponse(i, AgeLimit(last), sock[fd].url, Served(i))
        /\ tokens' = Paid(Served(i), WithAge(ResLen))
        /\ answers' = [Answered(Served(i), sock[fd].url) EXCEPT ![fd] = NoAnswers]
        /\ CloseOrigin(fd, i)
  BY DEF StoreAndForward
<1>3. sock[fd].url \in Sources
  BY DEF LoopTypeOK, Socket
<1>4. AgeLimit(last) \in MaxAges
  <2>1. sock[fd].inq \in Seq(Chunk) /\ content[fd] \in Seq(Chunk)
    BY DEF LoopTypeOK, Socket, BufferTypeOK
  <2>2. buf \in Seq(Chunk) /\ Len(buf) \in Nat
    BY <1>1, ReadsType
  <2>3. Len(buf) # 0
    BY <1>1, <2>1 DEF Buffer
  <2>4. last \in Chunk
    <3> HIDE DEF buf
    <3> QED
      BY <2>2, <2>3
  <2> QED
    BY <1>1, <2>4, AgeLimitType DEF Framed
<1>5. CacheInv'
  <2>1. arr[i] # NULL
    BY <1>2 DEF FindByUrl, Matches
  <2> HIDE DEF last
  <2> QED
    BY <1>2, <1>3, <1>4, <2>1, StoreKeepsInv DEF Sources
<1>6. BufferTypeOK'
  <2>1. tokens' \in [Fds -> 0..BucketSize]
    BY <1>2, PaidType, ServedCanPay, SizesType
  <2>2. content' \in [Fds -> Seq(Chunk)]
    BY <1>1, ReadsType, AppendedType DEF StoreAndForward
  <2> QED
    BY <2>1, <2>2 DEF BufferTypeOK, StoreAndForward
<1>7. SecureTypeOK'
  BY SameTunnels DEF StoreAndForward
<1>8. LoopTypeOK'
  <2>1. sock' \in [Fds -> Socket]
    BY <1>2, NoSocketType DEF CloseOrigin, LoopTypeOK
  <2>2. server_list' \in [Fds -> Seq(Urls)]
    <3>1. server_list[fd] \in Seq(Urls) /\ server_list[fd] # <<>>
      BY <1>1 DEF LoopTypeOK, IsServer
    <3>2. Tail(server_list[fd]) \in Seq(Urls)
      BY <3>1
    <3> QED
      BY <3>2 DEF StoreAndForward, DeleteNode, LoopTypeOK
  <2>3. master' \subseteq Fds \cup {ListenFd} /\ Visited(fd)
        /\ max_sock' = max_sock /\ conns' = conns
    BY DEF StoreAndForward, LoopTypeOK
  <2> QED
    BY <2>1, <2>2, <2>3, VisitedType DEF LoopTypeOK
<1>9. HistoryTypeOK'
  <2>1. answers' \in [Fds -> [Sources -> 0..AnswerCap]]
    BY <1>2, <1>3, AnsweredType, NoHistoryType
  <2>2. asks' \in [Fds -> [Urls -> 0..MaxSends]] /\ Forget(fd)
    BY NoHistoryType DEF StoreAndForward, HistoryTypeOK
  <2> QED
    BY <2>1, <2>2, ForgetType DEF HistoryTypeOK, AnswerCap
<1> QED
  BY <1>5, <1>6, <1>7, <1>8, <1>9 DEF StoreAndForward, Visited

------------------------------------------------------------------------------
(***************************************************************************)
(* handleClient.                                                           *)
(***************************************************************************)

\* What ForwardGet, OpenTunnel and ConnectOnly have in common.
LEMMA OpensOriginType ==
  ASSUME TypeInv, NEW fd \in Fds, NEW k \in Nat, NEW r \in Requests,
         NEW new \in Fds, OpensOrigin(fd, k, r, new)
  PROVE  /\ BufferTypeOK' /\ LoopTypeOK' /\ ready' \subseteq ready
         /\ asks' \in [Fds -> [Urls -> 0..MaxSends]]
         /\ conns' = conns /\ answers' = answers
<1> USE DEF TypeInv
<1>1. r.url \in Urls /\ r.url \in Sources
  BY RequestType DEF Sources
<1>2. k \in 1..Len(sock[fd].inq)
  BY DEF OpensOrigin, Asks, Reads
<1>3. BufferTypeOK'
  BY ClearedType, InsertBufferType DEF OpensOrigin
<1>4. sock' \in [Fds -> Socket]
  <2>1. Drained(fd, k) \in [Fds -> Socket]
    BY <1>2, ReadsType
  <2>2. Connection("origin", r.url) \in Socket
    BY <1>1, ConnectionType
  <2>3. sock' = [Drained(fd, k) EXCEPT ![new] = Connection("origin", r.url)]
    BY DEF OpensOrigin
  <2> QED
    BY <2>1, <2>2, <2>3
<1>5. server_list' \in [Fds -> Seq(Urls)]
  <2>1. <<r.url>> \o server_list[new] \in Seq(Urls)
    BY <1>1 DEF LoopTypeOK
  <2> QED
    BY <2>1 DEF OpensOrigin, PushNode, LoopTypeOK
<1>6. Watch(new) /\ Visited(fd) /\ conns' = conns /\ answers' = answers
  BY DEF OpensOrigin
<1>7. LoopTypeOK'
  BY <1>4, <1>5, <1>6, WatchType, VisitedType DEF LoopTypeOK
<1>8. asks' \in [Fds -> [Urls -> 0..MaxSends]]
  BY <1>1, CountedType DEF OpensOrigin
<1> QED
  BY <1>3, <1>6, <1>7, <1>8, VisitedType

LEMMA ForwardGetType ==
  ASSUME TypeInv, NEW fd \in Fds, NEW k \in Nat, NEW r \in Requests,
         NEW new \in Fds, ForwardGet(fd, k, r, new)
  PROVE  TypeInv'
<1> USE DEF TypeInv
<1>1. OpensOrigin(fd, k, r, new)
  BY DEF ForwardGet
<1>2. CacheInv'
  <2>1. PICK key \in KeysRead[r.url] :
          InsertIntoCache(NewCacheObject(r.url, key, fd))
    BY DEF ForwardGet
  <2>2. NewCacheObject(r.url, key, fd) \in CacheObj
    BY RequestType, NewObject
  <2> QED
    BY <2>1, <2>2, InsertKeepsInv
<1>3. SecureTypeOK'
  BY SameTunnels DEF ForwardGet
<1>4. HistoryTypeOK'
  BY <1>1, OpensOriginType DEF ForwardGet, HistoryTypeOK, AnswerCap
<1> QED
  BY <1>1, <1>2, <1>3, <1>4, OpensOriginType

LEMMA OpenTunnelType ==
  ASSUME TypeInv, NEW fd \in Fds, NEW k \in Nat, NEW r \in Requests,
         NEW new \in Fds, OpenTunnel(fd, k, r, new)
  PROVE  TypeInv'
<1> USE DEF TypeInv
<1>1. OpensOrigin(fd, k, r, new)
  BY DEF OpenTunnel
<1>2. CacheInv' /\ SecureTypeOK'
  BY SameCache, InsertSecureNodeType DEF OpenTunnel
<1>3. partner' \in [Fds -> Fds \cup {0}]
  BY DEF OpenTunnel, HistoryTypeOK
<1>4. HistoryTypeOK'
  BY <1>1, <1>3, OpensOriginType DEF HistoryTypeOK, AnswerCap
<1> QED
  BY <1>1, <1>2, <1>4, OpensOriginType

LEMMA ConnectOnlyType ==
  ASSUME TypeInv, NEW fd \in Fds, NEW k \in Nat, NEW r \in Requests,
         NEW new \in Fds, ConnectOnly(fd, k, r, new)
  PROVE  TypeInv'
<1> USE DEF TypeInv
<1>1. OpensOrigin(fd, k, r, new)
  BY DEF ConnectOnly
<1>2. CacheInv' /\ SecureTypeOK'
  BY SameCache, SameTunnels DEF ConnectOnly
<1>3. HistoryTypeOK'
  BY <1>1, OpensOriginType DEF ConnectOnly, HistoryTypeOK, AnswerCap
<1> QED
  BY <1>1, <1>2, <1>3, OpensOriginType

\* What ServeFromCache and DropRequest have in common.
LEMMA ConsumedType ==
  ASSUME TypeInv, NEW fd \in Fds, NEW k \in 1..Len(sock[fd].inq), NEW u \in Urls,
         Consumed(fd, k, u)
  PROVE  /\ BufferTypeOK' /\ SecureTypeOK' /\ LoopTypeOK'
         /\ ready' \subseteq ready /\ conns' = conns /\ partner' = partner
         /\ asks' \in [Fds -> [Urls -> 0..MaxSends]]
<1> USE DEF TypeInv
<1>1. BufferTypeOK' /\ SecureTypeOK'
  BY ClearedType, HoldType, SameTunnels DEF Consumed
<1>2. Drained(fd, k) \in [Fds -> Socket]
  BY ReadsType
<1>3. LoopTypeOK'
  BY <1>2, VisitedType DEF Consumed, LoopTypeOK
<1>4. asks' \in [Fds -> [Urls -> 0..MaxSends]]
  BY CountedType DEF Consumed
<1> QED
  BY <1>1, <1>3, <1>4, VisitedType DEF Consumed

LEMMA ServeFromCacheType ==
  ASSUME TypeInv, NEW fd \in Fds, NEW k \in Nat, NEW r \in Requests,
         ServeFromCache(fd, k, r)
  PROVE  TypeInv'
<1> USE DEF TypeInv
<1>1. PICK i \in Slots : /\ FindByUrl(r.url, i)
                         /\ TouchObject(i, fd)
                         /\ answers' = Answered({fd}, arr[i].source)
  BY DEF ServeFromCache
<1>2. k \in 1..Len(sock[fd].inq) /\ r.url \in Urls /\ Consumed(fd, k, r.url)
  BY RequestType DEF ServeFromCache, Asks, Reads
<1>3. arr[i] # NULL /\ arr[i] \in CacheObj
  BY <1>1 DEF FindByUrl, Matches, CacheInv, CacheTypeOK
<1>4. CacheInv'
  BY <1>1, <1>3, TouchKeepsInv
<1>5. answers' \in [Fds -> [Sources -> 0..AnswerCap]]
  BY <1>1, <1>3, AnsweredType DEF CacheObj, Sources
<1>6. HistoryTypeOK'
  BY <1>2, <1>5, ConsumedType DEF HistoryTypeOK, AnswerCap
<1> QED
  BY <1>2, <1>4, <1>6, ConsumedType

LEMMA DropRequestType ==
  ASSUME TypeInv, NEW fd \in Fds, NEW k \in Nat, NEW r \in Requests,
         DropRequest(fd, k, r)
  PROVE  TypeInv'
<1> USE DEF TypeInv
<1>1. k \in 1..Len(sock[fd].inq) /\ r.url \in Urls /\ Consumed(fd, k, r.url)
  BY RequestType DEF DropRequest, Asks, Reads
<1>2. CacheInv'
  BY SameCache DEF DropRequest
<1>3. HistoryTypeOK'
  BY <1>1, ConsumedType DEF DropRequest, HistoryTypeOK, AnswerCap
<1> QED
  BY <1>1, <1>2, <1>3, ConsumedType

\* Relay and KeepPartial: the buffer is emptied or grows.
LEMMA RelayType ==
  ASSUME TypeInv, NEW fd \in Fds, NEW k \in Nat, Relay(fd, k) \/ KeepPartial(fd, k)
  PROVE  TypeInv'
<1> USE DEF TypeInv
<1>1. k \in 1..Len(sock[fd].inq)
  BY DEF Relay, KeepPartial, NoMessage, Reads
<1>2. CacheInv' /\ SecureTypeOK' /\ HistoryTypeOK'
  BY SameCache, SameTunnels, SameHistory DEF Relay, KeepPartial
<1>3. BufferTypeOK'
  BY <1>1, ReadsType, AppendedType, ClearedType, HoldType DEF Relay, KeepPartial
<1>4. Drained(fd, k) \in [Fds -> Socket]
  BY <1>1, ReadsType
<1>5. /\ sock' = Drained(fd, k) /\ Visited(fd)
      /\ UNCHANGED <<max_sock, master, server_list, conns>>
  BY DEF Relay, KeepPartial
<1>6. LoopTypeOK'
  BY <1>4, <1>5, VisitedType DEF LoopTypeOK
<1> QED
  BY <1>2, <1>3, <1>5, <1>6, VisitedType

------------------------------------------------------------------------------
(***************************************************************************)
(* The environment.                                                        *)
(***************************************************************************)
LEMMA SendsType ==
  ASSUME TypeInv, NEW fd \in Fds, NEW role,
         NEW chunks \in Seq(SUBSET Chunk), Len(chunks) <= MaxSends,
         Sends(fd, role, chunks)
  PROVE  TypeInv'
<1> USE DEF TypeInv
<1>1. CacheInv' /\ BufferTypeOK' /\ SecureTypeOK' /\ HistoryTypeOK'
  BY SameCache, SameBuffers, SameTunnels, SameHistory DEF Sends
<1>2. sock[fd] \in Socket /\ sock[fd].sends \in 0..MaxSends
      /\ sock[fd].inq \in Seq(Chunk) /\ sock[fd].sends < Len(chunks)
  BY DEF LoopTypeOK, Socket, Sends
<1>3. PICK c \in chunks[sock[fd].sends + 1] :
        sock' = [sock EXCEPT ![fd].inq = Append(@, c), ![fd].sends = @ + 1]
  BY DEF Sends
<1>4. c \in Chunk
  <2>1. sock[fd].sends + 1 \in 1..Len(chunks)
    BY <1>2, ProxyAssumption
  <2> QED
    BY <2>1, <1>3
<1>5. sock[fd].sends + 1 \in 0..MaxSends
  BY <1>2, ProxyAssumption
<1>6. Append(sock[fd].inq, c) \in Seq(Chunk)
  BY <1>2, <1>4
<1>7. sock' \in [Fds -> Socket]
  <2> DEFINE s == [sock[fd] EXCEPT !.inq = Append(@, c), !.sends = @ + 1]
  <2>1. s \in Socket
    BY <1>2, <1>5, <1>6 DEF Socket
  <2>2. sock' = [sock EXCEPT ![fd] = s]
    BY <1>2, <1>3 DEF LoopTypeOK, Socket
  <2> QED
    BY <2>1, <2>2 DEF LoopTypeOK
<1>8. LoopTypeOK'
  BY <1>7 DEF Sends, LoopTypeOK, loopVars
<1> QED
  BY <1>1, <1>8 DEF Sends, loopVars

LEMMA PeerCloseType ==
  ASSUME TypeInv, NEW fd \in Fds, PeerClose(fd) PROVE TypeInv'
<1> USE DEF TypeInv
<1>1. CacheInv' /\ BufferTypeOK' /\ SecureTypeOK' /\ HistoryTypeOK'
  BY SameCache, SameBuffers, SameTunnels, SameHistory DEF PeerClose
<1>2. sock' \in [Fds -> Socket]
  BY DEF PeerClose, LoopTypeOK, Socket
<1>3. LoopTypeOK'
  BY <1>2 DEF PeerClose, LoopTypeOK, loopVars
<1> QED
  BY <1>1, <1>3 DEF PeerClose, loopVars

LEMMA TickType ==
  ASSUME TypeInv, Tick PROVE TypeInv'
<1> USE DEF TypeInv
<1>1. CacheInv' /\ BufferTypeOK' /\ SecureTypeOK' /\ HistoryTypeOK'
  BY CacheTickKeepsInv, BufferTickType, SameTunnels, SameHistory DEF Tick
<1>2. LoopTypeOK'
  BY DEF Tick, LoopTypeOK, loopVars
<1> QED
  BY <1>1, <1>2 DEF Tick, loopVars

LEMMA StutterType ==
  ASSUME TypeInv, UNCHANGED vars PROVE TypeInv'
<1> USE DEF TypeInv
<1>1. CacheInv' /\ BufferTypeOK' /\ SecureTypeOK' /\ HistoryTypeOK'
  BY SameCache, SameBuffers, SameTunnels, SameHistory DEF vars
<1>2. LoopTypeOK'
  BY DEF vars, LoopTypeOK, loopVars
<1> QED
  BY <1>1, <1>2 DEF vars, loopVars

------------------------------------------------------------------------------
(***************************************************************************)
(* Every step.                                                             *)
(***************************************************************************)
LEMMA HandleExistingConnectionType ==
  ASSUME TypeInv, NEW fd \in Fds, HandleExistingConnection(fd) PROVE TypeInv'
<1>1. CASE HandleDisconnect(fd)
  BY <1>1, HandleDisconnectType
<1>2. CASE ReadError(fd)
  BY <1>2, ReadErrorType
<1>3. ASSUME NEW k \in 1..MaxSends, HandleServer(fd, k)
      PROVE  TypeInv'
  BY <1>3, StoreAndForwardType, DieType DEF HandleServer, AssertFails
<1>4. ASSUME NEW k \in 1..MaxSends, HandleClient(fd, k)
      PROVE  TypeInv'
  <2> k \in Nat
    OBVIOUS
  <2>1. PICK r \in Requests :
          \/ \E new \in Fds : \/ ForwardGet(fd, k, r, new)
                              \/ OpenTunnel(fd, k, r, new)
                              \/ ConnectOnly(fd, k, r, new)
          \/ OriginFails(fd, k, r)
          \/ ServeFromCache(fd, k, r)
          \/ DropRequest(fd, k, r)
    BY <1>4 DEF HandleClient
  <2>2. ASSUME NEW new \in Fds,
               \/ ForwardGet(fd, k, r, new)
               \/ OpenTunnel(fd, k, r, new)
               \/ ConnectOnly(fd, k, r, new)
        PROVE  TypeInv'
    BY <2>2, ForwardGetType, OpenTunnelType, ConnectOnlyType
  <2>3. CASE OriginFails(fd, k, r)
    BY <2>3, DieType DEF OriginFails
  <2>4. CASE ServeFromCache(fd, k, r) \/ DropRequest(fd, k, r)
    BY <2>4, ServeFromCacheType, DropRequestType
  <2> QED
    BY <2>1, <2>2, <2>3, <2>4
<1>5. ASSUME NEW k \in 1..MaxSends, Relay(fd, k) \/ KeepPartial(fd, k)
      PROVE  TypeInv'
  BY <1>5, RelayType
<1>6. ASSUME NEW k \in 1..MaxSends, WriteFails(fd, k)
      PROVE  TypeInv'
  BY <1>6, DieType DEF WriteFails
<1> QED
  BY <1>1, <1>2, <1>3, <1>4, <1>5, <1>6 DEF HandleExistingConnection

\* Clients and origins send chunks, at most MaxSends of them.
LEMMA PeersType ==
  ASSUME TypeInv, NEW fd \in Fds, ClientSend(fd) \/ OriginSend(fd) PROVE TypeInv'
<1>1. ClientChunks \in Seq(SUBSET Chunk) /\ Len(ClientChunks) <= MaxSends
  <2>1. SUBSET (Request \cup Data) \subseteq SUBSET Chunk
    BY DEF Chunk
  <2> QED
    BY <2>1, ProxyAssumption
<1>2. OriginChunks \in Seq(SUBSET Chunk) /\ Len(OriginChunks) <= MaxSends
  <2>1. SUBSET (End \cup Data) \subseteq SUBSET Chunk
    BY DEF Chunk
  <2> QED
    BY <2>1, ProxyAssumption
<1> QED
  BY <1>1, <1>2, SendsType DEF ClientSend, OriginSend

LEMMA NextType ==
  ASSUME TypeInv, [Next]_vars PROVE TypeInv'
<1>1. CASE Loop
  <2>1. CASE AddTokensStep \/ CheckCachedMessages \/ Select \/ EndOfPass
    BY <2>1, AddTokensStepType, CheckCachedMessagesType, SelectType, EndOfPassType
  <2>2. CASE RetryFails \/ AcceptFails
    BY <2>2, DieType DEF RetryFails, AcceptFails
  <2>3. CASE HandleNewConnection
    BY <2>3, HandleNewConnectionType
  <2>4. CASE \E fd \in Fds : HandleExistingConnection(fd)
    BY <2>4, HandleExistingConnectionType
  <2> QED
    BY <1>1, <2>1, <2>2, <2>3, <2>4 DEF Loop
<1>2. CASE Environment
  BY <1>2, PeersType, PeerCloseType, TickType DEF Environment
<1>3. CASE Terminated \/ UNCHANGED vars
  BY <1>3, StutterType DEF Terminated
<1> QED
  BY <1>1, <1>2, <1>3 DEF Next

\* The strengthened type invariant holds in every reachable state.
THEOREM TypeInvariant == Spec => []TypeInv
<1>1. Init => TypeInv
  BY InitType
<1>2. TypeInv /\ [Next]_vars => TypeInv'
  BY NextType
<1> QED
  BY <1>1, <1>2, PTL DEF Spec

\* Every variable keeps the shape the code gives it: buckets stay between
\* empty and full, max_sock stays a descriptor, nothing but chunks is buffered.
THEOREM TypeCorrect == Spec => []TypeOK
<1>1. TypeInv => TypeOK
  BY DEF TypeInv, TypeOK, CacheInv
<1> QED
  BY <1>1, TypeInvariant, PTL

\* The loop of check_cached_messages over num_obj slots misses no object and
\* reads no slot outside the array, although num_obj never shrinks.
THEOREM ScanComplete == Spec => []ScanCoversObjects
<1>1. TypeInv => ScanCoversObjects
  BY DEF TypeInv, CacheInv
<1> QED
  BY <1>1, TypeInvariant, PTL

==============================================================================
