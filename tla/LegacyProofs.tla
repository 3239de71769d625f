------------------------------ MODULE LegacyProofs -----------------------------
(***************************************************************************)
(* The legacy message buffers and server list: for any number of           *)
(* descriptors, any reads and any sizes of the buffers.                    *)
(***************************************************************************)
EXTENDS Legacy, SequenceLemmas

Memory == Bytes \cup {0, Junk}
Message == Seq(Bytes \cup {0})
Buffer == [buffer : Seq(Memory), length : Nat]
ServerNode == [sockfd : Fds \cup {-1}, url : Urls \cup {NULL}]

MessageTypes ==
  /\ master_fd_set \subseteq Fds /\ max_sock \in ListenFd..MaxFd
  /\ got \in [Fds -> Message] /\ buf_array \in [Fds -> Buffer]
  /\ moved \in [Fds -> BOOLEAN] /\ ended \in BOOLEAN

ListTypes ==
  /\ server_list \in Seq(ServerNode) /\ hung \in BOOLEAN
  /\ url_of \in [Fds -> Urls \cup {NULL}]

\* A buffer never gets smaller than BUFFSIZE, the most one read brings: this is why
\* one doubling makes room for it.
Roomy ==
  \A fd \in Fds :
    /\ fd \notin master_fd_set => Size(buf_array[fd]) = 0
    /\ fd \in master_fd_set => /\ buf_array[fd].length < Size(buf_array[fd])
                               /\ BUFFSIZE <= Size(buf_array[fd])
                               /\ fd <= max_sock

\* b holds what was read, text, as far as strncpy lets it.
Holds(b, text) ==
  /\ b.length = Len(text)
  /\ \A k \in 1..Len(text) : b.buffer[k] \in {text[k], 0}
  /\ \A k \in 1..Len(text) : (\A j \in 1..k : text[j] # 0) => b.buffer[k] = text[k]

TextHeld == \A fd \in Fds : ~moved[fd] => Holds(buf_array[fd], got[fd])

\* Behind the head that stands for no connection, one node for each descriptor.
ListShape ==
  /\ Len(server_list) >= 1
  /\ server_list[1] = [sockfd |-> -1, url |-> NULL]
  /\ \A k \in 2..Len(server_list) : server_list[k].sockfd \in Fds
                                    /\ server_list[k].url \in Urls
  /\ \A k, l \in 1..Len(server_list) :
       server_list[k].sockfd = server_list[l].sockfd => k = l

\* The nodes are the origins that are open.
ListTrue ==
  /\ \A k \in 2..Len(server_list) : url_of[server_list[k].sockfd] = server_list[k].url
  /\ \A fd \in Fds : url_of[fd] # NULL =>
       \E k \in 2..Len(server_list) : server_list[k].sockfd = fd
  /\ \A fd \in Fds \ master_fd_set : url_of[fd] = NULL

MessageInv == MessageTypes /\ Roomy /\ TextHeld
ListInv == ListTypes /\ ListShape /\ (Running => ListTrue)

-------------------------------------------------------------------------------
\* Operations on a buffer.

LEMMA MallocProperties ==
  ASSUME NEW n \in Nat PROVE Malloc(n) \in Seq(Memory) /\ Len(Malloc(n)) = n
BY DEF Malloc, Memory

\* strncpy changes no byte but those it was given room for.
StrncpyAt(buffer, at, s, k) ==
  IF k - at \notin 1..Len(s) THEN buffer[k]
  ELSE IF \E j \in 1..(k - at) : s[j] = 0 THEN 0 ELSE s[k - at]

LEMMA StrncpyProperties ==
  ASSUME NEW buffer \in Seq(Memory), NEW at \in Nat, NEW s \in Seq(Memory)
  PROVE  /\ strncpy(buffer, at, s) \in Seq(Memory)
         /\ Len(strncpy(buffer, at, s)) = Len(buffer)
         /\ \A k \in 1..Len(buffer) :
              strncpy(buffer, at, s)[k] = StrncpyAt(buffer, at, s, k)
<1> DEFINE e(k) == IF k - at \notin 1..Len(s) THEN buffer[k]
                   ELSE IF \E j \in 1..(k - at) : s[j] = 0 THEN 0 ELSE s[k - at]
<1>1. Len(buffer) \in Nat /\ DOMAIN buffer = 1..Len(buffer)
  BY LenProperties
<1>2. \A k \in 1..Len(buffer) : e(k) \in Memory
  <2>1. 0 \in Memory
    BY DEF Memory
  <2> QED
    BY <2>1, ElementOfSeq
<1>3. strncpy(buffer, at, s) = [k \in 1..Len(buffer) |-> e(k)]
  BY <1>1 DEF strncpy
<1> HIDE DEF e
<1>4. /\ [k \in 1..Len(buffer) |-> e(k)] \in Seq(Memory)
      /\ Len([k \in 1..Len(buffer) |-> e(k)]) = Len(buffer)
  BY <1>1, <1>2
<1>5. \A k \in 1..Len(buffer) : strncpy(buffer, at, s)[k] = e(k)
  BY <1>3
<1> QED
  BY <1>3, <1>4, <1>5 DEF e, StrncpyAt

\* A buffer that grows keeps what it holds.
LEMMA IncreasedKeeps ==
  ASSUME NEW b \in Buffer, b.length <= Size(b)
  PROVE  /\ increase_buffer_size(b) \in Buffer
         /\ Size(increase_buffer_size(b)) = 2 * Size(b)
         /\ increase_buffer_size(b).length = b.length
         /\ \A text \in Message :
              Holds(b, text) => Holds(increase_buffer_size(b), text)
<1> DEFINE s == SubSeq(b.buffer, 1, b.length)
           c == strncpy(Malloc(2 * Size(b)), 0, s)
<1>1. b.buffer \in Seq(Memory) /\ b.length \in Nat /\ Size(b) \in Nat
  BY LenProperties DEF Buffer, Size
<1>2. /\ s \in Seq(Memory) /\ Len(s) = b.length
      /\ \A k \in 1..b.length : s[k] = b.buffer[k]
  <2>1. \A k \in 1..b.length : b.buffer[k] \in Memory
    BY <1>1, ElementOfSeq DEF Size
  <2> QED
    BY <1>1, <2>1, SubSeqProperties
<1>3. /\ Malloc(2 * Size(b)) \in Seq(Memory)
      /\ Len(Malloc(2 * Size(b))) = 2 * Size(b)
  <2>1. 2 * Size(b) \in Nat
    BY <1>1
  <2> QED
    BY <2>1, MallocProperties
<1> HIDE DEF s
<1>4. /\ c \in Seq(Memory) /\ Len(c) = 2 * Size(b)
      /\ \A k \in 1..b.length :
           c[k] = IF \E j \in 1..k : b.buffer[j] = 0 THEN 0 ELSE b.buffer[k]
  <2>1. /\ c \in Seq(Memory) /\ Len(c) = 2 * Size(b)
        /\ \A k \in 1..(2 * Size(b)) : c[k] = StrncpyAt(Malloc(2 * Size(b)), 0, s, k)
    BY <1>2, <1>3, StrncpyProperties
  <2> HIDE DEF c
  <2>2. ASSUME NEW k \in 1..b.length
        PROVE  c[k] = IF \E j \in 1..k : s[j] = 0 THEN 0 ELSE s[k]
    <3>1. k \in 1..(2 * Size(b)) /\ k - 0 = k /\ k \in 1..Len(s)
      BY <1>1, <1>2
    <3> QED
      BY <2>1, <3>1 DEF StrncpyAt
  <2>3. \A k \in 1..b.length : \A j \in 1..k : s[j] = b.buffer[j]
    BY <1>1, <1>2
  <2> QED
    BY <2>1, <2>2, <2>3, <1>2
<1>5. increase_buffer_size(b) = [b EXCEPT !.buffer = c]
  BY DEF increase_buffer_size, s
<1> HIDE DEF c
<1>6. /\ increase_buffer_size(b).buffer = c
      /\ increase_buffer_size(b).length = b.length
      /\ increase_buffer_size(b) \in Buffer
  BY <1>1, <1>4, <1>5 DEF Buffer
<1>7. ASSUME NEW text \in Message, Holds(b, text)
      PROVE  Holds(increase_buffer_size(b), text)
  <2>1. Len(text) = b.length
    BY <1>7 DEF Holds
  <2>2. \A k \in 1..Len(text) : c[k] \in {text[k], 0}
    BY <1>4, <1>7, <2>1 DEF Holds
  <2>3. ASSUME NEW k \in 1..Len(text), \A j \in 1..k : text[j] # 0
        PROVE  c[k] = text[k]
    <3>1. b.buffer[k] = text[k] /\ k \in 1..b.length
      BY <1>7, <2>1, <2>3 DEF Holds
    <3>2. \A j \in 1..k : b.buffer[j] = text[j]
      BY <1>1, <1>7, <2>1, <2>3 DEF Holds
    <3>3. ~ \E j \in 1..k : b.buffer[j] = 0
      BY <2>3, <3>2
    <3> QED
      BY <1>4, <3>1, <3>3
  <2> QED
    BY <1>6, <2>1, <2>2, <2>3 DEF Holds
<1> QED
  BY <1>4, <1>6, <1>7 DEF Size

\* One doubling makes room for any read, and what was read follows what was held.
LEMMA AddedFits ==
  ASSUME NEW b \in Buffer, b.length < Size(b), BUFFSIZE <= Size(b),
         NEW msg \in Message, Len(msg) <= BUFFSIZE
  PROVE  LET c == add_to_partial_msg_buffer(b, msg) IN
         /\ c \in Buffer
         /\ c.length < Size(c)
         /\ BUFFSIZE <= Size(c)
         /\ \A text \in Message : Holds(b, text) => Holds(c, text \o msg)
<1> DEFINE room == IF HasRoom(b, Len(msg)) THEN b ELSE increase_buffer_size(b)
           new == strncpy(room.buffer, room.length, msg)
           c == add_to_partial_msg_buffer(b, msg)
<1>0. /\ BUFFSIZE \in Nat /\ Size(b) \in Nat /\ b.length \in Nat
      /\ Len(msg) \in Nat /\ msg \in Seq(Memory)
  <2>1. Bytes \cup {0} \subseteq Memory
    BY DEF Memory
  <2> QED
    BY <2>1, HandleMessageAssumption, LenProperties, SeqMonotonic DEF Buffer, Size, Message
<1>1. /\ room \in Buffer /\ room.length = b.length
      /\ \A text \in Message : Holds(b, text) => Holds(room, text)
  BY <1>0, IncreasedKeeps
<1>2. b.length + Len(msg) < Size(room) /\ BUFFSIZE <= Size(room) /\ Size(room) \in Nat
  BY <1>0, IncreasedKeeps DEF HasRoom
<1> HIDE DEF room
<1>3. /\ new \in Seq(Memory) /\ Len(new) = Size(room)
      /\ \A k \in 1..Size(room) : new[k] =
           IF k - b.length \notin 1..Len(msg) THEN room.buffer[k]
           ELSE IF \E j \in 1..(k - b.length) : msg[j] = 0 THEN 0 ELSE msg[k - b.length]
  <2>1. room.buffer \in Seq(Memory) /\ Len(room.buffer) = Size(room)
    BY <1>1 DEF Buffer, Size
  <2>2. new = strncpy(room.buffer, b.length, msg)
    BY <1>1
  <2> DEFINE old == room.buffer
  <2> HIDE DEF new, old
  <2>3. /\ strncpy(old, b.length, msg) \in Seq(Memory)
        /\ Len(strncpy(old, b.length, msg)) = Len(old)
        /\ \A k \in 1..Len(old) :
             strncpy(old, b.length, msg)[k] = StrncpyAt(old, b.length, msg, k)
    BY <1>0, <2>1, StrncpyProperties DEF old
  <2> QED
    BY <2>1, <2>2, <2>3 DEF old, StrncpyAt
<1>4. c = [buffer |-> new, length |-> b.length + Len(msg)]
  BY <1>1 DEF add_to_partial_msg_buffer, room
<1> HIDE DEF new
<1>5. c \in Buffer /\ c.length < Size(c) /\ BUFFSIZE <= Size(c)
  BY <1>0, <1>2, <1>3, <1>4 DEF Buffer, Size
<1>6. ASSUME NEW text \in Message, Holds(b, text)
      PROVE  Holds(c, text \o msg)
  <2> DEFINE all == text \o msg
  <2>1. /\ Len(text) = b.length
        /\ \A k \in 1..b.length : room.buffer[k] \in {text[k], 0}
        /\ \A k \in 1..b.length :
             (\A j \in 1..k : text[j] # 0) => room.buffer[k] = text[k]
    BY <1>1, <1>6 DEF Holds
  <2>2. /\ Len(all) = b.length + Len(msg)
        /\ \A k \in 1..(b.length + Len(msg)) :
             all[k] = IF k <= b.length THEN text[k] ELSE msg[k - b.length]
    BY <2>1, ConcatProperties DEF Message
  <2> HIDE DEF all
  <2>3. ASSUME NEW k \in 1..Len(all)
        PROVE  /\ new[k] \in {all[k], 0}
               /\ (\A j \in 1..k : all[j] # 0) => new[k] = all[k]
    <3>1. k \in 1..Size(room) /\ k \in 1..(b.length + Len(msg)) /\ k \in Int
      BY <1>0, <1>2, <2>2
    <3>2. CASE k <= b.length
      <4>1. k \in 1..b.length /\ new[k] = room.buffer[k] /\ all[k] = text[k]
        BY <1>0, <1>3, <2>2, <3>1, <3>2
      <4>2. \A j \in 1..k : j \in 1..(b.length + Len(msg)) /\ j <= b.length
        BY <1>0, <3>1, <3>2
      <4>3. \A j \in 1..k : all[j] = text[j]
        BY <2>2, <4>2
      <4> QED
        BY <2>1, <4>1, <4>3
    <3>3. CASE ~(k <= b.length)
      <4>1. /\ k - b.length \in 1..Len(msg) /\ all[k] = msg[k - b.length]
            /\ new[k] = IF \E j \in 1..(k - b.length) : msg[j] = 0 THEN 0
                        ELSE msg[k - b.length]
        BY <1>0, <1>3, <2>2, <3>1, <3>3
      <4>2. ASSUME NEW j \in 1..(k - b.length), \A i \in 1..k : all[i] # 0
            PROVE  msg[j] # 0
        <5>1. /\ j + b.length \in 1..k /\ j + b.length \in 1..(b.length + Len(msg))
              /\ ~(j + b.length <= b.length) /\ (j + b.length) - b.length = j
          BY <1>0, <3>1
        <5>2. all[j + b.length] = msg[j]
          BY <2>2, <5>1
        <5> QED
          BY <4>2, <5>1, <5>2
      <4> QED
        BY <4>1, <4>2
    <3> QED
      BY <3>2, <3>3
  <2>4. c.length = Len(all) /\ c.buffer = new
    BY <1>4, <2>2
  <2> QED
    BY <2>3, <2>4 DEF Holds, all
<1> HIDE DEF c
<1> QED
  BY <1>5, <1>6 DEF c

\* A header is cleared within the buffer.
LEMMA HeaderClears ==
  ASSUME NEW b \in Buffer, b.length < Size(b), NEW n \in 1..b.length
  PROVE  LET c == clear_header_from_buffer(b, n) IN
         c \in Buffer /\ Size(c) = Size(b) /\ c.length = b.length
<1> DEFINE e(k) == IF k <= MAX_LENGTH - n THEN b.buffer[n + 1] ELSE b.buffer[k]
<1>1. /\ b.buffer \in Seq(Memory) /\ b.length \in Nat /\ Size(b) \in Nat
      /\ DOMAIN b.buffer = 1..Size(b) /\ \A k \in 1..Size(b) : b.buffer[k] \in Memory
  BY LenProperties, ElementOfSeq DEF Buffer, Size
<1>2. \A k \in 1..Size(b) : e(k) \in Memory
  <2>1. n + 1 \in 1..Size(b)
    BY <1>1
  <2> QED
    BY <1>1, <2>1
<1>3. clear_header_from_buffer(b, n) = [b EXCEPT !.buffer = [k \in 1..Size(b) |-> e(k)]]
  BY <1>1 DEF clear_header_from_buffer
<1> HIDE DEF e
<1>4. /\ [k \in 1..Size(b) |-> e(k)] \in Seq(Memory)
      /\ Len([k \in 1..Size(b) |-> e(k)]) = Size(b)
  BY <1>1, <1>2
<1> QED
  BY <1>1, <1>3, <1>4 DEF Buffer, Size

-------------------------------------------------------------------------------
\* The steps of handle_incoming_message and its callers.

LEMMA AcceptKeepsMessages ==
  ASSUME MessageInv, NEW fd \in Fds, Accept(fd) PROVE MessageInv'
<1> DEFINE b == initialize_partial_msg_buffer
<1>1. b \in Buffer /\ Size(b) = BUFFSIZE /\ b.length = 0 /\ BUFFSIZE \in Nat /\ 0 < BUFFSIZE
  <2>1. BUFFSIZE \in Nat /\ 0 < BUFFSIZE
    BY HandleMessageAssumption
  <2> QED
    BY <2>1, MallocProperties DEF initialize_partial_msg_buffer, Buffer, Size
<1>2. <<>> \in Message /\ Len(<<>>) = 0
  BY DEF Message
<1>3. Holds(b, <<>>)
  BY <1>1, <1>2 DEF Holds
<1> HIDE DEF b
<1>4. fd \in Int /\ fd \in ListenFd..MaxFd /\ max_sock \in ListenFd..MaxFd
      /\ Fds \subseteq Int /\ ListenFd \in Nat /\ MaxFd \in Nat
  BY HandleMessageAssumption DEF Fds, MessageInv, MessageTypes
<1>5. /\ master_fd_set' = master_fd_set \cup {fd} /\ buf_array' = [buf_array EXCEPT ![fd] = b]
      /\ max_sock' = (IF fd > max_sock THEN fd ELSE max_sock)
      /\ got' = [got EXCEPT ![fd] = <<>>] /\ moved' = [moved EXCEPT ![fd] = FALSE]
      /\ ended' = ended
  BY DEF Accept, b
<1>6. MessageTypes'
  BY <1>1, <1>2, <1>4, <1>5 DEF MessageInv, MessageTypes
<1>7. Roomy'
  BY <1>1, <1>4, <1>5 DEF MessageInv, MessageTypes, Roomy
<1>8. TextHeld'
  BY <1>3, <1>5 DEF MessageInv, MessageTypes, TextHeld
<1> QED
  BY <1>6, <1>7, <1>8 DEF MessageInv

LEMMA ReceiveKeepsMessages ==
  ASSUME MessageInv, NEW fd \in Fds, NEW msg \in Message, Len(msg) <= BUFFSIZE,
         Receive(fd, msg)
  PROVE  MessageInv'
<1> DEFINE b == buf_array[fd]
           c == add_to_partial_msg_buffer(b, msg)
           text == got[fd]
<1>1. fd \in master_fd_set /\ b \in Buffer /\ text \in Message
  BY DEF Receive, MessageInv, MessageTypes
<1>2. b.length < Size(b) /\ BUFFSIZE <= Size(b) /\ fd <= max_sock
  BY <1>1 DEF MessageInv, Roomy
<1>3. /\ c \in Buffer /\ c.length < Size(c) /\ BUFFSIZE <= Size(c)
      /\ Holds(b, text) => Holds(c, text \o msg)
  BY <1>1, <1>2, AddedFits
<1>4. text \o msg \in Message
  BY <1>1, ConcatProperties DEF Message
<1>5. /\ buf_array' = [buf_array EXCEPT ![fd] = c] /\ got' = [got EXCEPT ![fd] = text \o msg]
      /\ UNCHANGED <<master_fd_set, max_sock, moved, ended>>
  BY DEF Receive
<1>6. ~moved[fd] => Holds(b, text)
  BY DEF MessageInv, TextHeld
<1> HIDE DEF b, c, text
<1>7. MessageTypes'
  BY <1>3, <1>4, <1>5 DEF MessageInv, MessageTypes
<1>8. Roomy'
  BY <1>1, <1>2, <1>3, <1>5 DEF MessageInv, MessageTypes, Roomy
<1>9. TextHeld'
  BY <1>3, <1>5, <1>6 DEF MessageInv, MessageTypes, TextHeld
<1> QED
  BY <1>7, <1>8, <1>9 DEF MessageInv

LEMMA ClosedKeepsMessages ==
  ASSUME MessageInv, NEW fd \in Fds, Closed(fd) PROVE MessageInv'
<1>1. NoBuffer \in Buffer /\ Size(NoBuffer) = 0 /\ <<>> \in Message /\ Len(<<>>) = 0
  BY DEF NoBuffer, Buffer, Size, Message
<1>2. Holds(NoBuffer, <<>>)
  BY DEF Holds, NoBuffer
<1>3. /\ master_fd_set' = master_fd_set \ {fd} /\ UNCHANGED <<max_sock, moved>>
      /\ buf_array' = [buf_array EXCEPT ![fd] = NoBuffer]
      /\ got' = [got EXCEPT ![fd] = <<>>] /\ ended' \in BOOLEAN
  BY DEF Closed, Survives
<1>4. MessageTypes'
  BY <1>1, <1>3 DEF MessageInv, MessageTypes
<1>5. Roomy'
  BY <1>1, <1>3 DEF MessageInv, MessageTypes, Roomy
<1>6. TextHeld'
  BY <1>2, <1>3 DEF MessageInv, MessageTypes, TextHeld
<1> QED
  BY <1>4, <1>5, <1>6 DEF MessageInv

LEMMA ClearHeaderKeepsMessages ==
  ASSUME MessageInv, NEW fd \in Fds, NEW n, ClearHeader(fd, n) PROVE MessageInv'
<1> DEFINE b == buf_array[fd]
           c == clear_header_from_buffer(b, n)
<1>1. fd \in master_fd_set /\ n \in 1..b.length /\ b \in Buffer
  BY DEF ClearHeader, MessageInv, MessageTypes
<1>2. b.length < Size(b) /\ BUFFSIZE <= Size(b) /\ fd <= max_sock
  BY <1>1 DEF MessageInv, Roomy
<1>3. c \in Buffer /\ Size(c) = Size(b) /\ c.length = b.length
  BY <1>1, <1>2, HeaderClears
<1>4. /\ buf_array' = [buf_array EXCEPT ![fd] = c] /\ moved' = [moved EXCEPT ![fd] = TRUE]
      /\ UNCHANGED <<master_fd_set, max_sock, got>> /\ ended' \in BOOLEAN
  BY DEF ClearHeader, Survives
<1> HIDE DEF b, c
<1>5. MessageTypes'
  BY <1>3, <1>4 DEF MessageInv, MessageTypes
<1>6. Roomy'
  BY <1>1, <1>2, <1>3, <1>4 DEF MessageInv, MessageTypes, Roomy
<1>7. TextHeld'
  BY <1>4 DEF MessageInv, MessageTypes, TextHeld
<1> QED
  BY <1>5, <1>6, <1>7 DEF MessageInv

-------------------------------------------------------------------------------
\* The steps of the list of origins.

LEMMA FirstFinds ==
  ASSUME NEW list \in Seq(ServerNode), NEW fd
  PROVE  /\ First(list, fd) \in 0..Len(list)
         /\ First(list, fd) = 0 => \A k \in 1..Len(list) : list[k].sockfd # fd
         /\ First(list, fd) # 0 => list[First(list, fd)].sockfd = fd
<1> DEFINE I == {k \in 1..Len(list) : list[k].sockfd = fd}
<1>1. First(list, fd) = IF I # {} THEN Min(I) ELSE 0
  BY DEF First, SelectInSeq
<1>2. Len(list) \in Nat /\ I \subseteq Nat
  BY LenProperties
<1>3. I # {} => Min(I) \in I
  <2> HIDE DEF I
  <2> QED
    BY <1>2, FirstOf
<1>4. \A k \in I : k \in 1..Len(list) /\ list[k].sockfd = fd
  OBVIOUS
<1>5. CASE I = {}
  BY <1>1, <1>2, <1>5
<1>6. CASE I # {}
  <2>1. First(list, fd) = Min(I) /\ Min(I) \in 1..Len(list) /\ list[Min(I)].sockfd = fd
    <3> HIDE DEF I
    <3> QED
      BY <1>1, <1>3, <1>4, <1>6
  <2> HIDE DEF I
  <2> QED
    BY <1>2, <2>1
<1> QED
  BY <1>5, <1>6

\* What does not touch the list and keeps every descriptor watched.
LEMMA SameListKeeps ==
  ASSUME ListInv, UNCHANGED <<listVars, url_of>>,
         master_fd_set \subseteq master_fd_set', Running' => Running
  PROVE  ListInv'
BY DEF ListInv, ListTypes, ListShape, ListTrue, listVars

\* initiate_server_connection on a descriptor that was free.
LEMMA AddKeepsList ==
  ASSUME ListInv, Running, NEW fd \in Fds, NEW url \in Urls, fd \notin master_fd_set,
         add_node(url, fd), master_fd_set' = master_fd_set \cup {fd},
         url_of' = [url_of EXCEPT ![fd] = url]
  PROVE  ListInv'
<1> DEFINE node == [sockfd |-> fd, url |-> url]
           n == Len(server_list)
<1>1. /\ server_list \in Seq(ServerNode) /\ n \in Nat /\ n >= 1
      /\ ListShape /\ ListTrue /\ url # NULL /\ node \in ServerNode
  BY ServerHandlerAssumption, LenProperties
  DEF ListInv, ListTypes, ListShape, ServerNode
<1>2. server_list' = Append(server_list, node) /\ hung' = hung
  BY DEF add_node
<1>3. /\ server_list' \in Seq(ServerNode) /\ Len(server_list') = n + 1
      /\ \A k \in 1..n : server_list'[k] = server_list[k]
      /\ server_list'[n + 1] = node
  BY <1>1, <1>2
<1>4. node.sockfd = fd /\ node.url = url
  OBVIOUS
<1> HIDE DEF node, n
<1>5. fd \in Int /\ fd # -1 /\ fd # ListenFd /\ fd \in ListenFd..MaxFd
  BY HandleMessageAssumption DEF Fds
<1>6. \A k \in 1..n : server_list[k].sockfd # fd
  <2>1. url_of[fd] = NULL
    BY <1>1 DEF ListTrue
  <2>2. \A k \in 2..n : server_list[k].sockfd # fd
    BY <1>1, <2>1, ServerHandlerAssumption DEF ListTrue, ListShape, n
  <2>3. server_list[1].sockfd # fd
    BY <1>1, <1>5 DEF ListShape
  <2>4. \A k \in 1..n : k = 1 \/ k \in 2..n
    BY <1>1
  <2> QED
    BY <2>2, <2>3, <2>4
<1>7. \A k \in 1..(n + 1) : k = n + 1 \/ k \in 1..n
  BY <1>1
<1>8. \A k \in 2..(n + 1) : k = n + 1 \/ k \in 2..n
  BY <1>1
<1>9. 2..n \subseteq 1..n /\ 2..n \subseteq 2..(n + 1) /\ n + 1 \in 2..(n + 1) /\ 1 \in 1..n
  BY <1>1
<1>10. ListTypes'
  BY <1>2, <1>3, <1>5 DEF ListInv, ListTypes
<1>11. ListShape'
  <2>1. Len(server_list') >= 1 /\ server_list'[1] = [sockfd |-> -1, url |-> NULL]
    BY <1>1, <1>3, <1>9 DEF ListShape
  <2>2. \A k \in 2..(n + 1) : server_list'[k].sockfd \in Fds /\ server_list'[k].url \in Urls
    BY <1>1, <1>3, <1>4, <1>8, <1>9 DEF ListShape, n
  <2>3. \A k, l \in 1..(n + 1) :
          server_list'[k].sockfd = server_list'[l].sockfd => k = l
    BY <1>1, <1>3, <1>4, <1>6, <1>7 DEF ListShape, n
  <2> QED
    BY <1>3, <2>1, <2>2, <2>3 DEF ListShape
<1>12. ListTrue'
  <2>1. \A k \in 2..(n + 1) : url_of'[server_list'[k].sockfd] = server_list'[k].url
    <3>1. \A k \in 2..n : server_list[k].sockfd \in Fds /\ server_list[k].sockfd # fd
                          /\ url_of[server_list[k].sockfd] = server_list[k].url
      BY <1>1, <1>6, <1>9 DEF ListShape, ListTrue, n
    <3>2. url_of'[fd] = url /\ \A g \in Fds : g # fd => url_of'[g] = url_of[g]
      BY DEF ListInv, ListTypes
    <3> QED
      BY <1>3, <1>4, <1>8, <1>9, <3>1, <3>2
  <2>2. ASSUME NEW g \in Fds, url_of'[g] # NULL
        PROVE  \E k \in 2..(n + 1) : server_list'[k].sockfd = g
    <3>1. CASE g = fd
      BY <1>3, <1>4, <1>9, <3>1
    <3>2. CASE g # fd
      <4>1. url_of[g] # NULL
        BY <2>2, <3>2 DEF ListInv, ListTypes
      <4>2. PICK k \in 2..n : server_list[k].sockfd = g
        BY <1>1, <4>1 DEF ListTrue, n
      <4> QED
        BY <1>3, <1>9, <4>2
    <3> QED
      BY <3>1, <3>2
  <2>3. \A g \in Fds \ master_fd_set' : url_of'[g] = NULL
    BY <1>1 DEF ListInv, ListTypes, ListTrue
  <2> QED
    BY <1>3, <2>1, <2>2, <2>3 DEF ListTrue
<1> QED
  BY <1>10, <1>11, <1>12 DEF ListInv

\* A connection is closed and remove_list_node runs to its end, if it does.
LEMMA RemoveKeepsList ==
  ASSUME ListInv, Running, NEW fd \in Fds, fd \in master_fd_set,
         remove_list_node(fd), master_fd_set' = master_fd_set \ {fd},
         url_of' = [url_of EXCEPT ![fd] = NULL]
  PROVE  ListInv'
<1> DEFINE at == First(server_list, fd)
           n == Len(server_list)
<1>1. /\ server_list \in Seq(ServerNode) /\ n \in Nat /\ n >= 1 /\ hung = FALSE
      /\ ListShape /\ ListTrue /\ ListTypes
  BY LenProperties DEF ListInv, ListTypes, ListShape, Running
<1>2. /\ at \in 0..n
      /\ at = 0 => \A k \in 1..n : server_list[k].sockfd # fd
      /\ at # 0 => server_list[at].sockfd = fd
  BY <1>1, FirstFinds
<1>3. url_of' \in [Fds -> Urls \cup {NULL}] /\ url_of'[fd] = NULL
      /\ \A g \in Fds : g # fd => url_of'[g] = url_of[g]
  BY <1>1 DEF ListTypes
<1>4. \A g \in Fds \ master_fd_set' : url_of'[g] = NULL
  BY <1>1, <1>3 DEF ListTrue
<1>5. /\ \/ at = 0 /\ UNCHANGED listVars
         \/ at # 0 /\ hung' = TRUE /\ UNCHANGED server_list
         \/ /\ at # 0 /\ at < n
            /\ server_list' = RemoveAt(server_list, at) /\ UNCHANGED hung
  BY DEF remove_list_node
<1>6. 2..n \subseteq 1..n
  BY <1>1
<1> HIDE DEF at, n
<1>7. CASE at = 0 /\ UNCHANGED listVars
  <2>1. ListTypes' /\ ListShape'
    BY <1>1, <1>3, <1>7 DEF ListTypes, ListShape, listVars
  <2>2. \A k \in 2..n : server_list[k].sockfd \in Fds /\ server_list[k].sockfd # fd
    BY <1>1, <1>2, <1>6, <1>7 DEF ListShape, n
  <2>3. ListTrue'
    BY <1>1, <1>3, <1>4, <1>7, <2>2 DEF ListTrue, ListShape, listVars, n
  <2> QED
    BY <2>1, <2>3 DEF ListInv
<1>8. CASE at # 0 /\ hung' = TRUE /\ UNCHANGED server_list
  <2>1. ListTypes' /\ ListShape'
    BY <1>1, <1>3, <1>8 DEF ListTypes, ListShape
  <2> QED
    BY <1>8, <2>1 DEF ListInv, Running
<1>9. CASE /\ at # 0 /\ at < n
           /\ server_list' = RemoveAt(server_list, at) /\ UNCHANGED hung
  <2>1. at \in 1..n /\ at \in Int /\ n \in Int
    BY <1>1, <1>2, <1>9
  <2>2. /\ server_list' \in Seq(ServerNode) /\ Len(server_list') = n - 1
        /\ \A k \in 1..(n - 1) :
             server_list'[k] = IF k < at THEN server_list[k] ELSE server_list[k + 1]
    BY <1>1, <1>9, <2>1, RemoveAtProperties DEF n
  <2> DEFINE from(k) == IF k < at THEN k ELSE k + 1
  <2>3. at # 1
    <3>1. -1 \notin Fds
      BY HandleMessageAssumption DEF Fds
    <3> QED
      BY <1>1, <1>2, <1>9, <3>1 DEF ListShape
  <2>4. \A k \in 1..(n - 1) : /\ from(k) \in 1..n /\ from(k) # at
                              /\ server_list'[k] = server_list[from(k)]
                              /\ k \in 2..(n - 1) => from(k) \in 2..n
    BY <2>1, <2>2
  <2>5. \A k, l \in 1..(n - 1) : from(k) = from(l) => k = l
    BY <2>1
  <2>6. \A k \in 1..n : k # at => \E l \in 1..(n - 1) : from(l) = k
                                                       /\ (k \in 2..n => l \in 2..(n - 1))
    <3> SUFFICES ASSUME NEW k \in 1..n, k # at
                 PROVE  \E l \in 1..(n - 1) : from(l) = k
                                              /\ (k \in 2..n => l \in 2..(n - 1))
      OBVIOUS
    <3>1. CASE k < at
      <4>1. k \in 1..(n - 1) /\ from(k) = k /\ (k \in 2..n => k \in 2..(n - 1))
        BY <2>1, <3>1
      <4> QED
        BY <4>1
    <3>2. CASE ~(k < at)
      <4>1. /\ k - 1 \in 1..(n - 1) /\ from(k - 1) = k
            /\ (k \in 2..n => k - 1 \in 2..(n - 1))
        BY <2>1, <2>3, <3>2
      <4> QED
        BY <4>1
    <3> QED
      BY <3>1, <3>2
  <2>7. \A k \in 1..n : k # at => server_list[k].sockfd # fd
    BY <1>1, <1>2, <1>9, <2>1 DEF ListShape, n
  <2>8. \A k \in 2..(n - 1) : k \in 1..(n - 1) /\ from(k) \in 2..n
                              /\ server_list'[k] = server_list[from(k)]
                              /\ server_list[from(k)].sockfd # fd
    BY <1>6, <2>1, <2>4, <2>7
  <2>9. /\ 1 \in 1..(n - 1) /\ n - 1 \in 1..(n - 1) /\ n - 1 >= 1
        /\ from(1) = 1 /\ from(n - 1) = n /\ n - 1 >= 2
    BY <1>9, <2>1, <2>3
  <2> HIDE DEF from
  <2>10. ListTypes'
    BY <1>1, <1>3, <1>9, <2>2 DEF ListTypes
  <2>11. ListShape'
    <3>1. server_list'[1] = [sockfd |-> -1, url |-> NULL]
      BY <1>1, <2>4, <2>9 DEF ListShape
    <3>2. \A k \in 2..(n - 1) : server_list'[k].sockfd \in Fds /\ server_list'[k].url \in Urls
      BY <1>1, <2>8 DEF ListShape, n
    <3>3. \A k, l \in 1..(n - 1) :
            server_list'[k].sockfd = server_list'[l].sockfd => k = l
      BY <1>1, <2>4, <2>5 DEF ListShape, n
    <3> QED
      BY <2>2, <2>9, <3>1, <3>2, <3>3 DEF ListShape
  <2>12. \A k \in 2..(n - 1) : url_of'[server_list'[k].sockfd] = server_list'[k].url
    BY <1>1, <1>3, <2>8 DEF ListTrue, ListShape, n
  <2>13. ASSUME NEW g \in Fds, url_of'[g] # NULL
         PROVE  \E k \in 2..(n - 1) : server_list'[k].sockfd = g
    <3>1. g # fd /\ url_of[g] # NULL
      BY <1>3, <2>13
    <3>2. PICK k \in 2..n : server_list[k].sockfd = g
      BY <1>1, <3>1 DEF ListTrue, n
    <3>3. k \in 1..n /\ k # at
      BY <1>2, <1>6, <1>9, <3>1, <3>2
    <3>4. PICK l \in 2..(n - 1) : from(l) = k
      BY <2>6, <3>2, <3>3
    <3> QED
      BY <2>8, <3>2, <3>4
  <2>14. ListTrue'
    BY <1>4, <2>2, <2>9, <2>12, <2>13 DEF ListTrue
  <2> QED
    BY <2>10, <2>11, <2>14 DEF ListInv
<1> QED
  BY <1>5, <1>7, <1>8, <1>9 DEF at, n

-------------------------------------------------------------------------------
LegacyInv == MessageInv /\ ListInv

LEMMA LegacyInit == Init => LegacyInv
<1> SUFFICES ASSUME Init PROVE LegacyInv
  OBVIOUS
<1>1. ListenFd \in Nat /\ MaxFd \in Nat /\ ListenFd <= MaxFd
  BY HandleMessageAssumption
<1>2. /\ NoBuffer \in Buffer /\ Size(NoBuffer) = 0 /\ <<>> \in Message
      /\ Holds(NoBuffer, <<>>)
  BY DEF NoBuffer, Buffer, Size, Message, Holds
<1>3. MessageInv
  <2>1. /\ buf_array = [fd \in Fds |-> NoBuffer] /\ master_fd_set = {}
        /\ max_sock = ListenFd /\ got = [fd \in Fds |-> <<>>]
        /\ moved = [fd \in Fds |-> FALSE] /\ ended = FALSE
    BY DEF Init, MsgInit
  <2>2. MessageTypes
    <3>1. max_sock \in ListenFd..MaxFd /\ master_fd_set \subseteq Fds
      BY <1>1, <2>1
    <3>2. got \in [Fds -> Message] /\ buf_array \in [Fds -> Buffer]
      BY <1>2, <2>1
    <3>3. moved \in [Fds -> BOOLEAN] /\ ended \in BOOLEAN
      BY <2>1
    <3> QED
      BY <3>1, <3>2, <3>3 DEF MessageTypes
  <2>3. Roomy
    BY <1>2, <2>1 DEF Roomy
  <2>4. TextHeld
    BY <1>2, <2>1 DEF TextHeld
  <2> QED
    BY <2>2, <2>3, <2>4 DEF MessageInv
<1>4. /\ server_list = <<[sockfd |-> -1, url |-> NULL]>> /\ hung = FALSE
      /\ Len(server_list) = 1 /\ server_list \in Seq(ServerNode)
      /\ server_list[1] = [sockfd |-> -1, url |-> NULL]
  BY DEF Init, ListInit, create_server_list, ServerNode
<1>5. url_of = [fd \in Fds |-> NULL]
  BY DEF Init
<1>6. ListTypes /\ ListShape
  <2>1. ListTypes
    <3>1. url_of \in [Fds -> Urls \cup {NULL}]
      BY <1>1, <1>5
    <3> QED
      BY <1>4, <3>1 DEF ListTypes
  <2>2. 2..Len(server_list) = {} /\ \A k \in 1..Len(server_list) : k = 1
    BY <1>4
  <2> QED
    BY <1>4, <2>1, <2>2 DEF ListShape
<1>7. ListTrue
  BY <1>4, <1>5 DEF ListTrue
<1> QED
  BY <1>3, <1>6, <1>7 DEF LegacyInv, ListInv

LEMMA LegacyStep == LegacyInv /\ [Next]_vars => LegacyInv'
<1> SUFFICES ASSUME LegacyInv, [Next]_vars PROVE LegacyInv'
  OBVIOUS
<1> USE DEF LegacyInv
<1>1. CASE AcceptClient
  <2>1. PICK fd \in Fds : Accept(fd)
    BY <1>1 DEF AcceptClient
  <2>2. MessageInv'
    BY <2>1, AcceptKeepsMessages
  <2>3. ListInv'
    <3>1. Running /\ UNCHANGED <<listVars, url_of>>
      BY <1>1 DEF AcceptClient
    <3>2. master_fd_set \subseteq master_fd_set'
      BY <2>1 DEF Accept
    <3> QED
      BY <3>1, <3>2, SameListKeeps
  <2> QED
    BY <2>2, <2>3
<1>2. ASSUME NEW url \in Urls, initiate_server_connection(url)
      PROVE  LegacyInv'
  <2>1. PICK fd \in Fds : /\ Free(fd) /\ Accept(fd) /\ add_node(url, fd)
                          /\ url_of' = [url_of EXCEPT ![fd] = url]
    BY <1>2 DEF initiate_server_connection
  <2>2. MessageInv'
    BY <2>1, AcceptKeepsMessages
  <2>3. ListInv'
    <3>1. Running /\ fd \notin master_fd_set /\ master_fd_set' = master_fd_set \cup {fd}
      BY <1>2, <2>1 DEF initiate_server_connection, Free, Accept
    <3> QED
      BY <2>1, <3>1, AddKeepsList
  <2> QED
    BY <2>2, <2>3
<1>3. CASE Arrive
  <2>1. PICK fd \in Fds, msg \in Messages : Receive(fd, msg)
    BY <1>3 DEF Arrive
  <2>2. msg \in Message /\ Len(msg) <= BUFFSIZE
    <3>1. PICK n \in 1..BUFFSIZE : msg \in [1..n -> Bytes \cup {0}]
      BY DEF Messages
    <3>2. BUFFSIZE \in Nat /\ n \in Nat /\ n <= BUFFSIZE
      BY HandleMessageAssumption
    <3>3. msg \in Seq(Bytes \cup {0}) /\ Len(msg) = n
      BY <3>1, <3>2
    <3> QED
      BY <3>2, <3>3 DEF Message
  <2>3. MessageInv'
    BY <2>1, <2>2, ReceiveKeepsMessages
  <2>4. ListInv'
    <3>1. Running /\ UNCHANGED <<listVars, url_of>> /\ master_fd_set' = master_fd_set
      BY <1>3, <2>1 DEF Arrive, Receive
    <3> QED
      BY <3>1, SameListKeeps
  <2> QED
    BY <2>3, <2>4
<1>4. CASE TakeHeader
  <2>1. PICK fd \in Fds, n \in 1..MaxRead : ClearHeader(fd, n)
    BY <1>4 DEF TakeHeader
  <2>2. MessageInv'
    BY <2>1, ClearHeaderKeepsMessages
  <2>3. ListInv'
    <3>1. Running /\ UNCHANGED <<listVars, url_of>> /\ master_fd_set' = master_fd_set
      BY <1>4, <2>1 DEF TakeHeader, ClearHeader
    <3> QED
      BY <3>1, SameListKeeps
  <2> QED
    BY <2>2, <2>3
<1>5. ASSUME NEW fd \in Fds, Hangup(fd)
      PROVE  LegacyInv'
  <2>1. MessageInv'
    BY <1>5, ClosedKeepsMessages DEF Hangup
  <2>2. ListInv'
    BY <1>5, RemoveKeepsList DEF Hangup, Closed
  <2> QED
    BY <2>1, <2>2
<1>6. CASE UNCHANGED vars
  <2>1. MessageInv'
    BY <1>6 DEF vars, msgVars, MessageInv, MessageTypes, Roomy, TextHeld
  <2>2. ListInv'
    BY <1>6, SameListKeeps DEF vars, msgVars, listVars, Running
  <2> QED
    BY <2>1, <2>2
<1> QED
  BY <1>1, <1>2, <1>3, <1>4, <1>5, <1>6 DEF Next

\* Everything about the legacy modules rests on this: what their buffers and their
\* list hold in every state the loop reaches.
THEOREM LegacyInvariant == Spec => []LegacyInv
<1> QED
  BY LegacyInit, LegacyStep, PTL DEF Spec

-------------------------------------------------------------------------------
\* Up to the first zero byte a message is text.
LEMMA TextBeforeItsEnd ==
  ASSUME NEW s \in Message, NEW k \in 1..(TextEnd(s) - 1)
  PROVE  k \in 1..Len(s) /\ \A j \in 1..k : s[j] # 0
<1> DEFINE Z == {z \in 1..Len(s) : s[z] = 0}
<1>1. Len(s) \in Nat /\ DOMAIN s = 1..Len(s)
  BY LenProperties DEF Message
<1>2. CASE Z = {}
  <2>1. TextEnd(s) = Len(s) + 1
    BY <1>1, <1>2 DEF TextEnd
  <2> QED
    BY <1>1, <1>2, <2>1
<1>3. CASE Z # {}
  <2>1. Z \subseteq Nat
    BY <1>1
  <2> HIDE DEF Z
  <2>2. PICK m \in Z : \A z \in Z : m <= z
    BY <1>3, <2>1, SmallestOf
  <2> USE DEF Z
  <2>3. m \in DOMAIN s /\ s[m] = 0 /\ \A j \in 1..(m - 1) : s[j] # 0
    BY <1>1, <2>1, <2>2
  <2>4. /\ TextEnd(s) \in 1..Len(s)
        /\ \A j \in 1..(TextEnd(s) - 1) : s[j] # 0
    BY <1>1, <2>3 DEF TextEnd
  <2> QED
    BY <1>1, <2>4
<1> QED
  BY <1>2, <1>3

\* Every variable of the legacy loop keeps its shape: the descriptors watched are
\* descriptors, max_sock is one, and buffers hold bytes or what malloc left.
THEOREM LegacyTyped == Spec => []LegacyTypeOK
<1>1. LegacyInv => LegacyTypeOK
  BY DEF LegacyInv, MessageInv, ListInv, MessageTypes, ListTypes, LegacyTypeOK,
         Message, Buffer, Memory
<1> QED
  BY <1>1, LegacyInvariant, PTL

\* increase_buffer_size, which doubles a buffer once, makes room for every read, so
\* that strncpy stays inside; exactly the watched connections have a buffer, and
\* select reaches them.
THEOREM LegacyMessagesFit == Spec => []MessagesFit
<1>1. LegacyInv => MessagesFit
  <2> SUFFICES ASSUME LegacyInv, NEW fd \in Fds
               PROVE  /\ fd \in master_fd_set <=> Size(buf_array[fd]) > 0
                      /\ fd \in master_fd_set =>
                           buf_array[fd].length < Size(buf_array[fd])
                      /\ fd \in master_fd_set => fd <= max_sock
    BY DEF MessagesFit
  <2>1. BUFFSIZE \in Nat /\ BUFFSIZE > 0 /\ Size(buf_array[fd]) \in Nat
    BY HandleMessageAssumption, LenProperties
    DEF LegacyInv, MessageInv, MessageTypes, Buffer, Size
  <2> QED
    BY <2>1 DEF LegacyInv, MessageInv, Roomy
<1> QED
  BY <1>1, LegacyInvariant, PTL

\* add_to_partial_msg_buffer holds text whole, in whatever reads it comes and however
\* often the buffer grows, up to its first zero byte.
THEOREM LegacyTextArrives == Spec => []TextArrives
<1>1. LegacyInv => TextArrives
  <2> SUFFICES ASSUME LegacyInv, NEW fd \in Fds, ~moved[fd]
               PROVE  LET b == buf_array[fd] IN
                      /\ b.length = Len(got[fd])
                      /\ \A k \in 1..b.length : b.buffer[k] \in {got[fd][k], 0}
                      /\ \A k \in 1..(TextEnd(got[fd]) - 1) : b.buffer[k] = got[fd][k]
    BY DEF TextArrives
  <2>1. got[fd] \in Message /\ Holds(buf_array[fd], got[fd])
    BY DEF LegacyInv, MessageInv, MessageTypes, TextHeld
  <2>2. \A k \in 1..(TextEnd(got[fd]) - 1) :
          k \in 1..Len(got[fd]) /\ \A j \in 1..k : got[fd][j] # 0
    BY <2>1, TextBeforeItsEnd
  <2> QED
    BY <2>1, <2>2 DEF Holds
<1> QED
  BY <1>1, LegacyInvariant, PTL

\* As long as the process runs is_server names the origin each descriptor is connected
\* to at present, and none for a client, however descriptors are reused.
THEOREM LegacyNamesPresentOrigin == Spec => []PresentOrigin
<1>1. LegacyInv => PresentOrigin
  <2> SUFFICES ASSUME LegacyInv, Running, NEW fd \in Fds
               PROVE  is_server(fd) = url_of[fd]
    BY DEF PresentOrigin
  <2> DEFINE at == First(server_list, fd)
             n == Len(server_list)
  <2>1. /\ server_list \in Seq(ServerNode) /\ n \in Nat /\ ListShape /\ ListTrue
    BY LenProperties DEF LegacyInv, ListInv, ListTypes
  <2>2. /\ at \in 0..n
        /\ at = 0 => \A k \in 1..n : server_list[k].sockfd # fd
        /\ at # 0 => server_list[at].sockfd = fd
    BY <2>1, FirstFinds
  <2>3. is_server(fd) = IF at = 0 THEN NULL ELSE server_list[at].url
    BY DEF is_server
  <2>4. 2..n \subseteq 1..n
    BY <2>1
  <2> HIDE DEF at, n
  <2>5. CASE at = 0
    BY <2>1, <2>2, <2>3, <2>4, <2>5 DEF ListTrue, n
  <2>6. CASE at # 0
    <3>1. at # 1
      BY <2>1, <2>2, <2>6, HandleMessageAssumption DEF ListShape, Fds
    <3>2. at \in 2..n
      BY <2>1, <2>2, <2>6, <3>1
    <3> QED
      BY <2>1, <2>2, <2>3, <2>6, <3>2 DEF ListTrue, n
  <2> QED
    BY <2>5, <2>6
<1> QED
  BY <1>1, LegacyInvariant, PTL

===============================================================================
