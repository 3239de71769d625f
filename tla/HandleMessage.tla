----------------------------- MODULE HandleMessage ----------------------------
(***************************************************************************)
(* HandleMessage.c, the message buffers the proxy had before Buffer.c.  It *)
(* copies with strncpy, which stops at a zero byte and fills the rest of   *)
(* its count with zeros, and its fixed MAX_LENGTH has nothing to do with   *)
(* the size of a buffer.                                                   *)
(***************************************************************************)
EXTENDS Integers, Sequences

CONSTANTS
  ListenFd, MaxFd,
  MAX_LENGTH,    \* what clear_buffer and clear_header_from_buffer go up to
  BUFFSIZE,      \* the first size of a buffer, and the most one read returns
  Bytes,         \* the bytes that are not zero
  Junk,          \* what malloc leaves in memory
  MaxRead        \* bound: the bytes a connection brings

Fds == (ListenFd + 1)..MaxFd

ASSUME HandleMessageAssumption ==
  /\ ListenFd \in Nat /\ MaxFd \in Nat /\ ListenFd <= MaxFd
  /\ MAX_LENGTH \in Nat /\ BUFFSIZE \in Nat \ {0}
  /\ 0 \notin Bytes /\ Junk \notin Bytes \cup {0} /\ MaxRead \in Nat

VARIABLES
  buf_array,     \* [buffer, length]; size is the buffer's; <<>> was freed
  master_fd_set, \* the descriptors of connections in it
  max_sock,
  got,           \* history: the bytes read on each connection
  moved,         \* history: clear_header_from_buffer was used on it
  ended          \* the process was ended

msgVars == <<buf_array, master_fd_set, max_sock, got, moved, ended>>

Size(b) == Len(b.buffer)
NoBuffer == [buffer |-> <<>>, length |-> 0]
Malloc(n) == [k \in 1..n |-> Junk]

MsgInit ==
  /\ buf_array = [fd \in Fds |-> NoBuffer]
  /\ master_fd_set = {} /\ max_sock = ListenFd
  /\ got = [fd \in Fds |-> <<>>] /\ moved = [fd \in Fds |-> FALSE]
  /\ ended = FALSE

-------------------------------------------------------------------------------
\* s is copied up to its first zero byte, and zeros behind it.
strncpy(buffer, at, s) ==
  [k \in DOMAIN buffer |->
     IF k - at \notin 1..Len(s) THEN buffer[k]
     ELSE IF \E j \in 1..(k - at) : s[j] = 0 THEN 0 ELSE s[k - at]]

initialize_partial_msg_buffer == [buffer |-> Malloc(BUFFSIZE), length |-> 0]

\* Mutant of increase_buffer_size: what was received is not copied.
increase_buffer_empty(b) == [b EXCEPT !.buffer = Malloc(2 * Size(b))]

increase_buffer_size(b) ==
  [b EXCEPT !.buffer = strncpy(Malloc(2 * Size(b)), 0, SubSeq(b.buffer, 1, b.length))]

\* Mutant of HasRoom: the whole buffer is counted.
HasRoomInAll(b, n) == n <= Size(b)

HasRoom(b, n) == n < Size(b) - b.length

add_to_partial_msg_buffer(b, msg) ==
  LET c == IF HasRoom(b, Len(msg)) THEN b ELSE increase_buffer_size(b)
  IN  [buffer |-> strncpy(c.buffer, c.length, msg), length |-> c.length + Len(msg)]

(***************************************************************************)
(* Every byte from the header's end to MAX_LENGTH is set to one and the    *)
(* same byte, the first after the header; the length stays.                *)
(***************************************************************************)
clear_header_from_buffer(b, header_length) ==
  [b EXCEPT !.buffer = [k \in DOMAIN b.buffer |->
     IF k <= MAX_LENGTH - header_length THEN b.buffer[header_length + 1] ELSE b.buffer[k]]]

\* A loop to MAX_LENGTH that leaves a smaller buffer writes to memory that is not
\* its own: the process may or may not survive it.
Leaves(b, count) == count > Size(b)
Survives(b, count) == ended' \in (IF Leaves(b, count) THEN BOOLEAN ELSE {FALSE})

-------------------------------------------------------------------------------
\* Mutant of Accept: one past the highest, which is what select takes.
AcceptPast(new_sock) ==
  /\ master_fd_set' = master_fd_set \cup {new_sock}
  /\ buf_array' = [buf_array EXCEPT ![new_sock] = initialize_partial_msg_buffer]
  /\ max_sock' = IF new_sock + 1 > max_sock THEN new_sock + 1 ELSE max_sock
  /\ got' = [got EXCEPT ![new_sock] = <<>>]
  /\ moved' = [moved EXCEPT ![new_sock] = FALSE]
  /\ UNCHANGED ended

\* handle_incoming_message on the listening socket; the kernel's lowest descriptor.
Accept(new_sock) ==
  /\ master_fd_set' = master_fd_set \cup {new_sock}
  /\ buf_array' = [buf_array EXCEPT ![new_sock] = initialize_partial_msg_buffer]
  /\ max_sock' = IF new_sock > max_sock THEN new_sock ELSE max_sock
  /\ got' = [got EXCEPT ![new_sock] = <<>>]
  /\ moved' = [moved EXCEPT ![new_sock] = FALSE]
  /\ UNCHANGED ended

\* On a connection, with bytes.
Receive(sockfd, msg) ==
  /\ sockfd \in master_fd_set
  /\ Len(got[sockfd]) + Len(msg) <= MaxRead
  /\ buf_array' = [buf_array EXCEPT ![sockfd] = add_to_partial_msg_buffer(@, msg)]
  /\ got' = [got EXCEPT ![sockfd] = @ \o msg]
  /\ UNCHANGED <<master_fd_set, max_sock, moved, ended>>

\* On a connection that was closed: clear_buffer, delete_buffer.
Closed(sockfd) ==
  /\ sockfd \in master_fd_set
  /\ master_fd_set' = master_fd_set \ {sockfd}
  /\ Survives(buf_array[sockfd], MAX_LENGTH)
  /\ buf_array' = [buf_array EXCEPT ![sockfd] = NoBuffer]
  /\ got' = [got EXCEPT ![sockfd] = <<>>]
  /\ UNCHANGED <<max_sock, moved>>

\* A caller takes the header off.
ClearHeader(sockfd, header_length) ==
  /\ sockfd \in master_fd_set
  /\ header_length \in 1..buf_array[sockfd].length /\ header_length <= MAX_LENGTH
  /\ buf_array' = [buf_array EXCEPT ![sockfd] = clear_header_from_buffer(@, header_length)]
  /\ Survives(buf_array[sockfd], MAX_LENGTH - header_length)
  /\ moved' = [moved EXCEPT ![sockfd] = TRUE]
  /\ UNCHANGED <<master_fd_set, max_sock, got>>

-------------------------------------------------------------------------------
(***************************************************************************)
(* One doubling is enough, so that strncpy stays inside the buffer, and    *)
(* the connections that are watched, and no others, have a buffer and are  *)
(* reached by select.                                                      *)
(***************************************************************************)
MessagesFit ==
  \A fd \in Fds :
    /\ fd \in master_fd_set <=> Size(buf_array[fd]) > 0
    /\ fd \in master_fd_set => buf_array[fd].length < Size(buf_array[fd])
    /\ fd \in master_fd_set => fd <= max_sock

TextEnd(s) == IF \E k \in DOMAIN s : s[k] = 0
              THEN CHOOSE k \in DOMAIN s : s[k] = 0 /\ \A j \in 1..(k - 1) : s[j] # 0
              ELSE Len(s) + 1

(***************************************************************************)
(* Text arrives whole, whatever the reads it comes in and however often    *)
(* the buffer grows: up to the first zero byte the buffer holds what was   *)
(* read, and behind it never a byte that was not read there.               *)
(***************************************************************************)
TextArrives ==
  \A fd \in Fds : ~moved[fd] =>
    LET b == buf_array[fd] IN
    /\ b.length = Len(got[fd])
    /\ \A k \in 1..b.length : b.buffer[k] \in {got[fd][k], 0}
    /\ \A k \in 1..(TextEnd(got[fd]) - 1) : b.buffer[k] = got[fd][k]

===============================================================================
