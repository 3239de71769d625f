----------------------------- MODULE PartialBuffer ----------------------------
(***************************************************************************)
(* Memory of Buffer.c: how large each partial buffer is and how much of it *)
(* is in use, how long the list of buffers is, and the highest descriptor  *)
(* that add_tokens and select go up to.  What the bytes say is Assembly's. *)
(***************************************************************************)
EXTENDS Integers

CONSTANTS
  ListenFd,      \* listen_fd
  MaxFd,         \* the largest descriptor the process may open
  BufSize,       \* BUFSIZE, the most one read returns
  BufListSize,   \* BUFLISTSIZE
  MaxInt         \* the largest int

Fds == (ListenFd + 1)..MaxFd

ASSUME PartialBufferAssumption ==
  /\ ListenFd \in Nat /\ MaxFd \in Nat /\ ListenFd <= MaxFd
  /\ BufSize \in Nat \ {0} /\ BufListSize \in Nat \ {0}
  /\ MaxInt \in Nat /\ BufSize <= MaxInt

VARIABLES
  open,          \* the descriptors of open connections
  size,          \* buffers[fd]->size, 0 where buffers[fd] is NULL
  length,        \* buffers[fd]->length
  list_size,     \* buffer_list->size
  max_sock,
  ended          \* the process was ended by a fault

memory == <<open, size, length, list_size, max_sock, ended>>

\* main, before its loop.
MemoryInit ==
  /\ open = {}
  /\ size = [fd \in Fds |-> 0]
  /\ length = [fd \in Fds |-> 0]
  /\ list_size = BufListSize
  /\ max_sock = ListenFd
  /\ ended = FALSE

-------------------------------------------------------------------------------
\* Mutant of Reaches: the list is doubled at most once.
ReachesOnce(index, new_size) ==
  new_size = IF index >= list_size THEN 2 * list_size ELSE list_size

\* insertBufferList doubles the list while it does not reach the index.
Reaches(index, new_size) ==
  /\ \E k \in 0..index : new_size = list_size * 2^k
  /\ new_size > index
  /\ new_size # list_size => new_size \div 2 <= index

\* handleNewConnection, and handleClient for the connection to an origin.  The
\* slot may still hold the buffer of an origin that handleServer closed.
Open(fd) ==
  /\ ~ended /\ fd \notin open
  /\ open' = open \cup {fd}
  /\ size' = [size EXCEPT ![fd] = BufSize]
  /\ length' = [length EXCEPT ![fd] = 0]
  /\ \E new_size \in list_size..(list_size + 2 * fd) :
       Reaches(fd, new_size) /\ list_size' = new_size
  /\ max_sock' = IF fd > max_sock THEN fd ELSE max_sock
  /\ UNCHANGED ended

\* Mutant of Full: the byte that would fill the buffer is let in.
FullExactly(fd, n) == n > size[fd] - length[fd]

Full(fd, n) == n >= size[fd] - length[fd]

\* insertPartialBuffer, of the n bytes of a read.
insertPartialBuffer(fd, n) ==
  /\ ~ended /\ fd \in open
  /\ ~(Full(fd, n) /\ 2 * size[fd] > MaxInt)
  /\ size' = [size EXCEPT ![fd] = IF Full(fd, n) THEN 2 * @ ELSE @]
  /\ UNCHANGED <<list_size, max_sock, ended>>

(***************************************************************************)
(* The size is an int: when it cannot be doubled realloc is asked for a    *)
(* negative size and fails, and the bytes are copied to a null pointer.    *)
(***************************************************************************)
Overflow(fd, n) ==
  /\ ~ended /\ fd \in open
  /\ Full(fd, n) /\ 2 * size[fd] > MaxInt
  /\ ended' = TRUE
  /\ UNCHANGED <<open, size, length, list_size, max_sock>>

\* A read at which a parser ends the process; Assembly says which.
EndInParser(fd, n) ==
  /\ ~ended /\ fd \in open
  /\ ~(Full(fd, n) /\ 2 * size[fd] > MaxInt)
  /\ ended' = TRUE
  /\ UNCHANGED <<open, size, length, list_size, max_sock>>

\* A read that completes nothing: the bytes are kept.
Keep(fd, n) ==
  /\ insertPartialBuffer(fd, n)
  /\ length' = [length EXCEPT ![fd] = @ + n]
  /\ UNCHANGED open

\* Mutant of Clear: only what was there before the read goes.
ClearOld(fd, n) ==
  /\ insertPartialBuffer(fd, n)
  /\ length' = [length EXCEPT ![fd] = n]
  /\ UNCHANGED open

\* A read that completes a request, or is tunnelled: clearFromBufferList is called
\* with the whole length.  The buffer keeps its size.
Clear(fd, n) ==
  /\ insertPartialBuffer(fd, n)
  /\ length' = [length EXCEPT ![fd] = 0]
  /\ UNCHANGED open

\* A read that completes a response: handleServer closes, but the buffer stays.
Close(fd, n) ==
  /\ insertPartialBuffer(fd, n)
  /\ length' = [length EXCEPT ![fd] = @ + n]
  /\ open' = open \ {fd}

\* handleDisconnect
Disconnect(fd) ==
  /\ ~ended /\ fd \in open
  /\ open' = open \ {fd}
  /\ size' = [size EXCEPT ![fd] = 0]
  /\ length' = [length EXCEPT ![fd] = 0]
  /\ max_sock' = IF max_sock = fd THEN max_sock - 1 ELSE max_sock
  /\ UNCHANGED <<list_size, ended>>

MemoryNext ==
  \E fd \in Fds :
    \/ Open(fd) \/ Disconnect(fd)
    \/ \E n \in 1..BufSize :
         \/ Keep(fd, n) \/ Clear(fd, n) \/ Close(fd, n)
         \/ Overflow(fd, n) \/ EndInParser(fd, n)

MemorySpec == MemoryInit /\ [][MemoryNext]_memory

-------------------------------------------------------------------------------
MemoryTypeOK ==
  /\ open \subseteq Fds
  /\ size \in [Fds -> {0} \cup BufSize..MaxInt]
  /\ length \in [Fds -> Nat]
  /\ list_size \in Nat \ {0}
  /\ max_sock \in ListenFd..MaxFd
  /\ ended \in BOOLEAN

(***************************************************************************)
(* One doubling is always enough: no read is copied past the end of its    *)
(* buffer (and a byte is left over), and clearFromBufferList, which copies *)
(* what lies behind the length, stays inside the old buffer.               *)
(***************************************************************************)
Fits == \A fd \in Fds : size[fd] # 0 => length[fd] < size[fd]

(***************************************************************************)
(* add_tokens looks at every slot below max_sock, and a connection's slot  *)
(* is used without a look at the list's size: all of them are in the list, *)
(* and every open connection has a buffer there.                           *)
(***************************************************************************)
ScanInBounds ==
  /\ max_sock < list_size \/ max_sock = ListenFd
  /\ \A fd \in open : fd < list_size /\ size[fd] # 0

===============================================================================
