------------------------------ MODULE HttpCache ------------------------------
(***************************************************************************)
(* HttpCache.c and CacheObject.c: a growable array of cache objects.  A    *)
(* slot is NULL or an object; num_obj counts the insertions, not the       *)
(* objects, since delete_expired empties a slot and leaves it alone.       *)
(***************************************************************************)
EXTENDS ProxyBase

CONSTANTS
  NULL,          \* the null pointer
  KeysRead       \* KeysRead[u]: what strcmp may read in the copy of url u

VARIABLES
  arr,           \* cache->arr, indexed from 0
  num_obj,       \* cache->num_obj
  capacity       \* cache->capacity

cacheVars == <<arr, num_obj, capacity>>

(***************************************************************************)
(* A CacheObj_T.  url is the string of req_header; key is what strcmp      *)
(* reads in the object's own url field, which is copied without its        *)
(* terminator and so may be another string.  age is the time since         *)
(* last_updated, -1 while there is no response; idle is the time since     *)
(* last_requested; source is the URL the stored bytes were fetched for.    *)
(* client_fds is a set: AtMostOneWaiter shows the order of the utarray and *)
(* erasing from it while iterating make no difference.                     *)
(***************************************************************************)
CacheObj == [url : Urls, key : Urls \cup {NoUrl}, source : Urls \cup {NoUrl},
             client_fds : SUBSET Fds, max_age : MaxAges \cup {-1},
             age : (0..TimeCap) \cup {-1}, idle : 0..TimeCap]

ASSUME CacheAssumption ==
  /\ NULL \notin CacheObj
  /\ KeysRead \in [Urls -> SUBSET (Urls \cup {NoUrl})]

NewCacheObject(u, k, fd) ==
  [url |-> u, key |-> k, source |-> NoUrl, client_fds |-> {fd},
   max_age |-> -1, age |-> -1, idle |-> 0]

------------------------------------------------------------------------------
Slots == 0..(capacity - 1)

HasResponse(obj) == obj.age # -1

\* is_expired
IsExpired(obj) == obj.age >= obj.max_age

\* Mutant of Matches: the last slot is not looked at.
MatchesButLast(u) ==
  {i \in Slots : i < capacity - 1 /\ arr[i] # NULL /\ arr[i].key = u}

\* find_by_url returns the object of the first slot with this key.
Matches(u) == {i \in Slots : arr[i] # NULL /\ arr[i].key = u}
Found(u) == Matches(u) # {}
FindByUrl(u, i) == i \in Matches(u) /\ \A j \in Matches(u) : i <= j

------------------------------------------------------------------------------
CacheInit ==
  /\ capacity = 1
  /\ num_obj = 0
  /\ arr = [i \in 0..0 |-> NULL]

(***************************************************************************)
(* The array doubles when num_obj has reached it; the object goes to the   *)
(* first empty slot.                                                       *)
(***************************************************************************)
InsertIntoCache(obj) ==
  LET cap == IF num_obj >= capacity THEN 2 * capacity ELSE capacity
      old == [i \in 0..(cap - 1) |-> IF i < capacity THEN arr[i] ELSE NULL]
      empty == {i \in 0..(cap - 1) : old[i] = NULL}
  IN  /\ capacity' = cap
      /\ arr' = [i \in 0..(cap - 1) |->
                   IF i \in empty /\ \A j \in empty : i <= j
                   THEN obj ELSE old[i]]
      /\ num_obj' = num_obj + (IF empty = {} THEN 0 ELSE 1)

DeleteFromClientfds(obj, fds) == [obj EXCEPT !.client_fds = @ \ fds]

\* handleServer stores a response and strikes the clients it answered.
StoreResponse(i, age_limit, from, served) ==
  /\ arr' = [arr EXCEPT ![i] = DeleteFromClientfds(
               [@ EXCEPT !.max_age = age_limit, !.age = 0, !.source = from], served)]
  /\ UNCHANGED <<num_obj, capacity>>

\* handleClient answers fd from the object in slot i.
TouchObject(i, fd) ==
  /\ arr' = [arr EXCEPT ![i] = DeleteFromClientfds([@ EXCEPT !.idle = 0], {fd})]
  /\ UNCHANGED <<num_obj, capacity>>

\* Mutant of DeleteExpired: the deleted objects are taken off num_obj.
DeleteExpiredCounting ==
  /\ arr' = [i \in Slots |->
               IF arr[i] # NULL /\ HasResponse(arr[i]) /\ IsExpired(arr[i])
               THEN NULL ELSE arr[i]]
  /\ num_obj' = num_obj - (IF arr' = arr THEN 0 ELSE 1)
  /\ UNCHANGED capacity

\* Mutant of DeleteExpired: an object without a response counts as expired.
DeleteExpiredOrPending ==
  /\ arr' = [i \in Slots |->
               IF arr[i] # NULL /\ IsExpired(arr[i]) THEN NULL ELSE arr[i]]
  /\ UNCHANGED <<num_obj, capacity>>

\* Mutant of DeleteExpired: an object somebody waits for is kept.
DeleteExpiredUnawaited ==
  /\ arr' = [i \in Slots |->
               IF /\ arr[i] # NULL /\ HasResponse(arr[i]) /\ IsExpired(arr[i])
                  /\ arr[i].client_fds = {}
               THEN NULL ELSE arr[i]]
  /\ UNCHANGED <<num_obj, capacity>>

DeleteExpired ==
  /\ arr' = [i \in Slots |->
               IF arr[i] # NULL /\ HasResponse(arr[i]) /\ IsExpired(arr[i])
               THEN NULL ELSE arr[i]]
  /\ UNCHANGED <<num_obj, capacity>>

\* Mutant of DeleteBySockfd: objects without a response are passed over.
DeleteBySockfdStored(fd) ==
  /\ arr' = [i \in Slots |->
               IF arr[i] = NULL \/ ~HasResponse(arr[i]) THEN arr[i]
               ELSE DeleteFromClientfds(arr[i], {fd})]
  /\ UNCHANGED <<num_obj, capacity>>

DeleteBySockfd(fd) ==
  /\ arr' = [i \in Slots |->
               IF arr[i] = NULL THEN NULL
               ELSE DeleteFromClientfds(arr[i], {fd})]
  /\ UNCHANGED <<num_obj, capacity>>

\* One time unit passes for every object.
CacheTick ==
  /\ arr' = [i \in Slots |->
               IF arr[i] = NULL THEN NULL
               ELSE [arr[i] EXCEPT
                       !.age = IF @ = -1 THEN -1 ELSE Older(@),
                       !.idle = Older(@)]]
  /\ UNCHANGED <<num_obj, capacity>>

------------------------------------------------------------------------------
(***************************************************************************)
(* Invariants.                                                             *)
(***************************************************************************)

\* The array and every object in it are well formed.
CacheTypeOK ==
  /\ capacity \in Nat \ {0}
  /\ num_obj \in Nat
  /\ arr \in [Slots -> CacheObj \cup {NULL}]

(***************************************************************************)
(* check_cached_messages scans the first num_obj slots only, while the     *)
(* array has capacity slots: every object lies in the scanned part, and    *)
(* the array has room for the next object once it has been grown.          *)
(***************************************************************************)
ScanCoversObjects ==
  /\ num_obj <= capacity
  /\ \A i \in Slots : arr[i] # NULL => i < num_obj

\* find_by_url is unambiguous: no URL has two objects.
UniqueKeys ==
  \A i, j \in Slots :
    (arr[i] # NULL /\ arr[j] # NULL /\ arr[i].key = arr[j].key
       /\ arr[i].key \in Urls) => i = j

\* client_fds never holds two descriptors, so the loops of handleServer and
\* check_cached_messages, which erase while they iterate, skip nobody.
AtMostOneWaiter ==
  \A i \in Slots : arr[i] # NULL =>
    \A p, q \in arr[i].client_fds : p = q

==============================================================================
