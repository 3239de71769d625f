-------------------------------- MODULE UtArray -------------------------------
(***************************************************************************)
(* utarray.h for integers (ut_int_icd has no constructors), as the list    *)
(* client_fds of a cache object uses it, and delete_from_clientfds.  A     *)
(* pointer to an element is its slot.                                      *)
(***************************************************************************)
EXTENDS Integers, SequencesExt

CONSTANTS
  NULL,
  Junk,          \* what a slot holds that was allocated and not written
  InitialSlots,  \* the slots of the first allocation, 8 in the code
  Descriptors,   \* what is put into the array
  MaxLen         \* bound: no call makes the array longer

ASSUME UtArrayAssumption ==
  InitialSlots \in Nat \ {0} /\ MaxLen \in Nat /\ NULL \notin Nat

VARIABLES
  a,             \* [i, n, d]: next free slot, slots, their contents
  op             \* history: the last call

vars == <<a, op>>

\* utarray_init
NewArray == [i |-> 0, n |-> 0, d |-> <<>>]

Slot(b, k) == IF k \in DOMAIN b.d THEN b.d[k] ELSE Junk
Contents(b) == [k \in 1..b.i |-> Slot(b, k - 1)]

Init == a = NewArray /\ op = <<"new">>

-------------------------------------------------------------------------------
\* The doubling of utarray_reserve, until the slots are enough.
Doubled(slots, need) ==
  LET double[n \in Nat] ==
        IF need <= n THEN n ELSE double[IF n = 0 THEN InitialSlots ELSE 2 * n]
  IN  double[slots]

\* Mutant of utarray_reserve: no room for the element the index is past.
ReserveOneShort(b, by) ==
  LET n == Doubled(b.n, b.i + by - 1)
  IN  [b EXCEPT !.n = n, !.d = [k \in 0..(n - 1) |-> Slot(b, k)]]

utarray_reserve(b, by) ==
  LET n == Doubled(b.n, b.i + by)
  IN  [b EXCEPT !.n = n, !.d = [k \in 0..(n - 1) |-> Slot(b, k)]]

\* memcpy of the elements values[1..count] into the slots from `to` on.
Copied(b, to, values) ==
  [b EXCEPT !.d = [k \in DOMAIN b.d |->
     IF k - to + 1 \in 1..Len(values) THEN values[k - to + 1] ELSE b.d[k]]]

\* memmove within the array, to its last element in use.
Moved(b, to, from) == Copied(b, to, SubSeq(Contents(b), from + 1, b.i))

Zeros(count) == [k \in 1..count |-> 0]
Longer(b, by) == [b EXCEPT !.i = @ + by]

utarray_push_back(b, p) ==
  LET c == utarray_reserve(b, 1) IN Longer(Copied(c, c.i, <<p>>), 1)

utarray_extend_back(b) ==
  LET c == utarray_reserve(b, 1) IN Longer(Copied(c, c.i, <<0>>), 1)

utarray_pop_back(b) == Longer(b, -1)

utarray_resize(b, num) ==
  IF b.i < num
  THEN LET by == num - b.i
       IN  Longer(Copied(utarray_reserve(b, by), b.i, Zeros(by)), by)
  ELSE [b EXCEPT !.i = num]

\* Mutant of utarray_inserta: what follows is overwritten.
InsertaOver(b, w, j) ==
  IF w = <<>> THEN b
  ELSE LET c == utarray_reserve(IF j > b.i THEN utarray_resize(b, j) ELSE b, Len(w))
       IN  Longer(Copied(c, j, w), Len(w))

\* w is the contents of another array.
utarray_inserta(b, w, j) ==
  IF w = <<>> THEN b
  ELSE LET c == utarray_reserve(IF j > b.i THEN utarray_resize(b, j) ELSE b, Len(w))
       IN  Longer(Copied(Moved(c, j + Len(w), j), j, w), Len(w))

utarray_insert(b, p, j) ==
  LET c == utarray_reserve(IF j > b.i THEN utarray_resize(b, j) ELSE b, 1)
  IN  Longer(Copied(Moved(c, j + 1, j), j, <<p>>), 1)

utarray_concat(b, w) == utarray_inserta(b, w, b.i)

utarray_erase(b, pos, len) == Longer(Moved(b, pos, pos + len), -len)

utarray_clear(b) == [b EXCEPT !.i = 0]

\* Pointers: the first element, and the one after e.
utarray_front(b) == IF b.i > 0 THEN 0 ELSE NULL

\* Mutant of utarray_next: one element too few.
NextShort(b, e) == IF e = NULL THEN utarray_front(b)
                   ELSE IF b.i > e + 2 THEN e + 1 ELSE NULL

utarray_next(b, e) == IF e = NULL THEN utarray_front(b)
                      ELSE IF b.i > e + 1 THEN e + 1 ELSE NULL

\* The loop of delete_from_clientfds from element p, its counter at i.
Search(b, start, fd) ==
  LET from[at \in (Nat \cup {NULL}) \X Nat] ==
        LET p == at[1]
            i == at[2]
        IN  IF p = NULL THEN b
            ELSE IF Slot(b, p) = fd THEN utarray_erase(b, i, 1)
            ELSE from[<<utarray_next(b, p), i + 1>>]
  IN  from[start]

\* Mutant of delete_from_clientfds: it goes on to the next entry.
DeleteSecond(b, fd) == Search(b, <<utarray_next(b, utarray_front(b)), 1>>, fd)

delete_from_clientfds(b, fd) == Search(b, <<utarray_front(b), 0>>, fd)

(***************************************************************************)
(* A turn of handleServer's loop, which deletes the entry at p when its    *)
(* bucket pays and then asks the shorter array for what is next to p.      *)
(***************************************************************************)
AnswerTurn(w, payers) ==
  LET fd   == Slot(w.left, w.p)
      left == IF fd \in payers THEN delete_from_clientfds(w.left, fd) ELSE w.left
  IN  IF w.p = NULL THEN w
      ELSE [left |-> left, seen |-> Append(w.seen, fd), p |-> utarray_next(left, w.p)]

\* So many turns of the loop.
AnswerLoop(b, payers, turns) ==
  LET loop[k \in Nat] ==
        IF k = 0 THEN [left |-> b, seen |-> <<>>, p |-> utarray_front(b)]
        ELSE AnswerTurn(loop[k - 1], payers)
  IN  loop[turns]

-------------------------------------------------------------------------------
Call(o, result) == result.i <= MaxLen /\ op' = o /\ a' = result

\* free_cache_object, and the next object's new_cache_object.
Renew == Call(<<"new">>, NewArray)

\* The caller gives pop_back and erase elements that are there.
Shrink ==
  \/ a.i > 0 /\ Call(<<"pop_back">>, utarray_pop_back(a))
  \/ Call(<<"clear">>, utarray_clear(a))
  \/ \E pos, len \in 0..MaxLen :
       pos + len <= a.i /\ Call(<<"erase", pos, len>>, utarray_erase(a, pos, len))
  \/ \E fd \in Descriptors : Call(<<"delete", fd>>, delete_from_clientfds(a, fd))

List == INSTANCE FdList WITH list <- Contents(a)

Grow ==
  \/ \E x \in Descriptors : Call(<<"push_back", x>>, utarray_push_back(a, x))
  \/ Call(<<"extend_back">>, utarray_extend_back(a))
  \/ \E x \in Descriptors, j \in 0..MaxLen :
       Call(<<"insert", x, j>>, utarray_insert(a, x, j))
  \/ \E j \in 0..MaxLen : Call(<<"resize", j>>, utarray_resize(a, j))
  \/ \E w \in List!Words :
       \/ Call(<<"concat", w>>, utarray_concat(a, w))
       \/ \E j \in 0..MaxLen : Call(<<"inserta", w, j>>, utarray_inserta(a, w, j))

Next == Renew \/ Shrink \/ Grow

Spec == Init /\ [][Next]_vars

-------------------------------------------------------------------------------
\* The sizes an array goes through as it grows.
Doublings[k \in Nat] == IF k = 0 THEN InitialSlots ELSE 2 * Doublings[k - 1]

\* The elements lie in slots that were allocated and have been written, and the
\* slots were doubled from InitialSlots no further than MaxLen asks for.
UtArrayTypeOK ==
  /\ DOMAIN a.d = 0..(a.n - 1)
  /\ a.i \in 0..a.n
  /\ a.n \in {0} \cup {Doublings[k] : k \in 0..MaxLen}
  /\ a.n < 2 * MaxLen + InitialSlots
  /\ \A k \in 1..a.i : Contents(a)[k] \in Descriptors \cup {0}

\* The array is the list its callers take it for, call by call.
ImplementsFdList == List!Spec

(***************************************************************************)
(* handleServer's loop deletes entries from the array it walks.  It comes  *)
(* to its end all the same, asks nobody to pay twice, leaves just those it *)
(* did not answer, and passes over nobody but the one that stands behind   *)
(* one it answered: none when nobody can pay, and none when one waits.     *)
(***************************************************************************)
WaitersAnswered ==
  \A payers \in SUBSET Descriptors :
    LET waiting  == Contents(a)
        w        == AnswerLoop(a, payers, Len(waiting))
        answered == ToSet(w.seen) \cap payers
    IN  IsInjective(waiting) =>
          /\ w.p = NULL /\ IsInjective(w.seen)
          /\ ToSet(Contents(w.left)) = ToSet(waiting) \ answered
          /\ \A j \in DOMAIN waiting :
               waiting[j] \notin ToSet(w.seen) => j > 1 /\ waiting[j - 1] \in answered

===============================================================================
