-------------------------------- MODULE FdList --------------------------------
(***************************************************************************)
(* What the proxy takes client_fds for: a sequence of descriptors.  op is  *)
(* the call that was made, positions count from 0 as the callers' do, and  *)
(* what lies between the end and a later position is filled with 0.        *)
(***************************************************************************)
EXTENDS Integers, SequencesExt

CONSTANTS
  Descriptors,   \* what is put into the list
  MaxLen         \* bound: no call makes the list longer

VARIABLES list, op

Words == {w \in UNION {[1..k -> Descriptors] : k \in 0..2} : Len(w) <= MaxLen}

Init == list = <<>> /\ op = <<"new">>

Call(o, result) == Len(result) <= MaxLen /\ op' = o /\ list' = result

Padded(len) == list \o [k \in 1..(len - Len(list)) |-> 0]

push_back(x)  == Call(<<"push_back", x>>, Append(list, x))
extend_back   == Call(<<"extend_back">>, Append(list, 0))
pop_back      == list # <<>> /\ Call(<<"pop_back">>, Front(list))
insert(x, j)  == Call(<<"insert", x, j>>, InsertAt(Padded(j), j + 1, x))
resize(num)   == Call(<<"resize", num>>, SubSeq(Padded(num), 1, num))
new           == Call(<<"new">>, <<>>)
clear         == Call(<<"clear">>, <<>>)
concat(w)     == Call(<<"concat", w>>, list \o w)

inserta(w, j) ==
  Call(<<"inserta", w, j>>,
       IF w = <<>> THEN list
       ELSE SubSeq(Padded(j), 1, j) \o w \o SubSeq(list, j + 1, Len(list)))

erase(pos, len) ==
  /\ pos + len <= Len(list)
  /\ Call(<<"erase", pos, len>>,
          SubSeq(list, 1, pos) \o SubSeq(list, pos + len + 1, Len(list)))

\* Only the first of a descriptor's entries goes.
delete_from_clientfds(x) ==
  LET first == SelectInSeq(list, LAMBDA y : y = x)
  IN  Call(<<"delete", x>>, IF first = 0 THEN list ELSE RemoveAt(list, first))

Next ==
  \/ \E x \in Descriptors :
       \/ push_back(x)
       \/ delete_from_clientfds(x)
       \/ \E j \in 0..MaxLen : insert(x, j)
  \/ extend_back \/ pop_back \/ clear \/ new
  \/ \E j \in 0..MaxLen : resize(j) \/ \E len \in 0..MaxLen : erase(j, len)
  \/ \E w \in Words : concat(w) \/ \E j \in 0..MaxLen : inserta(w, j)

Spec == Init /\ [][Next]_<<list, op>>

===============================================================================
