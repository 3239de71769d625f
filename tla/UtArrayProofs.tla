------------------------------ MODULE UtArrayProofs -----------------------------
(***************************************************************************)
(* utarray.h keeps to its memory and is the list its callers take it for,  *)
(* whatever is put into it and however long it gets.  A call is followed   *)
(* in two halves: what it does to the slots of an array that is in order,  *)
(* and what that says about the contents as a sequence.                    *)
(***************************************************************************)
EXTENDS UtArray, SequenceLemmas

Values == Descriptors \cup {0}
Memory == Values \cup {Junk}

\* An array in order: slots, as many as it has grown to, the first i of them written.
Shaped(b) ==
  /\ b.i \in Nat /\ b.n \in Nat /\ b.i <= b.n
  /\ b = [i |-> b.i, n |-> b.n, d |-> b.d]
  /\ b.d \in [0..(b.n - 1) -> Memory]
  /\ \A k \in 0..(b.i - 1) : b.d[k] \in Values

Sizes == {0} \cup {Doublings[k] : k \in Nat}
Sized(b) == b.n \in Sizes /\ b.n < 2 * MaxLen + InitialSlots

ArrayInv == Shaped(a) /\ Sized(a)

-------------------------------------------------------------------------------
\* Each size is the double of the one before it.
LEMMA DoublingsUnfold ==
  \A k \in Nat : Doublings[k] = IF k = 0 THEN InitialSlots ELSE 2 * Doublings[k - 1]
<1> DEFINE V    == Nat
           m    == [k \in Nat |-> k]
           base == [k \in Nat |-> InitialSlots]
           step == [k \in Nat |-> IF k = 0 THEN 0 ELSE k - 1]
           G    == [x \in Nat \X Nat |-> 2 * x[2]]
<1>1. \E f \in [Nat -> Nat] :
        \A x \in Nat : f[x] = IF x \in {0} THEN base[x] ELSE G[<<x, f[step[x]]>>]
  <2>1. m \in [Nat -> Nat] /\ base \in [Nat -> Nat] /\ step \in [Nat -> Nat]
    BY UtArrayAssumption
  <2>2. G \in [Nat \X Nat -> Nat]
    OBVIOUS
  <2>3. \A x \in Nat \ {0} : m[step[x]] < m[x]
    OBVIOUS
  <2> DEFINE D == Nat
             B == {0}
  <2> HIDE DEF m, base, step, G, D, B
  <2>4. Descends(D, D, m, B, base, step, G)
    BY <2>1, <2>2, <2>3 DEF D, B, Descends
  <2>5. \E f \in [D -> D] : Unfolds(f, D, B, base, step, G)
    BY <2>4, RecursionDefines, Zenon
  <2> QED
    BY <2>5 DEF D, B, Unfolds
<1>2. PICK f \in [Nat -> Nat] :
        \A x \in Nat : f[x] = IF x \in {0} THEN base[x] ELSE G[<<x, f[step[x]]>>]
  BY <1>1
<1>3. \A k \in Nat : f[k] = IF k = 0 THEN InitialSlots ELSE 2 * f[k - 1]
  <2>1. \A k \in Nat \ {0} : k - 1 \in Nat /\ <<k, f[k - 1]>> \in Nat \X Nat
    OBVIOUS
  <2> QED
    BY <1>2, <2>1
<1>4. f = [k \in Nat |-> IF k = 0 THEN InitialSlots ELSE 2 * f[k - 1]]
  BY <1>3
<1>5. \E g : g = [k \in Nat |-> IF k = 0 THEN InitialSlots ELSE 2 * g[k - 1]]
  BY <1>4
<1>6. Doublings = [k \in Nat |-> IF k = 0 THEN InitialSlots ELSE 2 * Doublings[k - 1]]
  BY <1>5, Zenon DEF Doublings
<1> HIDE DEF Doublings
<1> QED
  BY <1>6

\* The sizes grow with every doubling.
LEMMA DoublingsGrow ==
  \A k \in Nat : Doublings[k] \in Nat \ {0} /\ Doublings[k] >= InitialSlots + 2 * k - 1
<1> DEFINE P(k) == Doublings[k] \in Nat \ {0} /\ Doublings[k] >= InitialSlots + 2 * k - 1
           Bad == {k \in Nat : ~P(k)}
<1> SUFFICES ASSUME Bad # {} PROVE FALSE
  OBVIOUS
<1>1. PICK k \in Bad : \A l \in Bad : k <= l
  BY SmallestOf
<1>2. P(0)
  BY DoublingsUnfold, UtArrayAssumption
<1>3. k \in Nat /\ k # 0
  BY <1>2
<1>4. k - 1 \in Nat /\ P(k - 1)
  BY <1>1, <1>3
<1>5. Doublings[k] = 2 * Doublings[k - 1]
  BY <1>3, DoublingsUnfold
<1>6. P(k)
  <2> DEFINE d == Doublings[k - 1]
  <2>1. d \in Nat \ {0} /\ d >= InitialSlots + 2 * (k - 1) - 1
    BY <1>4
  <2> HIDE DEF d
  <2>2. InitialSlots \in Nat \ {0} /\ (k = 1 => d = InitialSlots)
    BY DoublingsUnfold, UtArrayAssumption DEF d
  <2>3. 2 * d \in Nat \ {0} /\ 2 * d >= InitialSlots + 2 * k - 1
    BY <1>3, <2>1, <2>2
  <2> QED
    BY <1>5, <2>3 DEF d
<1> QED
  BY <1>6

\* One round of the loop of utarray_reserve.
LEMMA DoubledUnfolds ==
  ASSUME NEW need \in Nat
  PROVE  \A x \in Nat :
           Doubled(x, need) = IF need <= x THEN x
                              ELSE Doubled(IF x = 0 THEN InitialSlots ELSE 2 * x, need)
<1> DEFINE double == CHOOSE f : f = [x \in Nat |->
                       IF need <= x THEN x ELSE f[IF x = 0 THEN InitialSlots ELSE 2 * x]]
           D    == Nat
           B    == {x \in Nat : need <= x}
           m    == [x \in Nat |-> IF need <= x THEN 0 ELSE need - x]
           base == [x \in Nat |-> x]
           step == [x \in Nat |-> IF x = 0 THEN InitialSlots ELSE 2 * x]
           G    == [x \in Nat \X Nat |-> x[2]]
<1>1. Descends(D, D, m, B, base, step, G)
  <2>1. m \in [D -> Nat] /\ base \in [D -> D] /\ step \in [D -> D]
    BY UtArrayAssumption
  <2>2. G \in [D \X D -> D]
    OBVIOUS
  <2>3. \A x \in D \ B : m[step[x]] < m[x]
    BY UtArrayAssumption
  <2> HIDE DEF m, base, step, G, D, B
  <2> QED
    BY <2>1, <2>2, <2>3 DEF Descends
<1> HIDE DEF m, G
<1>2. PICK f \in [D -> D] : Unfolds(f, D, B, base, step, G)
  <2> HIDE DEF D, B, base, step
  <2> QED
    BY <1>1, RecursionDefines, Zenon
<1>3. \A x \in Nat : f[x] = IF need <= x THEN x
                            ELSE f[IF x = 0 THEN InitialSlots ELSE 2 * x]
  <2>1. \A x \in Nat : step[x] \in Nat
    BY UtArrayAssumption
  <2>2. \A x \in Nat : f[step[x]] \in Nat /\ <<x, f[step[x]]>> \in Nat \X Nat
    BY <2>1
  <2> HIDE DEF step
  <2>3. \A x \in Nat : f[x] = IF need <= x THEN x ELSE f[step[x]]
    BY <1>2, <2>2 DEF Unfolds, G
  <2> QED
    BY <2>3 DEF step
<1>4. \E g : g = [x \in Nat |->
                    IF need <= x THEN x ELSE g[IF x = 0 THEN InitialSlots ELSE 2 * x]]
  BY <1>3
<1>5. double = [x \in Nat |->
                  IF need <= x THEN x ELSE double[IF x = 0 THEN InitialSlots ELSE 2 * x]]
  BY <1>4, Zenon
<1>6. \A x : Doubled(x, need) = double[x]
  BY Zenon DEF Doubled
<1> HIDE DEF double
<1> QED
  BY <1>5, <1>6

\* The slots are doubled until they are enough, and no further.
LEMMA DoubledIsEnough ==
  ASSUME NEW need \in Nat, NEW slots \in Nat
  PROVE  LET n == Doubled(slots, need) IN
         /\ n \in Nat /\ need <= n /\ slots <= n
         /\ n = slots \/ n < 2 * need + InitialSlots
         /\ slots \in Sizes => n \in Sizes
<1> DEFINE P(x) == /\ Doubled(x, need) \in Nat /\ need <= Doubled(x, need)
                   /\ x <= Doubled(x, need)
                   /\ Doubled(x, need) = x \/ Doubled(x, need) < 2 * need + InitialSlots
                   /\ x \in Sizes => Doubled(x, need) \in Sizes
           Bad == {r \in Nat : \E x \in Nat : r = need - x /\ ~P(x)}
           next(x) == IF x = 0 THEN InitialSlots ELSE 2 * x
<1>1. \A x \in Nat : need <= x => P(x)
  BY DoubledUnfolds
<1>2. ASSUME NEW x \in Nat, ~(need <= x), P(next(x)) PROVE P(x)
  <2> DEFINE y == next(x)
  <2>1. y \in Nat /\ x < y /\ (y = InitialSlots \/ y < 2 * need)
    BY <1>2, UtArrayAssumption
  <2>2. Doubled(x, need) = Doubled(y, need)
    BY <1>2, DoubledUnfolds
  <2>3. x \in Sizes => y \in Sizes
    <3>1. CASE x = 0
      BY <3>1, DoublingsUnfold DEF Sizes
    <3>2. CASE x # 0
      <4> SUFFICES ASSUME x \in Sizes PROVE y \in Sizes
        OBVIOUS
      <4>1. PICK k \in Nat : x = Doublings[k]
        BY <3>2 DEF Sizes
      <4>2. Doublings[k + 1] = 2 * Doublings[k] /\ k + 1 \in Nat
        BY DoublingsUnfold
      <4> QED
        BY <3>2, <4>1, <4>2 DEF Sizes
    <3> QED
      BY <3>1, <3>2
  <2> HIDE DEF y
  <2>4. P(y)
    BY <1>2 DEF y
  <2> DEFINE n == Doubled(y, need)
  <2>5. n \in Nat /\ need <= n /\ y <= n /\ (n = y \/ n < 2 * need + InitialSlots)
    BY <2>4
  <2>6. y \in Sizes => n \in Sizes
    BY <2>4
  <2> HIDE DEF n
  <2>7. x <= n /\ n < 2 * need + InitialSlots
    BY <1>2, <2>1, <2>5, UtArrayAssumption
  <2>8. Doubled(x, need) = n
    BY <2>2 DEF n
  <2> QED
    BY <2>3, <2>5, <2>6, <2>7, <2>8
<1>3. Bad = {}
  <2> SUFFICES ASSUME Bad # {} PROVE FALSE
    OBVIOUS
  <2>1. PICK r \in Bad : \A l \in Bad : r <= l
    <3> HIDE DEF P
    <3> QED
      BY SmallestOf
  <2>2. PICK x \in Nat : r = need - x /\ ~P(x)
    OBVIOUS
  <2>3. ~(need <= x)
    BY <1>1, <2>2
  <2>4. next(x) \in Nat /\ x < next(x)
    BY UtArrayAssumption
  <2>5. P(next(x))
    <3> DEFINE y == next(x)
    <3>1. CASE need <= y
      BY <1>1, <2>4, <3>1
    <3>2. CASE ~(need <= y)
      <4> HIDE DEF P
      <4>1. y \in Nat /\ need - y \in Nat /\ ~(r <= need - y)
        BY <2>2, <2>4, <3>2
      <4> HIDE DEF y
      <4>2. P(y)
        BY <2>1, <4>1
      <4> QED
        BY <4>2 DEF y
    <3> QED
      BY <3>1, <3>2
  <2> QED
    BY <1>2, <2>2, <2>3, <2>5
<1>4. P(slots)
  <2>1. CASE need <= slots
    BY <1>1, <2>1
  <2>2. CASE ~(need <= slots)
    <3> HIDE DEF P
    <3>1. need - slots \in Nat
      BY <2>2
    <3> QED
      BY <1>3, <3>1
  <2> QED
    BY <2>1, <2>2
<1> QED
  BY <1>4


-------------------------------------------------------------------------------
(***************************************************************************)
(* What each part of a call does to an array that is in order.             *)
(***************************************************************************)
LEMMA ContentsProperties ==
  ASSUME NEW b, Shaped(b)
  PROVE  /\ Contents(b) \in Seq(Values) /\ Len(Contents(b)) = b.i
         /\ \A k \in 1..b.i : Contents(b)[k] = b.d[k - 1] /\ Contents(b)[k] \in Values
<1>1. b.i \in Nat /\ b.n \in Nat /\ b.i <= b.n
  BY DEF Shaped
<1>2. ASSUME NEW k \in 1..b.i PROVE Slot(b, k - 1) = b.d[k - 1] /\ b.d[k - 1] \in Values
  <2>1. k - 1 \in 0..(b.i - 1) /\ k - 1 \in 0..(b.n - 1)
    BY <1>1
  <2> QED
    BY <2>1 DEF Slot, Shaped
<1>3. Contents(b) = [k \in 1..b.i |-> b.d[k - 1]]
  BY <1>2 DEF Contents
<1> QED
  BY <1>1, <1>2, <1>3

\* realloc keeps what was written, and there is room for what comes.
LEMMA ReserveProperties ==
  ASSUME NEW b, Shaped(b), NEW by \in Nat
  PROVE  LET c == utarray_reserve(b, by) IN
         /\ Shaped(c) /\ c.i = b.i /\ b.i + by <= c.n
         /\ Contents(c) = Contents(b)
         /\ Sized(b) /\ b.i + by <= MaxLen => Sized(c)
<1> DEFINE c == utarray_reserve(b, by)
           n == Doubled(b.n, b.i + by)
<1>1. b.i \in Nat /\ b.n \in Nat /\ b.i <= b.n /\ b.i + by \in Nat /\ MaxLen \in Nat
  BY UtArrayAssumption DEF Shaped
<1>2. /\ n \in Nat /\ b.i + by <= n /\ b.n <= n
      /\ n = b.n \/ n < 2 * (b.i + by) + InitialSlots
      /\ b.n \in Sizes => n \in Sizes
  BY <1>1, DoubledIsEnough
<1>3. c = [i |-> b.i, n |-> n, d |-> [k \in 0..(n - 1) |-> Slot(b, k)]]
  <2> DEFINE x == [k \in 0..(n - 1) |-> Slot(b, k)]
  <2>1. b \in [i : {b.i}, n : {b.n}, d : {b.d}]
    BY DEF Shaped
  <2>2. c = [b EXCEPT !.n = n, !.d = x]
    BY DEF utarray_reserve
  <2> HIDE DEF n, x, c
  <2>3. c = [i |-> b.i, n |-> n, d |-> x]
    BY <2>1, <2>2
  <2> QED
    BY <2>3 DEF x
<1> HIDE DEF c, n
<1>4. c.i = b.i /\ c.n = n /\ c.d = [k \in 0..(n - 1) |-> Slot(b, k)]
  BY <1>3
<1>5. ASSUME NEW k \in 0..(n - 1) PROVE Slot(b, k) \in Memory
  BY DEF Slot, Shaped, Memory
<1>6. ASSUME NEW k \in 0..(b.i - 1) PROVE c.d[k] = b.d[k] /\ c.d[k] \in Values
  <2>1. k \in 0..(b.n - 1) /\ k \in 0..(n - 1)
    BY <1>1, <1>2
  <2> QED
    BY <1>4, <2>1 DEF Slot, Shaped
<1>7. Shaped(c)
  <2>1. c.i \in Nat /\ c.n \in Nat /\ c.i <= c.n
    BY <1>1, <1>2, <1>4
  <2>2. c.d \in [0..(c.n - 1) -> Memory]
    BY <1>4, <1>5
  <2>3. c = [i |-> c.i, n |-> c.n, d |-> c.d]
    BY <1>3
  <2>4. \A k \in 0..(c.i - 1) : c.d[k] \in Values
    BY <1>4, <1>6
  <2> QED
    BY <2>1, <2>2, <2>3, <2>4 DEF Shaped
<1>8. Contents(c) = Contents(b)
  <2>1. \A k \in 1..b.i : k - 1 \in 0..(b.i - 1)
    BY <1>1
  <2>2. /\ Contents(c) \in Seq(Values) /\ Len(Contents(c)) = b.i
        /\ Contents(b) \in Seq(Values) /\ Len(Contents(b)) = b.i
        /\ \A k \in 1..b.i : Contents(c)[k] = Contents(b)[k]
    <3>1. /\ Contents(c) \in Seq(Values) /\ Len(Contents(c)) = b.i
          /\ \A k \in 1..b.i : Contents(c)[k] = c.d[k - 1]
      BY <1>4, <1>7, ContentsProperties
    <3>2. /\ Contents(b) \in Seq(Values) /\ Len(Contents(b)) = b.i
          /\ \A k \in 1..b.i : Contents(b)[k] = b.d[k - 1]
      BY ContentsProperties
    <3> QED
      BY <1>6, <2>1, <3>1, <3>2
  <2> QED
    BY <2>2, SeqEqual
<1>9. Sized(b) /\ b.i + by <= MaxLen => Sized(c)
  <2> SUFFICES ASSUME Sized(b), b.i + by <= MaxLen
               PROVE  n < 2 * MaxLen + InitialSlots
    BY <1>2, <1>4 DEF Sized
  <2> QED
    BY <1>1, <1>2, UtArrayAssumption DEF Sized
<1> QED
  BY <1>2, <1>4, <1>7, <1>8, <1>9 DEF c

\* memcpy writes there and nowhere else.
CopiedAt(b, to, w, k) == IF k - to + 1 \in 1..Len(w) THEN w[k - to + 1] ELSE b.d[k]

LEMMA CopiedProperties ==
  ASSUME NEW b, Shaped(b), NEW w \in Seq(Values), NEW to \in Nat, to + Len(w) <= b.n
  PROVE  LET c == Copied(b, to, w) IN
         /\ Shaped(c) /\ c.i = b.i /\ c.n = b.n
         /\ \A k \in 0..(b.n - 1) : c.d[k] = CopiedAt(b, to, w, k)
<1> DEFINE c == Copied(b, to, w)
           value(k) == IF k - to + 1 \in 1..Len(w) THEN w[k - to + 1] ELSE b.d[k]
           d == [k \in 0..(b.n - 1) |-> value(k)]
<1>1. b.i \in Nat /\ b.n \in Nat /\ b.i <= b.n /\ b.d \in [0..(b.n - 1) -> Memory]
      /\ \A k \in 0..(b.i - 1) : b.d[k] \in Values
  BY DEF Shaped
<1>2. \A k \in 1..Len(w) : w[k] \in Values
  BY ElementOfSeq
<1>3. \A k \in 0..(b.n - 1) : value(k) \in Memory
  BY <1>1, <1>2 DEF Memory
<1>4. \A k \in 0..(b.i - 1) : k \in 0..(b.n - 1) /\ value(k) \in Values
  BY <1>1, <1>2
<1>5. c = [i |-> b.i, n |-> b.n, d |-> d]
  <2>1. b \in [i : {b.i}, n : {b.n}, d : {b.d}]
    BY DEF Shaped
  <2>2. d = [k \in DOMAIN b.d |-> value(k)]
    BY <1>1
  <2>3. c = [b EXCEPT !.d = d]
    BY <2>2 DEF Copied
  <2> HIDE DEF d, c
  <2> QED
    BY <2>1, <2>3
<1> HIDE DEF c, value
<1>6. d \in [0..(b.n - 1) -> Memory] /\ \A k \in 0..(b.n - 1) : d[k] = value(k)
  BY <1>3
<1> HIDE DEF d
<1>7. c.i = b.i /\ c.n = b.n /\ c.d = d
  BY <1>5
<1>8. Shaped(c)
  <2>1. \A k \in 0..(c.i - 1) : c.d[k] \in Values
    BY <1>4, <1>6, <1>7
  <2> QED
    BY <1>1, <1>5, <1>6, <1>7, <2>1 DEF Shaped
<1> QED
  BY <1>6, <1>7, <1>8 DEF c, value, CopiedAt

\* Elements become part of the array, or no longer are.
LEMMA LongerProperties ==
  ASSUME NEW b, Shaped(b), NEW by \in Int, b.i + by \in 0..b.n,
         \A k \in b.i..(b.i + by - 1) : b.d[k] \in Values
  PROVE  LET c == Longer(b, by) IN
         Shaped(c) /\ c.i = b.i + by /\ c.n = b.n /\ c.d = b.d
<1> DEFINE c == Longer(b, by)
<1>1. b.i \in Nat /\ b.n \in Nat /\ b.i <= b.n
  BY DEF Shaped
<1>2. c = [i |-> b.i + by, n |-> b.n, d |-> b.d]
  BY DEF Longer, Shaped
<1> HIDE DEF c
<1>3. c.i = b.i + by /\ c.n = b.n /\ c.d = b.d
  BY <1>2
<1>4. \A k \in 0..(b.i + by - 1) : b.d[k] \in Values
  <2> TAKE k \in 0..(b.i + by - 1)
  <2>1. k \in 0..(b.i - 1) \/ k \in b.i..(b.i + by - 1)
    BY <1>1
  <2> QED
    BY <2>1 DEF Shaped
<1>5. Shaped(c)
  BY <1>1, <1>2, <1>3, <1>4 DEF Shaped
<1> QED
  BY <1>3, <1>5 DEF c


-------------------------------------------------------------------------------
(***************************************************************************)
(* What the calls make of the contents.                                    *)
(***************************************************************************)
\* A sequence w put into a sequence s after its first j elements.
Spliced(s, w, j) == SubSeq(s, 1, j) \o w \o SubSeq(s, j + 1, Len(s))

SplicedAt(s, w, j, k) ==
  IF k <= j THEN s[k] ELSE IF k <= j + Len(w) THEN w[k - j] ELSE s[k - Len(w)]

LEMMA SplicedSequence ==
  ASSUME NEW S, NEW s \in Seq(S), NEW w \in Seq(S), NEW j \in 0..Len(s)
  PROVE  LET t == Spliced(s, w, j) IN
         /\ t \in Seq(S) /\ Len(t) = Len(s) + Len(w)
         /\ \A k \in 1..(Len(s) + Len(w)) : t[k] = SplicedAt(s, w, j, k)
<1> DEFINE u == SubSeq(s, 1, j)
           v == SubSeq(s, j + 1, Len(s))
<1>0. Len(s) \in Nat /\ Len(w) \in Nat /\ j \in Nat /\ j <= Len(s)
  OBVIOUS
<1>1. u \in Seq(S) /\ Len(u) = j /\ \A k \in 1..j : u[k] = s[k]
  BY <1>0, SubSeqProperties
<1>2. v \in Seq(S) /\ Len(v) = Len(s) - j /\ \A k \in 1..(Len(s) - j) : v[k] = s[k + j]
  BY <1>0, SubSeqProperties
<1> HIDE DEF u, v
<1> DEFINE x == u \o w
<1>3. /\ x \in Seq(S) /\ Len(x) = j + Len(w)
      /\ \A k \in 1..(j + Len(w)) : x[k] = IF k <= j THEN u[k] ELSE w[k - j]
  BY <1>1, ConcatProperties
<1> HIDE DEF x
<1> DEFINE t == x \o v
<1>4. /\ t \in Seq(S) /\ Len(t) = Len(x) + Len(v)
      /\ \A k \in 1..(Len(x) + Len(v)) : t[k] = IF k <= Len(x) THEN x[k] ELSE v[k - Len(x)]
  BY <1>2, <1>3, ConcatProperties
<1> HIDE DEF t
<1>5. ASSUME NEW k \in 1..(Len(s) + Len(w))
      PROVE  t[k] = IF k <= j THEN s[k]
                    ELSE IF k <= j + Len(w) THEN w[k - j] ELSE s[k - Len(w)]
  <2>1. Len(x) + Len(v) = Len(s) + Len(w)
    BY <1>0, <1>2, <1>3
  <2>2. t[k] = IF k <= j + Len(w) THEN x[k] ELSE v[k - (j + Len(w))]
    BY <1>3, <1>4, <2>1
  <2>3. CASE k <= j
    BY <1>0, <1>1, <1>3, <2>2, <2>3
  <2>4. CASE ~(k <= j) /\ k <= j + Len(w)
    BY <1>0, <1>3, <2>2, <2>4
  <2>5. CASE ~(k <= j + Len(w))
    <3> DEFINE l == k - (j + Len(w))
    <3>1. l \in 1..(Len(s) - j) /\ l + j = k - Len(w) /\ ~(k <= j)
      BY <1>0, <2>5
    <3>2. t[k] = v[l]
      BY <2>2, <2>5
    <3> HIDE DEF l
    <3>3. v[l] = s[l + j]
      BY <1>2, <3>1
    <3> QED
      BY <2>5, <3>1, <3>2, <3>3
  <2> QED
    BY <2>3, <2>4, <2>5
<1>6. t = Spliced(s, w, j)
  BY DEF Spliced, t, x, u, v
<1>7. t \in Seq(S) /\ Len(t) = Len(s) + Len(w)
  BY <1>0, <1>2, <1>3, <1>4
<1> QED
  BY <1>5, <1>6, <1>7 DEF SplicedAt

LEMMA AppendedProperties ==
  ASSUME NEW b, Shaped(b), NEW w \in Seq(Values), b.i + Len(w) <= b.n
  PROVE  LET c == Longer(Copied(b, b.i, w), Len(w)) IN
         /\ Shaped(c) /\ c.i = b.i + Len(w) /\ c.n = b.n
         /\ Contents(c) = Contents(b) \o w
<1> DEFINE e == Copied(b, b.i, w)
           c == Longer(e, Len(w))
<1>0. b.i \in Nat /\ b.n \in Nat /\ b.i <= b.n /\ Len(w) \in Nat
      /\ b.i + Len(w) <= b.n /\ \A k \in 1..Len(w) : w[k] \in Values
  BY ElementOfSeq DEF Shaped
<1>1. /\ Shaped(e) /\ e.i = b.i /\ e.n = b.n
      /\ \A k \in 0..(b.n - 1) :
           e.d[k] = IF k - b.i + 1 \in 1..Len(w) THEN w[k - b.i + 1] ELSE b.d[k]
  BY <1>0, CopiedProperties DEF CopiedAt
<1> HIDE DEF e
<1>2. ASSUME NEW k \in b.i..(b.i + Len(w) - 1)
      PROVE  e.d[k] = w[k - b.i + 1] /\ e.d[k] \in Values
  <2> DEFINE i == b.i
             n == b.n
             l == Len(w)
  <2>1. i \in Nat /\ n \in Nat /\ l \in Nat /\ i + l <= n /\ k \in i..(i + l - 1)
    BY <1>0
  <2> HIDE DEF i, n, l
  <2>2. k \in 0..(n - 1) /\ k - i + 1 \in 1..l
    BY <2>1
  <2> USE DEF i, n, l
  <2> QED
    BY <1>0, <1>1, <2>2
<1>3. \A k \in 0..(b.i - 1) : e.d[k] = b.d[k]
  BY <1>0, <1>1
<1>4. Shaped(c) /\ c.i = b.i + Len(w) /\ c.n = b.n /\ c.d = e.d
  <2>1. Len(w) \in Int /\ e.i + Len(w) \in 0..e.n
    BY <1>0, <1>1
  <2> QED
    BY <1>1, <1>2, <2>1, LongerProperties
<1> HIDE DEF c
<1>5. Contents(c) = Contents(b) \o w
  <2>1. /\ Contents(b) \in Seq(Values) /\ Len(Contents(b)) = b.i
        /\ \A k \in 1..b.i : Contents(b)[k] = b.d[k - 1]
    BY ContentsProperties
  <2>2. /\ Contents(c) \in Seq(Values) /\ Len(Contents(c)) = b.i + Len(w)
        /\ \A k \in 1..(b.i + Len(w)) : Contents(c)[k] = e.d[k - 1]
    BY <1>4, ContentsProperties
  <2> DEFINE t == Contents(b) \o w
  <2>3. /\ t \in Seq(Values) /\ Len(t) = b.i + Len(w)
        /\ \A k \in 1..(b.i + Len(w)) :
             t[k] = IF k <= b.i THEN Contents(b)[k] ELSE w[k - b.i]
    BY <2>1, ConcatProperties
  <2> HIDE DEF t
  <2>4. ASSUME NEW k \in 1..(b.i + Len(w)) PROVE Contents(c)[k] = t[k]
    <3>1. CASE k <= b.i
      <4>1. k \in 1..b.i /\ k - 1 \in 0..(b.i - 1)
        BY <1>0, <3>1
      <4> QED
        BY <1>3, <2>1, <2>2, <2>3, <3>1, <4>1
    <3>2. CASE ~(k <= b.i)
      <4>1. k - 1 \in b.i..(b.i + Len(w) - 1) /\ (k - 1) - b.i + 1 = k - b.i
        BY <1>0, <3>2
      <4> QED
        BY <1>2, <2>2, <2>3, <3>2, <4>1
    <3> QED
      BY <3>1, <3>2
  <2>5. Contents(c) = t
    BY <2>2, <2>3, <2>4, SeqEqual
  <2> QED
    BY <2>5 DEF t
<1> QED
  BY <1>4, <1>5 DEF c, e


\* What follows position j makes room for w.
LEMMA SplicedProperties ==
  ASSUME NEW b, Shaped(b), NEW w \in Seq(Values), NEW j \in 0..b.i, b.i + Len(w) <= b.n
  PROVE  LET c == Longer(Copied(Moved(b, j + Len(w), j), j, w), Len(w)) IN
         /\ Shaped(c) /\ c.i = b.i + Len(w) /\ c.n = b.n
         /\ Contents(c) = Spliced(Contents(b), w, j)
<1> DEFINE i == b.i
           n == b.n
           l == Len(w)
           s == Contents(b)
           u == SubSeq(s, j + 1, i)
           e == Moved(b, j + l, j)
           f == Copied(e, j, w)
           c == Longer(f, l)
           t == Spliced(s, w, j)
<1>0. /\ i \in Nat /\ n \in Nat /\ l \in Nat /\ j \in Nat /\ j <= i /\ i + l <= n
      /\ \A k \in 1..l : w[k] \in Values
  BY ElementOfSeq DEF Shaped
<1>1. /\ s \in Seq(Values) /\ Len(s) = i
      /\ \A k \in 1..i : s[k] = b.d[k - 1] /\ s[k] \in Values
  BY ContentsProperties
<1>2. /\ t \in Seq(Values) /\ Len(t) = i + l
      /\ \A k \in 1..(i + l) : t[k] = IF k <= j THEN s[k]
                                      ELSE IF k <= j + l THEN w[k - j] ELSE s[k - l]
  <2>1. s \in Seq(Values) /\ j \in 0..Len(s)
    BY <1>0, <1>1
  <2> HIDE DEF s, t
  <2>2. /\ Spliced(s, w, j) \in Seq(Values)
        /\ Len(Spliced(s, w, j)) = Len(s) + Len(w)
        /\ \A k \in 1..(Len(s) + Len(w)) : Spliced(s, w, j)[k] = SplicedAt(s, w, j, k)
    BY <2>1, w \in Seq(Values), SplicedSequence
  <2> QED
    BY <1>1, <2>2 DEF t, SplicedAt
<1>3. /\ u \in Seq(Values) /\ Len(u) = i - j
      /\ \A k \in 1..(i - j) : u[k] = s[k + j]
  <2>1. s \in Seq(Values) /\ j + 1 \in Int /\ i \in Int /\ i - (j + 1) + 1 = i - j
    BY <1>0, <1>1
  <2>2. \A k \in (j + 1)..i : s[k] \in Values
    BY <1>0, <1>1
  <2>3. j <= i /\ j \in Nat /\ i \in Nat /\ Len(s) = i
    BY <1>0, <1>1
  <2> HIDE DEF s, i
  <2> QED
    BY <2>1, <2>2, <2>3, SubSeqProperties
<1> HIDE DEF t
<1>4. /\ Shaped(e) /\ e.i = i /\ e.n = n
      /\ \A k \in 0..(n - 1) :
           e.d[k] = IF k - (j + l) + 1 \in 1..(i - j) THEN u[k - (j + l) + 1] ELSE b.d[k]
  <2>1. e = Copied(b, j + l, u)
    BY DEF Moved
  <2> HIDE DEF e, u, s
  <2>2. j + l \in Nat /\ (j + l) + Len(u) <= b.n
    BY <1>0, <1>3
  <2> QED
    <3>1. /\ Shaped(e) /\ e.i = b.i /\ e.n = b.n
          /\ \A k \in 0..(b.n - 1) : e.d[k] = CopiedAt(b, j + l, u, k)
      BY <1>3, <2>1, <2>2, CopiedProperties
    <3> QED
      BY <1>3, <3>1 DEF CopiedAt
<1> HIDE DEF e
<1>5. /\ Shaped(f) /\ f.i = i /\ f.n = n
      /\ \A k \in 0..(n - 1) :
           f.d[k] = IF k - j + 1 \in 1..l THEN w[k - j + 1] ELSE e.d[k]
  <2>1. j + Len(w) <= e.n
    BY <1>0, <1>4
  <2> QED
    BY <1>0, <1>4, <2>1, CopiedProperties DEF CopiedAt
<1> HIDE DEF f, s, u, i, n, l
<1>6. ASSUME NEW k \in 1..(i + l)
      PROVE  f.d[k - 1] = t[k]
  <2>1. k - 1 \in 0..(n - 1)
    BY <1>0
  <2>2. CASE k <= j
    <3>1. k \in 1..i /\ ~((k - 1) - j + 1 \in 1..l) /\ ~((k - 1) - (j + l) + 1 \in 1..(i - j))
      BY <1>0, <2>2
    <3>2. f.d[k - 1] = b.d[k - 1]
      BY <1>4, <1>5, <2>1, <3>1
    <3> QED
      BY <1>1, <1>2, <2>2, <3>1, <3>2
  <2>3. CASE ~(k <= j) /\ k <= j + l
    <3>1. (k - 1) - j + 1 \in 1..l /\ (k - 1) - j + 1 = k - j
      BY <1>0, <2>3
    <3> QED
      BY <1>2, <1>5, <2>1, <2>3, <3>1
  <2>4. CASE ~(k <= j + l)
    <3>1. /\ ~((k - 1) - j + 1 \in 1..l) /\ (k - 1) - (j + l) + 1 = k - (j + l)
          /\ k - (j + l) \in 1..(i - j) /\ (k - (j + l)) + j = k - l /\ ~(k <= j)
      BY <1>0, <2>4
    <3>2. f.d[k - 1] = u[k - (j + l)]
      BY <1>4, <1>5, <2>1, <3>1
    <3>3. u[k - (j + l)] = s[k - l]
      BY <1>3, <3>1
    <3> QED
      BY <1>2, <2>4, <3>1, <3>2, <3>3
  <2> QED
    BY <2>2, <2>3, <2>4
<1>7. Shaped(c) /\ c.i = i + l /\ c.n = n /\ c.d = f.d
  <2>1. \A k \in 1..(i + l) : f.d[k - 1] \in Values
    BY <1>2, <1>6, ElementOfSeq
  <2>2. \A k \in i..(i + l - 1) : f.d[k] \in Values
    <3> TAKE k \in i..(i + l - 1)
    <3>1. k + 1 \in 1..(i + l) /\ (k + 1) - 1 = k
      BY <1>0
    <3> QED
      BY <2>1, <3>1
  <2>3. l \in Int /\ f.i + l \in 0..f.n
    BY <1>0, <1>5
  <2> QED
    BY <1>5, <2>2, <2>3, LongerProperties
<1> HIDE DEF c
<1>8. Contents(c) = t
  <2>1. /\ Contents(c) \in Seq(Values) /\ Len(Contents(c)) = i + l
        /\ \A k \in 1..(i + l) : Contents(c)[k] = f.d[k - 1]
    BY <1>7, ContentsProperties
  <2> QED
    BY <1>2, <1>6, <2>1, SeqEqual
<1> QED
  BY <1>7, <1>8 DEF c, f, e, i, n, l, t, u, s

\* What follows closes the gap.
LEMMA ErasedProperties ==
  ASSUME NEW b, Shaped(b), NEW pos \in Nat, NEW len \in Nat, pos + len <= b.i
  PROVE  LET c == utarray_erase(b, pos, len) IN
         /\ Shaped(c) /\ c.i = b.i - len /\ c.n = b.n
         /\ Contents(c) = SubSeq(Contents(b), 1, pos)
                          \o SubSeq(Contents(b), pos + len + 1, b.i)
<1> DEFINE i == b.i
           n == b.n
           s == Contents(b)
           u == SubSeq(s, 1, pos)
           v == SubSeq(s, pos + len + 1, i)
           e == Moved(b, pos, pos + len)
           c == Longer(e, -len)
           t == u \o v
<1>0. i \in Nat /\ n \in Nat /\ i <= n /\ pos + len <= i
  BY DEF Shaped
<1>1. /\ s \in Seq(Values) /\ Len(s) = i
      /\ \A k \in 1..i : s[k] = b.d[k - 1] /\ s[k] \in Values
  BY ContentsProperties
<1>2. /\ u \in Seq(Values) /\ Len(u) = pos
      /\ \A k \in 1..pos : u[k] = s[k]
  <2> HIDE DEF s, i
  <2> QED
    BY <1>0, <1>1, SubSeqProperties
<1>3. /\ v \in Seq(Values) /\ Len(v) = i - (pos + len)
      /\ \A k \in 1..(i - (pos + len)) : v[k] = s[k + pos + len]
  <2> HIDE DEF s, i
  <2> QED
    BY <1>0, <1>1, SubSeqProperties
<1>4. /\ Shaped(e) /\ e.i = i /\ e.n = n
      /\ \A k \in 0..(n - 1) :
           e.d[k] = IF k - pos + 1 \in 1..(i - (pos + len)) THEN v[k - pos + 1] ELSE b.d[k]
  <2>1. e = Copied(b, pos, v)
    BY DEF Moved
  <2> HIDE DEF e, v, s
  <2>2. pos + Len(v) <= b.n
    BY <1>0, <1>3
  <2> QED
    <3>1. /\ Shaped(e) /\ e.i = b.i /\ e.n = b.n
          /\ \A k \in 0..(b.n - 1) : e.d[k] = CopiedAt(b, pos, v, k)
      BY <1>3, <2>1, <2>2, CopiedProperties
    <3> QED
      BY <1>3, <3>1 DEF CopiedAt
<1> HIDE DEF e
<1>5. Shaped(c) /\ c.i = i - len /\ c.n = n /\ c.d = e.d
  <2>1. -len \in Int /\ e.i + (-len) \in 0..e.n /\ e.i + (-len) = i - len
    BY <1>0, <1>4
  <2>2. \A k \in e.i..(e.i + (-len) - 1) : e.d[k] \in Values
    BY <1>0, <1>4
  <2> QED
    BY <1>4, <2>1, <2>2, LongerProperties
<1> HIDE DEF c, s, u, v, i, n
<1>6. /\ t \in Seq(Values) /\ Len(t) = i - len
      /\ \A k \in 1..(i - len) : t[k] = IF k <= pos THEN u[k] ELSE v[k - pos]
  <2>1. /\ t \in Seq(Values) /\ Len(t) = Len(u) + Len(v)
        /\ \A k \in 1..(Len(u) + Len(v)) :
             t[k] = IF k <= Len(u) THEN u[k] ELSE v[k - Len(u)]
    <3>1. u \in Seq(Values) /\ v \in Seq(Values)
      BY <1>2, <1>3
    <3> QED
      BY <3>1, ConcatProperties
  <2>2. Len(u) + Len(v) = i - len
    BY <1>0, <1>2, <1>3
  <2> QED
    BY <1>2, <2>1, <2>2
<1> HIDE DEF t
<1>7. ASSUME NEW k \in 1..(i - len) PROVE e.d[k - 1] = t[k]
  <2>1. k - 1 \in 0..(n - 1)
    BY <1>0
  <2>2. CASE k <= pos
    <3>1. k \in 1..i /\ ~((k - 1) - pos + 1 \in 1..(i - (pos + len)))
      BY <1>0, <2>2
    <3>2. e.d[k - 1] = b.d[k - 1]
      BY <1>4, <2>1, <3>1
    <3>3. t[k] = s[k]
      BY <1>2, <1>6, <2>2
    <3> QED
      BY <1>1, <3>1, <3>2, <3>3
  <2>3. CASE ~(k <= pos)
    <3>1. (k - 1) - pos + 1 = k - pos /\ k - pos \in 1..(i - (pos + len))
      BY <1>0, <2>3
    <3> QED
      BY <1>4, <1>6, <2>1, <2>3, <3>1
  <2> QED
    BY <2>2, <2>3
<1>8. Contents(c) = t
  <2>1. /\ Contents(c) \in Seq(Values) /\ Len(Contents(c)) = i - len
        /\ \A k \in 1..(i - len) : Contents(c)[k] = e.d[k - 1]
    BY <1>5, ContentsProperties
  <2> QED
    BY <1>6, <1>7, <2>1, SeqEqual
<1> QED
  BY <1>5, <1>8 DEF c, e, i, n, t, u, v, s, utarray_erase


\* Positions past the end are filled before they are used.
LEMMA ResizedProperties ==
  ASSUME NEW b, Shaped(b), NEW num \in Nat, b.i < num
  PROVE  LET c == utarray_resize(b, num) IN
         /\ Shaped(c) /\ c.i = num
         /\ Contents(c) = Contents(b) \o Zeros(num - b.i)
         /\ Sized(b) /\ num <= MaxLen => Sized(c)
<1> DEFINE by == num - b.i
           w  == Zeros(by)
           e  == utarray_reserve(b, by)
           c  == Longer(Copied(e, b.i, w), by)
<1>1. by \in Nat /\ b.i + by = num
  BY DEF Shaped
<1>2. w \in Seq(Values) /\ Len(w) = by
  BY <1>1 DEF Zeros, Values
<1> HIDE DEF by, w
<1>3. /\ Shaped(e) /\ e.i = b.i /\ b.i + by <= e.n /\ Contents(e) = Contents(b)
      /\ Sized(b) /\ num <= MaxLen => Sized(e)
  BY <1>1, ReserveProperties
<1> HIDE DEF e
<1>4. c = Longer(Copied(e, e.i, w), Len(w)) /\ e.i + Len(w) <= e.n
  BY <1>2, <1>3
<1> HIDE DEF c
<1>5. /\ Shaped(c) /\ c.i = e.i + Len(w) /\ c.n = e.n
      /\ Contents(c) = Contents(e) \o w
  BY <1>2, <1>3, <1>4, AppendedProperties
<1>6. c = utarray_resize(b, num)
  BY DEF utarray_resize, c, by, w, e
<1>7. w = Zeros(num - b.i)
  BY DEF w, by
<1>8. Sized(e) => Sized(c)
  BY <1>5 DEF Sized
<1> QED
  BY <1>1, <1>2, <1>3, <1>5, <1>6, <1>7, <1>8

LEMMA PaddedProperties ==
  ASSUME NEW b, Shaped(b), NEW num \in Nat
  PROVE  LET c == IF num > b.i THEN utarray_resize(b, num) ELSE b IN
         /\ Shaped(c) /\ c.i = IF num > b.i THEN num ELSE b.i
         /\ Contents(c) = Contents(b) \o Zeros(num - b.i)
         /\ Sized(b) /\ num <= MaxLen => Sized(c)
<1>1. b.i \in Nat
  BY DEF Shaped
<1>2. CASE num > b.i
  BY <1>1, <1>2, ResizedProperties
<1>3. CASE ~(num > b.i)
  <2>1. Zeros(num - b.i) = <<>>
    BY <1>1, <1>3 DEF Zeros
  <2>2. Contents(b) \in Seq(Values)
    BY ContentsProperties
  <2>3. Contents(b) \o <<>> = Contents(b)
    BY <2>2, ConcatEmptySeq
  <2> QED
    BY <1>3, <2>1, <2>3
<1> QED
  BY <1>2, <1>3

\* Elements dropped from the end.
LEMMA ShortenedProperties ==
  ASSUME NEW b, Shaped(b), NEW num \in 0..b.i
  PROVE  LET c == [b EXCEPT !.i = num] IN
         /\ Shaped(c) /\ c.i = num /\ c.n = b.n
         /\ Contents(c) = SubSeq(Contents(b), 1, num)
<1> DEFINE c == [b EXCEPT !.i = num]
           s == Contents(b)
           t == SubSeq(s, 1, num)
<1>1. b.i \in Nat /\ b.n \in Nat /\ b.i <= b.n /\ num \in Nat /\ num <= b.i
  BY DEF Shaped
<1>2. c = Longer(b, num - b.i)
  BY <1>1 DEF Longer, Shaped
<1> HIDE DEF c
<1>3. Shaped(c) /\ c.i = num /\ c.n = b.n /\ c.d = b.d
  <2>1. num - b.i \in Int /\ b.i + (num - b.i) = num /\ num \in 0..b.n
    BY <1>1
  <2>2. \A k \in b.i..(b.i + (num - b.i) - 1) : b.d[k] \in Values
    BY <1>1
  <2> QED
    BY <1>2, <2>1, <2>2, LongerProperties
<1>4. /\ s \in Seq(Values) /\ Len(s) = b.i
      /\ \A k \in 1..b.i : s[k] = b.d[k - 1] /\ s[k] \in Values
  BY ContentsProperties
<1>5. /\ Contents(c) \in Seq(Values) /\ Len(Contents(c)) = num
      /\ \A k \in 1..num : Contents(c)[k] = b.d[k - 1]
  BY <1>3, ContentsProperties
<1> HIDE DEF s
<1>6. /\ t \in Seq(Values) /\ Len(t) = num
      /\ \A k \in 1..num : t[k] = s[k]
  <2>1. \A k \in 1..num : s[k] \in Values
    BY <1>1, <1>4
  <2>2. 1 \in Int /\ num \in Int
    BY <1>1
  <2>3. /\ t \in Seq(Values) /\ Len(t) = IF 1 <= num THEN num - 1 + 1 ELSE 0
        /\ \A k \in 1..(num - 1 + 1) : t[k] = s[1 + k - 1]
    BY <2>1, <2>2, SubSeqProperties
  <2> HIDE DEF t
  <2> QED
    BY <1>1, <2>3
<1> HIDE DEF t
<1>7. \A k \in 1..num : Contents(c)[k] = t[k]
  <2>1. \A k \in 1..num : k \in 1..b.i
    BY <1>1
  <2> QED
    BY <1>4, <1>5, <1>6, <2>1
<1>8. Contents(c) = t
  BY <1>5, <1>6, <1>7, SeqEqual
<1> QED
  BY <1>3, <1>8 DEF c, t, s


\* What utarray_inserta and utarray_insert have in common.
Inserted(b, w, j) ==
  LET p == IF j > b.i THEN utarray_resize(b, j) ELSE b
      e == utarray_reserve(p, Len(w))
  IN  Longer(Copied(Moved(e, j + Len(w), j), j, w), Len(w))

LEMMA InsertedProperties ==
  ASSUME NEW b, Shaped(b), NEW w \in Seq(Values), NEW j \in Nat
  PROVE  LET c == Inserted(b, w, j) IN
         /\ Shaped(c)
         /\ Contents(c) = Spliced(Contents(b) \o Zeros(j - b.i), w, j)
         /\ Sized(b) /\ c.i <= MaxLen => Sized(c)
<1> DEFINE p == IF j > b.i THEN utarray_resize(b, j) ELSE b
           e == utarray_reserve(p, Len(w))
           c == Longer(Copied(Moved(e, j + Len(w), j), j, w), Len(w))
<1>1. b.i \in Nat /\ Len(w) \in Nat /\ MaxLen \in Nat /\ w \in Seq(Values)
  BY UtArrayAssumption DEF Shaped
<1>2. /\ Shaped(p) /\ p.i = (IF j > b.i THEN j ELSE b.i)
      /\ Contents(p) = Contents(b) \o Zeros(j - b.i)
      /\ Sized(b) /\ j <= MaxLen => Sized(p)
  BY PaddedProperties
<1> HIDE DEF p
<1>3. /\ Shaped(e) /\ e.i = p.i /\ p.i + Len(w) <= e.n /\ Contents(e) = Contents(p)
      /\ Sized(p) /\ p.i + Len(w) <= MaxLen => Sized(e)
  BY <1>1, <1>2, ReserveProperties
<1> HIDE DEF e
<1>4. /\ Shaped(c) /\ c.i = e.i + Len(w) /\ c.n = e.n
      /\ Contents(c) = Spliced(Contents(e), w, j)
  <2>1. j \in 0..e.i /\ e.i + Len(w) <= e.n
    BY <1>1, <1>2, <1>3
  <2> QED
    BY <1>1, <1>3, <2>1, SplicedProperties
<1> HIDE DEF c
<1>5. Sized(b) /\ c.i <= MaxLen => Sized(c)
  <2> SUFFICES ASSUME Sized(b), c.i <= MaxLen PROVE Sized(c)
    OBVIOUS
  <2>1. p.i + Len(w) <= MaxLen /\ j <= MaxLen
    BY <1>1, <1>2, <1>3, <1>4
  <2> QED
    BY <1>2, <1>3, <1>4, <2>1 DEF Sized
<1>6. Contents(c) = Spliced(Contents(b) \o Zeros(j - b.i), w, j)
  BY <1>2, <1>3, <1>4
<1> QED
  BY <1>4, <1>5, <1>6 DEF Inserted, c, e, p

LEMMA PushedProperties ==
  ASSUME NEW b, Shaped(b), NEW x \in Values
  PROVE  LET e == utarray_reserve(b, 1)
             c == Longer(Copied(e, e.i, <<x>>), 1)
         IN  /\ Shaped(c) /\ Contents(c) = Append(Contents(b), x)
             /\ Sized(b) /\ c.i <= MaxLen => Sized(c)
<1> DEFINE e == utarray_reserve(b, 1)
           w == <<x>>
           c == Longer(Copied(e, e.i, w), 1)
<1>1. b.i \in Nat /\ 1 \in Nat /\ w \in Seq(Values) /\ Len(w) = 1
  BY DEF Shaped
<1>2. /\ Shaped(e) /\ e.i = b.i /\ b.i + 1 <= e.n /\ Contents(e) = Contents(b)
      /\ Sized(b) /\ b.i + 1 <= MaxLen => Sized(e)
  BY <1>1, ReserveProperties
<1> HIDE DEF e
<1>3. Contents(b) \o w = Append(Contents(b), x)
  BY ContentsProperties, AppendIsConcat
<1> HIDE DEF w
<1>4. c = Longer(Copied(e, e.i, w), Len(w)) /\ e.i + Len(w) <= e.n
  BY <1>1, <1>2
<1> HIDE DEF c
<1>5. /\ Shaped(c) /\ c.i = e.i + Len(w) /\ c.n = e.n
      /\ Contents(c) = Contents(e) \o w
  BY <1>1, <1>2, <1>4, AppendedProperties
<1>6. Sized(b) /\ c.i <= MaxLen => Sized(c)
  BY <1>1, <1>2, <1>5 DEF Sized
<1> QED
  BY <1>2, <1>3, <1>5, <1>6 DEF c, e, w


-------------------------------------------------------------------------------
(***************************************************************************)
(* delete_from_clientfds, whose loop goes from element to element.         *)
(***************************************************************************)
LEMMA SearchUnfolds ==
  ASSUME NEW b, Shaped(b), NEW fd
  PROVE  \A p \in Nat \cup {NULL}, i \in Nat :
           Search(b, <<p, i>>, fd) = IF p = NULL THEN b
                                  ELSE IF Slot(b, p) = fd THEN utarray_erase(b, i, 1)
                                  ELSE Search(b, <<utarray_next(b, p), i + 1>>, fd)
<1> DEFINE D    == (Nat \cup {NULL}) \X Nat
           erased(i) == utarray_erase(b, i, 1)
           V    == {b} \cup {erased(i) : i \in Nat}
           found(p) == Slot(b, p) = fd
           B    == {at \in D : at[1] = NULL \/ found(at[1])}
           left(p) == IF p = NULL THEN 0 ELSE IF p < b.i THEN b.i - p ELSE 1
           m    == [at \in D |-> left(at[1])]
           base == [at \in D |-> IF at[1] = NULL THEN b ELSE erased(at[2])]
           next(p) == utarray_next(b, p)
           step == [at \in D |-> <<next(at[1]), at[2] + 1>>]
           G    == [x \in D \X V |-> x[2]]
           body(f, at) == IF at[1] = NULL THEN b ELSE IF found(at[1]) THEN erased(at[2])
                          ELSE f[<<next(at[1]), at[2] + 1>>]
           from == CHOOSE f : f = [at \in D |-> body(f, at)]
<1>0. b.i \in Nat /\ NULL \notin Nat
  BY UtArrayAssumption DEF Shaped
<1>1. \A p \in Nat \cup {NULL} : next(p) \in Nat \cup {NULL}
  BY <1>0 DEF utarray_next, utarray_front
<1>2. \A p \in Nat \cup {NULL} : left(p) \in Nat
  BY <1>0
<1>3. \A p \in Nat : left(next(p)) < left(p)
  BY <1>0 DEF utarray_next
<1> HIDE DEF erased, found, left, next
<1>4. Descends(D, V, m, B, base, step, G)
  <2>1. m \in [D -> Nat]
    BY <1>2
  <2>2. base \in [D -> V]
    OBVIOUS
  <2>3. step \in [D -> D]
    <3>1. ASSUME NEW at \in D PROVE <<next(at[1]), at[2] + 1>> \in D
      <4>1. at[1] \in Nat \cup {NULL} /\ at[2] \in Nat
        OBVIOUS
      <4>2. next(at[1]) \in Nat \cup {NULL}
        BY <1>1, <4>1, Zenon
      <4>3. at[2] + 1 \in Nat
        BY <4>1
      <4> QED
        BY <4>2, <4>3
    <3> HIDE DEF D
    <3> QED
      BY <3>1
  <2>4. G \in [D \X V -> V]
    OBVIOUS
  <2>5. \A at \in D \ B : m[step[at]] < m[at]
    <3> TAKE at \in D \ B
    <3>1. at[1] \in Nat /\ at[2] \in Nat
      OBVIOUS
    <3>2. step[at] = <<next(at[1]), at[2] + 1>> /\ step[at] \in D
      BY <1>1, <3>1
    <3>3. m[step[at]] = left(next(at[1])) /\ m[at] = left(at[1])
      BY <3>2
    <3> QED
      BY <1>3, <3>1, <3>3
  <2> HIDE DEF D, V, m, B, base, step, G
  <2> QED
    BY <2>1, <2>2, <2>3, <2>4, <2>5 DEF Descends
<1>5. PICK f \in [D -> V] : Unfolds(f, D, B, base, step, G)
  <2> HIDE DEF D, V, m, B, base, step, G
  <2> QED
    BY <1>4, RecursionDefines, Zenon
<1>6. \A at \in D : f[at] = body(f, at)
  <2> TAKE at \in D
  <2>1. at[1] \in Nat \cup {NULL} /\ at[2] \in Nat
    OBVIOUS
  <2>2. step[at] = <<next(at[1]), at[2] + 1>> /\ step[at] \in D
    <3>1. next(at[1]) \in Nat \cup {NULL}
      BY <1>1, <2>1, Zenon
    <3>2. at[2] + 1 \in Nat
      BY <2>1
    <3> QED
      BY <3>1, <3>2
  <2>3. f[step[at]] \in V /\ <<at, f[step[at]]>> \in D \X V
    BY <2>2
  <2>4. G[<<at, f[step[at]]>>] = f[step[at]]
    BY <2>3
  <2>5. f[at] = IF at \in B THEN base[at] ELSE f[step[at]]
    <3> HIDE DEF G, step, base, B, D, V
    <3> QED
      BY <1>5, <2>4 DEF Unfolds
  <2> QED
    BY <2>2, <2>5
<1>7. f = [at \in D |-> body(f, at)]
  <2> HIDE DEF body, D, V
  <2> QED
    BY <1>6
<1>8. \E g : g = [at \in D |-> body(g, at)]
  BY <1>7, Zenon
<1>9. from = [at \in D |-> body(from, at)]
  <2> HIDE DEF body, D
  <2> QED
    BY <1>8, Zenon
<1>10. \A at : Search(b, at, fd) = from[at]
  BY Zenon DEF Search, found, erased, next
<1> HIDE DEF from
<1> TAKE p \in Nat \cup {NULL}, i \in Nat
<1> DEFINE at == <<p, i>>
<1>11. at \in D /\ at[1] = p /\ at[2] = i
  OBVIOUS
<1> HIDE DEF at
<1>12. from[at] = body(from, at)
  <2> HIDE DEF body, D
  <2> QED
    BY <1>9, <1>11
<1> QED
  BY <1>10, <1>11, <1>12 DEF at, erased, found, next


LEMMA DeletedProperties ==
  ASSUME NEW b, Shaped(b), NEW fd
  PROVE  LET s == Contents(b)
             K == {k \in 1..Len(s) : s[k] = fd}
             c == delete_from_clientfds(b, fd)
         IN  /\ Shaped(c) /\ c.n = b.n
             /\ Contents(c) = IF K # {} THEN RemoveAt(s, Min(K)) ELSE s
<1> DEFINE s == Contents(b)
           K == {k \in 1..Len(s) : s[k] = fd}
           c == delete_from_clientfds(b, fd)
           at(p) == Search(b, <<p, p>>, fd)
<1>1. b.i \in Nat /\ NULL \notin Nat
  BY UtArrayAssumption DEF Shaped
<1>2. /\ s \in Seq(Values) /\ Len(s) = b.i
      /\ \A p \in 0..(b.i - 1) : Slot(b, p) = s[p + 1]
  <2>1. \A p \in 0..(b.i - 1) : p + 1 \in 1..b.i /\ (p + 1) - 1 = p
    BY <1>1
  <2>2. \A k \in 1..b.i : s[k] = Slot(b, k - 1)
    BY <1>1 DEF Contents
  <2> QED
    BY <2>1, <2>2, ContentsProperties
<1>3. \A k : k \in K <=> k \in 1..b.i /\ s[k] = fd
  BY <1>2
<1> HIDE DEF s, K
<1>4. ASSUME NEW p \in 0..(b.i - 1), p + 1 \notin K
      PROVE  at(p) = IF p + 1 < b.i THEN at(p + 1) ELSE b
  <2>1. p \in Nat /\ p # NULL /\ p + 1 \in 1..b.i /\ p + 1 \in Nat
    BY <1>1
  <2>2. Slot(b, p) # fd
    BY <1>2, <1>3, <1>4, <2>1
  <2>3. at(p) = Search(b, <<utarray_next(b, p), p + 1>>, fd)
    BY <1>1, <2>1, <2>2, SearchUnfolds
  <2>4. CASE p + 1 < b.i
    BY <1>1, <2>1, <2>3, <2>4 DEF utarray_next
  <2>5. CASE ~(p + 1 < b.i)
    <3>1. utarray_next(b, p) = NULL
      BY <1>1, <2>1, <2>5 DEF utarray_next
    <3>2. Search(b, <<NULL, p + 1>>, fd) = b
      BY <2>1, SearchUnfolds
    <3> QED
      BY <2>3, <2>5, <3>1, <3>2
  <2> QED
    BY <2>4, <2>5
<1>5. ASSUME NEW q \in 0..(b.i - 1), \A k \in 1..q : k \notin K
      PROVE  at(0) = at(q)
  <2> DEFINE Bad == {p \in 0..q : at(0) # at(p)}
  <2> HIDE DEF at
  <2>1. CASE Bad = {}
    BY <1>1, <2>1
  <2>2. CASE Bad # {}
    <3>1. PICK p \in Bad : \A l \in Bad : p <= l
      <4>1. Bad \subseteq Nat
        BY <1>1
      <4> HIDE DEF Bad
      <4> QED
        BY <2>2, <4>1, SmallestOf
    <3>2. p \in 1..q
      BY <1>1, <3>1
    <3>3. p - 1 \in 0..(b.i - 1) /\ (p - 1) + 1 = p /\ p - 1 \in 0..q /\ ~(p <= p - 1) /\ p < b.i
      BY <1>1, <3>2
    <3>4. at(p - 1) = at(p)
      BY <1>4, <1>5, <3>2, <3>3
    <3> QED
      BY <3>1, <3>3, <3>4
  <2> QED
    BY <2>1, <2>2
<1>6. CASE b.i = 0
  <2>1. c = b
    <3>1. c = Search(b, <<NULL, 0>>, fd)
      BY <1>6 DEF delete_from_clientfds, utarray_front
    <3>2. Search(b, <<NULL, 0>>, fd) = b
      BY SearchUnfolds
    <3> QED
      BY <3>1, <3>2
  <2>2. K = {}
    BY <1>3, <1>6
  <2> QED
    BY <2>1, <2>2 DEF s, K, c
<1>7. CASE b.i # 0
  <2>1. c = at(0) /\ 0 \in 0..(b.i - 1)
    BY <1>1, <1>7 DEF delete_from_clientfds, utarray_front
  <2> HIDE DEF c, at
  <2>2. CASE K = {}
    <3>1. b.i - 1 \in 0..(b.i - 1) /\ ~((b.i - 1) + 1 < b.i)
      BY <1>1, <1>7
    <3>2. at(b.i - 1) = b
      BY <1>4, <2>2, <3>1
    <3>3. at(0) = at(b.i - 1)
      BY <1>5, <2>2, <3>1
    <3>4. c = b
      BY <2>1, <3>2, <3>3
    <3> QED
      BY <2>2, <3>4 DEF s, K, c
  <2>3. CASE K # {}
    <3> DEFINE k == Min(K)
    <3>1. k \in K /\ \A l \in K : k <= l
      <4>1. K \subseteq Nat
        BY <1>1, <1>3
      <4> QED
        BY <2>3, <4>1, FirstOf
    <3> HIDE DEF k
    <3> DEFINE q == k - 1
    <3>2. k \in 1..b.i /\ q \in 0..(b.i - 1) /\ q + 1 = k /\ q \in Nat /\ q # NULL
      BY <1>1, <1>3, <3>1
    <3>3. \A l \in 1..q : l \notin K
      BY <1>1, <3>1, <3>2
    <3>4. Slot(b, q) = fd
      BY <1>2, <1>3, <3>1, <3>2
    <3>5. c = at(q)
      BY <1>5, <2>1, <3>2, <3>3
    <3>6. c = utarray_erase(b, q, 1)
      BY <3>2, <3>4, <3>5, SearchUnfolds DEF at
    <3>7. /\ Shaped(c) /\ c.n = b.n
          /\ Contents(c) = SubSeq(s, 1, q) \o SubSeq(s, q + 1 + 1, b.i)
      <4>1. 1 \in Nat /\ q + 1 <= b.i
        BY <1>1, <3>2
      <4> HIDE DEF q
      <4> QED
        BY <3>2, <3>6, <4>1, ErasedProperties DEF s
    <3>8. SubSeq(s, 1, q) \o SubSeq(s, q + 1 + 1, b.i) = RemoveAt(s, k)
      BY <1>2, <3>2 DEF RemoveAt
    <3>9. Contents(c) = RemoveAt(s, k)
      BY <3>7, <3>8
    <3> QED
      BY <2>3, <3>7, <3>9 DEF s, K, c, k
  <2> QED
    BY <2>2, <2>3
<1> QED
  BY <1>6, <1>7


-------------------------------------------------------------------------------
(***************************************************************************)
(* Every call leaves the array in order and is a call of the list.         *)
(***************************************************************************)
LEMMA CallKeeps ==
  ASSUME NEW r, Shaped(r), r.i <= MaxLen => Sized(r), NEW o, Call(o, r)
  PROVE  ArrayInv' /\ List!Call(o, Contents(r))
<1>1. a' = r /\ op' = o /\ r.i <= MaxLen
  BY DEF Call
<1>2. ArrayInv'
  BY <1>1 DEF ArrayInv, Shaped, Sized
<1>3. Contents(a)' = Contents(r)
  BY <1>1 DEF Contents, Slot
<1>4. Len(Contents(r)) <= MaxLen
  BY <1>1, ContentsProperties
<1> QED
  BY <1>1, <1>2, <1>3, <1>4 DEF List!Call

LEMMA NewIsShaped == Shaped(NewArray) /\ Sized(NewArray) /\ Contents(NewArray) = <<>>
<1>1. NewArray.i = 0 /\ NewArray.n = 0 /\ NewArray.d = <<>>
  BY DEF NewArray
<1>2. <<>> \in [0..(0 - 1) -> Memory]
  OBVIOUS
<1>3. Shaped(NewArray)
  BY <1>1, <1>2 DEF Shaped, NewArray
<1>4. Sized(NewArray)
  BY <1>1, UtArrayAssumption DEF Sized, Sizes
<1>5. Contents(NewArray) = <<>>
  BY <1>1 DEF Contents
<1> QED
  BY <1>3, <1>4, <1>5

LEMMA UtArrayInit == Init => ArrayInv /\ List!Init
BY NewIsShaped DEF Init, ArrayInv, List!Init

LEMMA ShrinkKeeps ==
  ASSUME ArrayInv, Shrink
  PROVE  ArrayInv' /\ List!Next
<1> DEFINE s == Contents(a)
<1>0. /\ Shaped(a) /\ Sized(a) /\ a.i \in Nat
      /\ s \in Seq(Values) /\ Len(s) = a.i
  BY ContentsProperties DEF ArrayInv, Shaped
<1>1. CASE a.i > 0 /\ Call(<<"pop_back">>, utarray_pop_back(a))
  <2> DEFINE r == utarray_pop_back(a)
             b == [a EXCEPT !.i = a.i - 1]
  <2>1. a.i - 1 \in 0..a.i /\ s # <<>>
    BY <1>0, <1>1
  <2>2. r = b
    BY <1>0 DEF utarray_pop_back, Longer, Shaped
  <2> HIDE DEF r
  <2>3. Shaped(r) /\ r.n = a.n /\ Contents(r) = SubSeq(s, 1, a.i - 1)
    BY <1>0, <2>1, <2>2, ShortenedProperties
  <2>4. Contents(r) = List!Front(s)
    BY <1>0, <2>3 DEF List!Front
  <2>5. r.i <= MaxLen => Sized(r)
    BY <1>0, <2>3 DEF Sized
  <2>6. ArrayInv' /\ List!Call(<<"pop_back">>, Contents(r))
    BY <1>1, <2>3, <2>5, CallKeeps DEF r
  <2>7. List!pop_back
    BY <2>1, <2>4, <2>6 DEF List!pop_back
  <2> QED
    BY <2>6, <2>7 DEF List!Next
<1>2. CASE Call(<<"clear">>, utarray_clear(a))
  <2> DEFINE r == utarray_clear(a)
  <2>1. r = [a EXCEPT !.i = 0] /\ 0 \in 0..a.i
    BY <1>0 DEF utarray_clear
  <2> HIDE DEF r
  <2>2. Shaped(r) /\ r.n = a.n /\ Contents(r) = SubSeq(s, 1, 0)
    BY <1>0, <2>1, ShortenedProperties
  <2>3. Contents(r) = <<>>
    BY <2>2, SubSeqEmpty
  <2>4. r.i <= MaxLen => Sized(r)
    BY <1>0, <2>2 DEF Sized
  <2>5. ArrayInv' /\ List!Call(<<"clear">>, Contents(r))
    BY <1>2, <2>2, <2>4, CallKeeps DEF r
  <2>6. List!clear
    BY <2>3, <2>5 DEF List!clear
  <2> QED
    BY <2>5, <2>6 DEF List!Next
<1>3. ASSUME NEW pos \in 0..MaxLen, NEW len \in 0..MaxLen, pos + len <= a.i,
             Call(<<"erase", pos, len>>, utarray_erase(a, pos, len))
      PROVE  ArrayInv' /\ List!Next
  <2> DEFINE r == utarray_erase(a, pos, len)
             t == SubSeq(s, 1, pos) \o SubSeq(s, pos + len + 1, a.i)
  <2>1. Shaped(r) /\ r.n = a.n /\ Contents(r) = t
    <3>1. pos \in Nat /\ len \in Nat
      OBVIOUS
    <3> HIDE DEF s
    <3> QED
      BY <1>0, <1>3, <3>1, ErasedProperties DEF s
  <2> HIDE DEF r
  <2>2. r.i <= MaxLen => Sized(r)
    BY <1>0, <2>1 DEF Sized
  <2>3. ArrayInv' /\ List!Call(<<"erase", pos, len>>, Contents(r))
    BY <1>3, <2>1, <2>2, CallKeeps DEF r
  <2>4. List!erase(pos, len)
    BY <1>0, <1>3, <2>1, <2>3 DEF List!erase
  <2> QED
    BY <2>3, <2>4 DEF List!Next
<1>4. ASSUME NEW fd \in Descriptors, Call(<<"delete", fd>>, delete_from_clientfds(a, fd))
      PROVE  ArrayInv' /\ List!Next
  <2> DEFINE r == delete_from_clientfds(a, fd)
             K == {k \in 1..Len(s) : s[k] = fd}
             first == IF K # {} THEN Min(K) ELSE 0
  <2>1. /\ Shaped(r) /\ r.n = a.n
        /\ Contents(r) = IF K # {} THEN RemoveAt(s, Min(K)) ELSE s
    BY <1>0, DeletedProperties
  <2> HIDE DEF r
  <2>2. r.i <= MaxLen => Sized(r)
    BY <1>0, <2>1 DEF Sized
  <2>3. ArrayInv' /\ List!Call(<<"delete", fd>>, Contents(r))
    BY <1>4, <2>1, <2>2, CallKeeps DEF r
  <2>4. K # {} => Min(K) # 0
    <3>1. K \subseteq Nat /\ 0 \notin K
      BY <1>0
    <3> HIDE DEF K
    <3> QED
      BY <3>1, FirstOf
  <2>5. Contents(r) = IF first = 0 THEN s ELSE RemoveAt(s, first)
    <3> HIDE DEF K, s
    <3> QED
      BY <2>1, <2>4
  <2>6. first = List!SelectInSeq(s, LAMBDA y : y = fd)
    BY DEF List!SelectInSeq, List!Min, Min
  <2>7. List!delete_from_clientfds(fd)
    <3> HIDE DEF first, s
    <3> QED
      BY <2>3, <2>5, <2>6 DEF List!delete_from_clientfds, List!RemoveAt, RemoveAt, s
  <2> QED
    BY <2>3, <2>7 DEF List!Next
<1> QED
  BY <1>1, <1>2, <1>3, <1>4 DEF Shrink


LEMMA InsertaKeeps ==
  ASSUME ArrayInv, NEW w \in Seq(Values), NEW j \in Nat
  PROVE  LET s == Contents(a)
             r == utarray_inserta(a, w, j)
         IN  /\ Shaped(r) /\ (r.i <= MaxLen => Sized(r))
             /\ Contents(r) = IF w = <<>> THEN s
                              ELSE SubSeq(List!Padded(j), 1, j) \o w
                                   \o SubSeq(s, j + 1, Len(s))
             /\ j = a.i => Contents(r) = s \o w
<1> DEFINE s == Contents(a)
           r == utarray_inserta(a, w, j)
           p == s \o Zeros(j - a.i)
<1>0. /\ Shaped(a) /\ Sized(a) /\ a.i \in Nat
      /\ s \in Seq(Values) /\ Len(s) = a.i
  BY ContentsProperties DEF ArrayInv, Shaped
<1>1. CASE w = <<>>
  <2>1. r = a
    BY <1>1 DEF utarray_inserta
  <2>2. s \o w = s
    BY <1>0, <1>1, ConcatEmptySeq
  <2> QED
    BY <1>0, <1>1, <2>1, <2>2
<1>2. CASE w # <<>>
  <2>1. r = Inserted(a, w, j)
    BY <1>2 DEF Inserted, utarray_inserta
  <2>2. /\ Shaped(r) /\ (r.i <= MaxLen => Sized(r))
        /\ Contents(r) = Spliced(p, w, j)
    BY <1>0, <2>1, InsertedProperties
  <2>3. p = List!Padded(j)
    BY <1>0 DEF List!Padded, Zeros
  <2>4. p \in Seq(Values) /\ (j <= a.i => p = s) /\ (j > a.i => Len(p) = j)
    <3> DEFINE z == Zeros(j - a.i)
    <3>1. /\ z \in Seq(Values) /\ (j <= a.i => z = <<>>)
          /\ j > a.i => Len(z) = j - a.i
      BY <1>0 DEF Zeros, Values
    <3> HIDE DEF z, s
    <3>2. s \o z \in Seq(Values) /\ Len(s \o z) = Len(s) + Len(z) /\ s \o <<>> = s
      BY <1>0, <3>1, ConcatProperties, ConcatEmptySeq
    <3>3. (j <= a.i => s \o z = s) /\ (j > a.i => Len(s \o z) = j)
      BY <1>0, <3>1, <3>2
    <3> QED
      BY <3>2, <3>3 DEF z
  <2> HIDE DEF p, r, s
  <2>5. SubSeq(p, j + 1, Len(p)) = SubSeq(s, j + 1, Len(s))
    <3>1. CASE j <= a.i
      BY <2>4, <3>1
    <3>2. CASE ~(j <= a.i)
      <4>1. Len(p) < j + 1 /\ Len(s) < j + 1 /\ Len(p) \in Int /\ Len(s) \in Int
        BY <1>0, <2>4, <3>2
      <4> QED
        BY <4>1, SubSeqEmpty
    <3> QED
      BY <3>1, <3>2
  <2>6. Contents(r) = SubSeq(p, 1, j) \o w \o SubSeq(s, j + 1, Len(s))
    BY <2>2, <2>5 DEF Spliced
  <2>7. j = a.i => Contents(r) = s \o w
    <3> SUFFICES ASSUME j = a.i PROVE Contents(r) = s \o w
      OBVIOUS
    <3>1. SubSeq(p, 1, j) = s
      <4>1. p = s /\ j = Len(s)
        BY <1>0, <2>4
      <4>2. SubSeq(s, 1, Len(s)) = s
        BY <1>0, SubSeqFull
      <4> QED
        BY <4>1, <4>2
    <3>2. SubSeq(s, j + 1, Len(s)) = <<>>
      BY <1>0, SubSeqEmpty
    <3>3. s \o w \in Seq(Values)
      BY <1>0, ConcatProperties
    <3>4. (s \o w) \o <<>> = s \o w
      BY <3>3, ConcatEmptySeq
    <3> QED
      BY <2>6, <3>1, <3>2, <3>4
  <2> QED
    BY <1>2, <2>2, <2>3, <2>6, <2>7 DEF r, s
<1> QED
  BY <1>1, <1>2


LEMMA GrowKeeps ==
  ASSUME ArrayInv, Grow
  PROVE  ArrayInv' /\ List!Next
<1> DEFINE s == Contents(a)
           p(j) == s \o Zeros(j - a.i)
<1>0. /\ Shaped(a) /\ Sized(a) /\ a.i \in Nat
      /\ s \in Seq(Values) /\ Len(s) = a.i
  BY ContentsProperties DEF ArrayInv, Shaped
<1>1. ASSUME NEW x \in Descriptors, Call(<<"push_back", x>>, utarray_push_back(a, x))
      PROVE  ArrayInv' /\ List!Next
  <2> DEFINE r == utarray_push_back(a, x)
  <2>1. Shaped(r) /\ Contents(r) = Append(s, x) /\ (r.i <= MaxLen => Sized(r))
    <3>1. x \in Values
      BY DEF Values
    <3> QED
      BY <1>0, <3>1, PushedProperties DEF utarray_push_back
  <2> HIDE DEF r
  <2>2. ArrayInv' /\ List!Call(<<"push_back", x>>, Contents(r))
    BY <1>1, <2>1, CallKeeps DEF r
  <2>3. List!push_back(x)
    BY <2>1, <2>2 DEF List!push_back
  <2> QED
    BY <2>2, <2>3 DEF List!Next
<1>2. CASE Call(<<"extend_back">>, utarray_extend_back(a))
  <2> DEFINE r == utarray_extend_back(a)
  <2>1. Shaped(r) /\ Contents(r) = Append(s, 0) /\ (r.i <= MaxLen => Sized(r))
    <3>1. 0 \in Values
      BY DEF Values
    <3> QED
      BY <1>0, <3>1, PushedProperties DEF utarray_extend_back
  <2> HIDE DEF r
  <2>2. ArrayInv' /\ List!Call(<<"extend_back">>, Contents(r))
    BY <1>2, <2>1, CallKeeps DEF r
  <2>3. List!extend_back
    BY <2>1, <2>2 DEF List!extend_back
  <2> QED
    BY <2>2, <2>3 DEF List!Next
<1>3. ASSUME NEW x \in Descriptors, NEW j \in 0..MaxLen,
             Call(<<"insert", x, j>>, utarray_insert(a, x, j))
      PROVE  ArrayInv' /\ List!Next
  <2> DEFINE r == utarray_insert(a, x, j)
             w == <<x>>
  <2>0. j \in Nat /\ w \in Seq(Values) /\ Len(w) = 1
    BY DEF Values
  <2>1. r = Inserted(a, w, j)
    BY <2>0 DEF utarray_insert, Inserted
  <2> HIDE DEF r, w
  <2>2. Shaped(r) /\ Contents(r) = Spliced(p(j), w, j) /\ (r.i <= MaxLen => Sized(r))
    BY <1>0, <2>0, <2>1, InsertedProperties
  <2>3. ArrayInv' /\ List!Call(<<"insert", x, j>>, Contents(r))
    BY <1>3, <2>2, CallKeeps DEF r
  <2>4. p(j) = List!Padded(j)
    BY <1>0 DEF List!Padded, Zeros
  <2> HIDE DEF p
  <2>5. Contents(r) = List!InsertAt(List!Padded(j), j + 1, x)
    <3>1. (j + 1) - 1 = j
      BY <2>0
    <3> QED
      BY <2>2, <2>4, <3>1 DEF List!InsertAt, Spliced, w
  <2>6. List!insert(x, j)
    BY <2>3, <2>5 DEF List!insert
  <2> QED
    BY <2>3, <2>6 DEF List!Next
<1>4. ASSUME NEW j \in 0..MaxLen, Call(<<"resize", j>>, utarray_resize(a, j))
      PROVE  ArrayInv' /\ List!Next
  <2> DEFINE r == utarray_resize(a, j)
  <2>0. j \in Nat /\ j <= MaxLen
    BY UtArrayAssumption
  <2>1. p(j) = List!Padded(j)
    BY <1>0 DEF List!Padded, Zeros
  <2>2. Shaped(r) /\ Sized(r) /\ Contents(r) = SubSeq(List!Padded(j), 1, j)
    <3>1. CASE a.i < j
      <4>1. Shaped(r) /\ r.i = j /\ Contents(r) = p(j) /\ Sized(r)
        BY <1>0, <2>0, <3>1, ResizedProperties
      <4> HIDE DEF r
      <4>2. Contents(r) \in Seq(Values) /\ Len(Contents(r)) = j
        BY <4>1, ContentsProperties
      <4>3. SubSeq(Contents(r), 1, Len(Contents(r))) = Contents(r)
        BY <4>2, SubSeqFull
      <4> QED
        BY <2>1, <4>1, <4>2, <4>3
    <3>2. CASE ~(a.i < j)
      <4>1. r = [a EXCEPT !.i = j] /\ j \in 0..a.i
        BY <1>0, <2>0, <3>2 DEF utarray_resize
      <4> HIDE DEF r
      <4>2. Shaped(r) /\ r.n = a.n /\ Contents(r) = SubSeq(s, 1, j)
        BY <1>0, <4>1, ShortenedProperties
      <4>3. Zeros(j - a.i) = <<>>
        BY <1>0, <2>0, <3>2 DEF Zeros
      <4>4. p(j) = s
        BY <1>0, <4>3, ConcatEmptySeq
      <4> QED
        BY <1>0, <2>1, <4>2, <4>4 DEF Sized
    <3> QED
      BY <3>1, <3>2
  <2> HIDE DEF r
  <2>3. ArrayInv' /\ List!Call(<<"resize", j>>, Contents(r))
    BY <1>4, <2>2, CallKeeps DEF r
  <2>4. List!resize(j)
    BY <2>2, <2>3 DEF List!resize
  <2> QED
    BY <2>3, <2>4 DEF List!Next
<1>5. ASSUME NEW w \in List!Words,
             \/ Call(<<"concat", w>>, utarray_concat(a, w))
             \/ \E j \in 0..MaxLen : Call(<<"inserta", w, j>>, utarray_inserta(a, w, j))
      PROVE  ArrayInv' /\ List!Next
  <2>1. w \in Seq(Values)
    <3>1. PICK k \in 0..2 : w \in [1..k -> Descriptors]
      BY DEF List!Words
    <3> QED
      BY <3>1 DEF Values
  <2>2. CASE Call(<<"concat", w>>, utarray_concat(a, w))
    <3> DEFINE r == utarray_inserta(a, w, a.i)
    <3>1. utarray_concat(a, w) = r
      BY DEF utarray_concat
    <3>2. Shaped(r) /\ (r.i <= MaxLen => Sized(r)) /\ Contents(r) = s \o w
      BY <1>0, <2>1, InsertaKeeps
    <3> HIDE DEF r
    <3>3. ArrayInv' /\ List!Call(<<"concat", w>>, Contents(r))
      BY <2>2, <3>1, <3>2, CallKeeps
    <3>4. List!concat(w)
      BY <3>2, <3>3 DEF List!concat
    <3> QED
      BY <3>3, <3>4 DEF List!Next
  <2>3. ASSUME NEW j \in 0..MaxLen, Call(<<"inserta", w, j>>, utarray_inserta(a, w, j))
        PROVE  ArrayInv' /\ List!Next
    <3> DEFINE r == utarray_inserta(a, w, j)
    <3>1. /\ Shaped(r) /\ (r.i <= MaxLen => Sized(r))
          /\ Contents(r) = IF w = <<>> THEN s
                           ELSE SubSeq(List!Padded(j), 1, j) \o w \o SubSeq(s, j + 1, Len(s))
      <4>1. j \in Nat
        OBVIOUS
      <4> HIDE DEF s
      <4> QED
        BY <2>1, <4>1, InsertaKeeps DEF s
    <3> HIDE DEF r
    <3>2. ArrayInv' /\ List!Call(<<"inserta", w, j>>, Contents(r))
      BY <2>3, <3>1, CallKeeps DEF r
    <3>3. List!inserta(w, j)
      BY <3>1, <3>2 DEF List!inserta
    <3> QED
      BY <3>2, <3>3 DEF List!Next
  <2> QED
    BY <1>5, <2>2, <2>3
<1> QED
  BY <1>1, <1>2, <1>3, <1>4, <1>5 DEF Grow


LEMMA UtArrayStep ==
  ArrayInv /\ [Next]_vars => ArrayInv' /\ [List!Next]_<<Contents(a), op>>
<1> SUFFICES ASSUME ArrayInv, [Next]_vars
             PROVE  ArrayInv' /\ [List!Next]_<<Contents(a), op>>
  OBVIOUS
<1>1. CASE Renew
  <2>1. ArrayInv' /\ List!Call(<<"new">>, Contents(NewArray))
    BY <1>1, NewIsShaped, CallKeeps DEF Renew
  <2> QED
    BY <2>1, NewIsShaped DEF List!Next, List!new
<1>2. CASE Shrink
  BY <1>2, ShrinkKeeps
<1>3. CASE Grow
  BY <1>3, GrowKeeps
<1>4. CASE UNCHANGED vars
  BY <1>4 DEF vars, ArrayInv, Shaped, Sized, Contents, Slot
<1> QED
  BY <1>1, <1>2, <1>3, <1>4 DEF Next

\* Whatever calls are made, the array is in order: what is said of one call above
\* holds of every call.
THEOREM UtArrayInvariant == Spec => []ArrayInv
<1> QED
  BY UtArrayInit, UtArrayStep, PTL DEF Spec

\* The elements lie in slots that were allocated and written, and the slots grow by
\* doubling, no further than the longest array asked for.
THEOREM UtArrayTyped == Spec => []UtArrayTypeOK
<1>1. ArrayInv => UtArrayTypeOK
  <2> SUFFICES ASSUME ArrayInv PROVE UtArrayTypeOK
    OBVIOUS
  <2>1. /\ a.i \in Nat /\ a.n \in Nat /\ a.i <= a.n
        /\ DOMAIN a.d = 0..(a.n - 1) /\ a.n < 2 * MaxLen + InitialSlots
    BY DEF ArrayInv, Shaped, Sized
  <2>2. a.n \in {0} \cup {Doublings[k] : k \in 0..MaxLen}
    <3>1. CASE a.n = 0
      BY <3>1
    <3>2. CASE a.n # 0
      <4>1. PICK k \in Nat : a.n = Doublings[k]
        BY <3>2 DEF ArrayInv, Sized, Sizes
      <4>2. a.n >= InitialSlots + 2 * k - 1
        BY <4>1, DoublingsGrow
      <4>3. k \in 0..MaxLen
        BY <2>1, <4>2, UtArrayAssumption
      <4> QED
        BY <4>1, <4>3
    <3> QED
      BY <3>1, <3>2
  <2>3. \A k \in 1..a.i : Contents(a)[k] \in Descriptors \cup {0}
    BY ContentsProperties DEF ArrayInv, Values
  <2> QED
    BY <2>1, <2>2, <2>3 DEF UtArrayTypeOK
<1> QED
  BY <1>1, UtArrayInvariant, PTL

\* Every call does to the contents what the list's callers take it for.
THEOREM UtArrayIsFdList == Spec => ImplementsFdList
<1> QED
  BY UtArrayInit, UtArrayStep, UtArrayInvariant, PTL
     DEF Spec, ImplementsFdList, List!Spec



-------------------------------------------------------------------------------
(***************************************************************************)
(* handleServer's loop, which deletes from the array it walks.             *)
(***************************************************************************)
Pointers == Nat \cup {NULL}
Arrays == [i : Nat, n : Nat, d : UNION {[0..(n - 1) -> Memory] : n \in Nat}]
Walks == {w \in [left : Arrays, seen : Seq(Memory), p : Pointers] : Shaped(w.left)}

LEMMA ShapedIsArray ==
  ASSUME NEW b, Shaped(b)
  PROVE  b \in Arrays /\ utarray_front(b) \in Pointers
<1>1. b.i \in Nat /\ b.n \in Nat /\ b = [i |-> b.i, n |-> b.n, d |-> b.d]
  BY DEF Shaped
<1>2. b.d \in UNION {[0..(n - 1) -> Memory] : n \in Nat}
  BY DEF Shaped
<1> QED
  BY <1>1, <1>2 DEF Arrays, Pointers, utarray_front

\* A turn of the loop leaves an array in order.
LEMMA AnswerTurnType ==
  ASSUME NEW payers, NEW w \in Walks
  PROVE  AnswerTurn(w, payers) \in Walks
<1> DEFINE fd   == Slot(w.left, w.p)
           left == IF fd \in payers THEN delete_from_clientfds(w.left, fd) ELSE w.left
           v    == [left |-> left, seen |-> Append(w.seen, fd), p |-> utarray_next(left, w.p)]
<1>1. Shaped(w.left) /\ w.seen \in Seq(Memory) /\ w.p \in Pointers
  BY DEF Walks
<1>2. fd \in Memory
  BY <1>1 DEF Slot, Shaped, Memory
<1>3. Shaped(left)
  BY <1>1, DeletedProperties
<1>4. AnswerTurn(w, payers) = IF w.p = NULL THEN w ELSE v
  BY DEF AnswerTurn
<1> HIDE DEF left, fd
<1>5. left \in Arrays /\ utarray_next(left, w.p) \in Pointers
  BY <1>1, <1>3, ShapedIsArray DEF utarray_next, utarray_front, Pointers
<1>6. Append(w.seen, fd) \in Seq(Memory)
  BY <1>1, <1>2, AppendProperties
<1>7. v \in Walks
  BY <1>3, <1>5, <1>6 DEF Walks
<1> HIDE DEF v
<1> QED
  BY <1>4, <1>7

\* The loop turn by turn.
LEMMA AnswerLoopUnfolds ==
  ASSUME NEW b, Shaped(b), NEW payers
  PROVE  \A k \in Nat :
           /\ AnswerLoop(b, payers, k) \in Walks
           /\ AnswerLoop(b, payers, k) =
                IF k = 0 THEN [left |-> b, seen |-> <<>>, p |-> utarray_front(b)]
                ELSE AnswerTurn(AnswerLoop(b, payers, k - 1), payers)
<1> DEFINE start == [left |-> b, seen |-> <<>>, p |-> utarray_front(b)]
           turn(w) == AnswerTurn(w, payers)
           body(f, k) == IF k = 0 THEN start ELSE turn(f[k - 1])
           loop == CHOOSE f : f = [k \in Nat |-> body(f, k)]
           V    == Walks
           B    == {0}
           D    == Nat
           m    == [k \in Nat |-> k]
           base == [k \in Nat |-> start]
           step == [k \in Nat |-> IF k = 0 THEN 0 ELSE k - 1]
           G    == [x \in Nat \X V |-> turn(x[2])]
<1>1. start \in V
  <2>1. <<>> \in Seq(Memory)
    OBVIOUS
  <2> QED
    BY <2>1, ShapedIsArray DEF Walks
<1>2. \A w \in V : turn(w) \in V
  BY AnswerTurnType
<1> HIDE DEF start, turn, V
<1>3. Descends(D, V, m, B, base, step, G)
  <2>1. m \in [Nat -> Nat] /\ base \in [Nat -> V] /\ step \in [Nat -> Nat]
    BY <1>1
  <2>2. G \in [Nat \X V -> V]
    BY <1>2
  <2>3. \A x \in Nat \ {0} : m[step[x]] < m[x]
    OBVIOUS
  <2> HIDE DEF m, base, step, G
  <2> QED
    BY <2>1, <2>2, <2>3 DEF Descends
<1>4. PICK f \in [D -> V] : Unfolds(f, D, B, base, step, G)
  <2> HIDE DEF D, B, m, base, step, G
  <2> QED
    BY <1>3, RecursionDefines, Zenon
<1>5. \A k \in Nat : f[k] = body(f, k)
  <2>1. \A k \in Nat \ {0} : k - 1 \in Nat /\ f[k - 1] \in V /\ <<k, f[k - 1]>> \in Nat \X V
    OBVIOUS
  <2> QED
    BY <1>4, <2>1 DEF Unfolds
<1>6. f = [k \in Nat |-> body(f, k)]
  <2> HIDE DEF body, V
  <2> QED
    BY <1>5
<1>7. loop = [k \in Nat |-> body(loop, k)]
  <2> HIDE DEF body
  <2>1. \E g : g = [k \in Nat |-> body(g, k)]
    BY <1>6, Zenon
  <2> QED
    BY <2>1, Zenon
<1>8. \A k : AnswerLoop(b, payers, k) = loop[k]
  BY Zenon DEF AnswerLoop, start, turn
<1> HIDE DEF loop
<1>9. \A k \in Nat : loop[k] = body(loop, k)
  <2> HIDE DEF body
  <2> QED
    BY <1>7
<1> DEFINE Typed == {k \in Nat : loop[k] \in V}
<1>10. 0 \in Typed
  BY <1>1, <1>9
<1>11. ASSUME NEW k \in Nat, k \in Typed PROVE k + 1 \in Typed
  <2>1. k + 1 \in Nat /\ k + 1 # 0 /\ (k + 1) - 1 = k /\ loop[k] \in V
    BY <1>11
  <2>2. loop[k + 1] = turn(loop[k])
    BY <1>9, <2>1
  <2> QED
    BY <1>2, <2>1, <2>2
<1> HIDE DEF Typed
<1>12. \A k \in Nat : k \in Typed
  BY <1>10, <1>11, EveryNumber
<1> QED
  BY <1>8, <1>9, <1>12 DEF Typed, V, start, turn

\* Of different elements, taking one out leaves the others.
LEMMA RemovedOne ==
  ASSUME NEW S, NEW s \in Seq(S), IsInjective(s), NEW i \in 1..Len(s)
  PROVE  /\ IsInjective(RemoveAt(s, i))
         /\ ToSet(RemoveAt(s, i)) = ToSet(s) \ {s[i]}
<1> DEFINE t == RemoveAt(s, i)
           n == Len(s)
<1>1. /\ n \in Nat /\ t \in Seq(S) /\ Len(t) = n - 1
      /\ \A k \in 1..(n - 1) : t[k] = IF k < i THEN s[k] ELSE s[k + 1]
  BY RemoveAtProperties
<1>2. \A j, k \in 1..n : s[j] = s[k] => j = k
  BY DEF IsInjective
<1>3. DOMAIN t = 1..(n - 1) /\ DOMAIN s = 1..n /\ i \in 1..n
  BY <1>1
<1> HIDE DEF t, n
<1>4. IsInjective(t)
  <2>1. ASSUME NEW j \in 1..(n - 1), NEW k \in 1..(n - 1), t[j] = t[k] PROVE j = k
    <3> DEFINE at(x) == IF x < i THEN x ELSE x + 1
    <3>1. at(j) \in 1..n /\ at(k) \in 1..n /\ (at(j) = at(k) => j = k)
      BY <1>1, <1>3
    <3>2. t[j] = s[at(j)] /\ t[k] = s[at(k)]
      BY <1>1
    <3> HIDE DEF at
    <3> QED
      BY <1>2, <2>1, <3>1, <3>2
  <2> QED
    BY <1>3, <2>1 DEF IsInjective
<1>5. ToSet(t) \subseteq ToSet(s) \ {s[i]}
  <2>1. ASSUME NEW k \in 1..(n - 1) PROVE \E j \in 1..n : j # i /\ t[k] = s[j]
    <3>1. k \in 1..n /\ k + 1 \in 1..n
      BY <1>1
    <3>2. t[k] = IF k < i THEN s[k] ELSE s[k + 1]
      BY <1>1
    <3> QED
      BY <1>1, <1>3, <3>1, <3>2
  <2> QED
    BY <1>2, <1>3, <2>1 DEF ToSet
<1>6. ToSet(s) \ {s[i]} \subseteq ToSet(t)
  <2>1. ASSUME NEW j \in 1..n, j # i PROVE \E k \in 1..(n - 1) : t[k] = s[j]
    <3>1. CASE j < i
      BY <1>1, <1>3, <3>1
    <3>2. CASE ~(j < i)
      <4>1. j - 1 \in 1..(n - 1) /\ ~(j - 1 < i) /\ (j - 1) + 1 = j
        BY <1>1, <1>3, <2>1, <3>2
      <4> QED
        BY <1>1, <4>1
    <3> QED
      BY <3>1, <3>2
  <2> QED
    BY <1>3, <2>1 DEF ToSet
<1> QED
  BY <1>4, <1>5, <1>6 DEF t

\* One more at the end.
LEMMA AddedOne ==
  ASSUME NEW S, NEW s \in Seq(S), NEW x \in S
  PROVE  /\ ToSet(Append(s, x)) = ToSet(s) \cup {x}
         /\ IsInjective(s) /\ x \notin ToSet(s) => IsInjective(Append(s, x))
<1> DEFINE t == Append(s, x)
           n == Len(s)
<1>1. /\ n \in Nat /\ t \in Seq(S) /\ Len(t) = n + 1 /\ t[n + 1] = x
      /\ \A k \in 1..n : t[k] = s[k]
  BY AppendProperties
<1>2. DOMAIN t = 1..(n + 1) /\ DOMAIN s = 1..n
  BY <1>1
<1> HIDE DEF t, n
<1>3. \A k \in 1..(n + 1) : k \in 1..n \/ k = n + 1
  BY <1>1
<1>4. \A k \in 1..n : k \in 1..(n + 1)
  BY <1>1
<1>5. n + 1 \in 1..(n + 1)
  BY <1>1
<1>6. ToSet(t) = ToSet(s) \cup {x}
  BY <1>1, <1>2, <1>3, <1>4, <1>5 DEF ToSet
<1>7. ASSUME IsInjective(s), x \notin ToSet(s) PROVE IsInjective(t)
  BY <1>1, <1>2, <1>3, <1>7 DEF IsInjective, ToSet
<1> QED
  BY <1>6, <1>7 DEF t

(***************************************************************************)
(* After k turns over C: what is left behind the entries visited is what   *)
(* stood there at first, further along by as many as were taken out; and   *)
(* whoever was passed over so far stood behind one who was answered.       *)
(***************************************************************************)
Answering(C, payers, k, w) ==
  LET L == Contents(w.left)
      n == Len(L)
      m == Len(w.seen)
      r == Len(C) - n
      answered == ToSet(w.seen) \cap payers
  IN  /\ w \in Walks /\ r \in Nat
      /\ w.p = IF m < n THEN m ELSE NULL
      /\ k <= m \/ n <= m
      /\ IsInjective(w.seen) /\ IsInjective(L)
      /\ \A x \in ToSet(w.seen) : \E j \in 1..Len(C) : j <= m + r /\ x = C[j]
      /\ \A j \in 1..n : j > m => L[j] = C[j + r]
      /\ ToSet(L) = ToSet(C) \ answered
      /\ \A j \in 1..Len(C) :
           j <= m + r /\ C[j] \notin ToSet(w.seen) => j > 1 /\ C[j - 1] \in answered

LEMMA AnswerStart ==
  ASSUME NEW b, Shaped(b), IsInjective(Contents(b)), NEW payers
  PROVE  Answering(Contents(b), payers, 0, AnswerLoop(b, payers, 0))
<1> DEFINE w == AnswerLoop(b, payers, 0)
           C == Contents(b)
<1>1. w \in Walks /\ w = [left |-> b, seen |-> <<>>, p |-> utarray_front(b)]
  BY AnswerLoopUnfolds
<1>2. Len(C) = b.i /\ b.i \in Nat /\ C \in Seq(Values)
  BY ContentsProperties DEF Shaped
<1> HIDE DEF w
<1>3. w.left = b /\ w.seen = <<>> /\ w.p = utarray_front(b)
  BY <1>1
<1>4. ToSet(w.seen) = {} /\ Len(w.seen) = 0 /\ IsInjective(w.seen)
  BY <1>3 DEF ToSet, IsInjective
<1>5. w.p = IF 0 < Len(C) THEN 0 ELSE NULL
  BY <1>2, <1>3 DEF utarray_front
<1> HIDE DEF C
<1>6. /\ Len(C) - Len(C) = 0 /\ 0 + 0 = 0 /\ 0 <= 0
      /\ \A j \in 1..Len(C) : j + 0 = j /\ ~(j <= 0)
  BY <1>2
<1>7. Contents(w.left) = C /\ IsInjective(C)
  BY <1>3 DEF C
<1> QED
  BY <1>1, <1>4, <1>5, <1>6, <1>7 DEF Answering, w, C

\* A turn deletes the entry it is at, if that one pays.
LEMMA AnswerTurnDoes ==
  ASSUME NEW payers, NEW w \in Walks, NEW p \in Nat, w.p = p, p < w.left.i,
         IsInjective(Contents(w.left))
  PROVE  LET L == Contents(w.left)
             v == AnswerTurn(w, payers)
             x == L[p + 1]
         IN  /\ v.seen = Append(w.seen, x)
             /\ Contents(v.left) = IF x \in payers THEN RemoveAt(L, p + 1) ELSE L
             /\ v.p = IF p + 1 < v.left.i THEN p + 1 ELSE NULL
<1> DEFINE L    == Contents(w.left)
           x    == L[p + 1]
           K    == {k \in 1..Len(L) : L[k] = x}
           gone == delete_from_clientfds(w.left, x)
           left == IF x \in payers THEN gone ELSE w.left
           v    == AnswerTurn(w, payers)
<1>0. Shaped(w.left) /\ w.left.i \in Nat /\ p # NULL /\ p + 1 \in 1..w.left.i
  BY UtArrayAssumption DEF Walks, Shaped
<1>1. L \in Seq(Values) /\ Len(L) = w.left.i /\ DOMAIN L = 1..w.left.i
  BY <1>0, ContentsProperties
<1>2. Slot(w.left, p) = x
  <2>1. (p + 1) - 1 = p
    OBVIOUS
  <2> QED
    BY <1>0, <2>1 DEF Contents
<1>3. v = [left |-> left, seen |-> Append(w.seen, x), p |-> utarray_next(left, p)]
  BY <1>0, <1>2 DEF AnswerTurn
<1>4. Shaped(gone) /\ Contents(gone) = IF K # {} THEN RemoveAt(L, Min(K)) ELSE L
  BY <1>0, DeletedProperties
<1>5. K # {} /\ Min(K) = p + 1
  <2>1. \A k : k \in K <=> k = p + 1
    BY <1>0, <1>1 DEF IsInjective
  <2>2. K \subseteq Nat /\ K # {}
    BY <2>1
  <2> HIDE DEF K
  <2> QED
    BY <2>1, <2>2, FirstOf
<1> HIDE DEF gone, K, L, x
<1>6. Contents(left) = (IF x \in payers THEN RemoveAt(L, p + 1) ELSE L) /\ Shaped(left)
  BY <1>0, <1>4, <1>5 DEF L
<1> HIDE DEF left, v
<1>7. v.left = left /\ v.seen = Append(w.seen, x) /\ v.p = utarray_next(left, p)
  BY <1>3
<1>8. utarray_next(left, p) = IF p + 1 < left.i THEN p + 1 ELSE NULL
  BY <1>0, <1>6 DEF utarray_next, Shaped
<1> QED
  BY <1>6, <1>7, <1>8 DEF L, x, v

LEMMA AnswerStep ==
  ASSUME NEW S, NEW C \in Seq(S), IsInjective(C), NEW payers, NEW k \in Nat, NEW w,
         Answering(C, payers, k, w)
  PROVE  Answering(C, payers, k + 1, AnswerTurn(w, payers))
<1> DEFINE L  == Contents(w.left)
           n  == Len(L)
           m  == Len(w.seen)
           r  == Len(C) - n
           answered == ToSet(w.seen) \cap payers
           v  == AnswerTurn(w, payers)
           x  == L[m + 1]
           q  == m + 1 + r
<1>1. /\ w \in Walks /\ r \in Nat
      /\ w.p = IF m < n THEN m ELSE NULL
      /\ k <= m \/ n <= m
      /\ IsInjective(w.seen) /\ IsInjective(L)
      /\ \A y \in ToSet(w.seen) : \E j \in 1..Len(C) : j <= m + r /\ y = C[j]
      /\ \A j \in 1..n : j > m => L[j] = C[j + r]
      /\ ToSet(L) = ToSet(C) \ answered
      /\ \A j \in 1..Len(C) :
           j <= m + r /\ C[j] \notin ToSet(w.seen) => j > 1 /\ C[j - 1] \in answered
  BY DEF Answering
<1>2. /\ Shaped(w.left) /\ w.seen \in Seq(Memory) /\ L \in Seq(Values) /\ n = w.left.i
      /\ n \in Nat /\ m \in Nat /\ Len(C) \in Nat /\ DOMAIN C = 1..Len(C) /\ DOMAIN L = 1..n
  BY <1>1, ContentsProperties DEF Walks, Shaped
<1>3. v \in Walks
  BY <1>1, AnswerTurnType
<1>4. CASE ~(m < n)
  <2>1. w.p = NULL /\ n <= m
    BY <1>1, <1>2, <1>4
  <2>2. v = w
    BY <2>1 DEF AnswerTurn
  <2> HIDE DEF v, L, n, m, r, answered
  <2> QED
    BY <1>1, <2>1, <2>2 DEF Answering, v, L, n, m, r, answered
<1>5. CASE m < n
  <2> DEFINE M  == Contents(v.left)
             n1 == Len(M)
             m1 == Len(v.seen)
             r1 == Len(C) - n1
             answered1 == ToSet(v.seen) \cap payers
             paid == x \in payers
  <2>1. /\ v.seen = Append(w.seen, x)
        /\ M = IF paid THEN RemoveAt(L, m + 1) ELSE L
        /\ v.p = IF m + 1 < v.left.i THEN m + 1 ELSE NULL
    <3>1. w.p = m /\ m < w.left.i
      BY <1>1, <1>2, <1>5
    <3> HIDE DEF m
    <3> QED
      BY <1>1, <1>2, <3>1, AnswerTurnDoes
  <2>2. m + 1 \in 1..n /\ q \in 1..Len(C) /\ x = C[q] /\ x \in Values /\ x \in Memory
    <3>1. m + 1 \in 1..n /\ q \in 1..Len(C)
      <4>1. m \in Nat /\ n \in Nat /\ r \in Nat /\ Len(C) \in Nat /\ m < n
        BY <1>1, <1>2, <1>5
      <4> HIDE DEF m, n
      <4> QED
        BY <4>1
    <3>2. x = C[q] /\ x \in Values
      <4>1. L[m + 1] = C[(m + 1) + r]
        <5>1. m \in Nat /\ m + 1 > m
          BY <1>1, <1>2
        <5>2. \A l \in 1..n : l > m => L[l] = C[l + r]
          BY <1>1
        <5> HIDE DEF m, n, r, L
        <5> QED
          BY <3>1, <5>1, <5>2
      <4>2. x \in Values
        BY <1>2, <3>1, ElementOfSeq
      <4> QED
        BY <4>1, <4>2
    <3> QED
      BY <3>1, <3>2 DEF Memory
  <2>3. n1 = v.left.i /\ n1 \in Nat /\ M \in Seq(Values) /\ DOMAIN M = 1..n1
    <3>1. Shaped(v.left)
      BY <1>3 DEF Walks
    <3> HIDE DEF v
    <3> QED
      BY <3>1, ContentsProperties DEF Shaped
  <2>4. m1 = m + 1 /\ ToSet(v.seen) = ToSet(w.seen) \cup {x}
    BY <1>2, <2>1, <2>2, AppendProperties, AddedOne
  <2>5. x \notin ToSet(w.seen)
    <3>1. \A j \in 1..Len(C) : j <= m + r => j # q
      BY <1>1, <1>2
    <3>2. \A j \in 1..Len(C) : C[j] = C[q] => j = q
      BY <1>2, <2>2 DEF IsInjective
    <3> HIDE DEF x, q, m, r
    <3> QED
      BY <1>1, <2>2, <3>1, <3>2
  <2>6. IsInjective(v.seen)
    BY <1>1, <1>2, <2>1, <2>2, <2>5, AddedOne
  <2>7. /\ n1 = (IF paid THEN n - 1 ELSE n) /\ IsInjective(M)
        /\ ToSet(M) = (IF paid THEN ToSet(L) \ {x} ELSE ToSet(L))
        /\ \A j \in 1..n1 : j > m + 1 => M[j] = IF paid THEN L[j + 1] ELSE L[j]
    <3>1. CASE paid
      <4>1. M = RemoveAt(L, m + 1)
        BY <2>1, <3>1
      <4>2. /\ Len(M) = n - 1 /\ IsInjective(M) /\ ToSet(M) = ToSet(L) \ {x}
            /\ \A j \in 1..(n - 1) : M[j] = IF j < m + 1 THEN L[j] ELSE L[j + 1]
        <5>1. L \in Seq(Values) /\ IsInjective(L) /\ m + 1 \in 1..Len(L) /\ L[m + 1] = x
          BY <1>1, <1>2, <2>2
        <5> HIDE DEF L, M, m, x
        <5> QED
          BY <4>1, <5>1, RemoveAtProperties, RemovedOne
      <4> HIDE DEF M, L, m, x
      <4> QED
        BY <1>2, <3>1, <4>2
    <3>2. CASE ~paid
      BY <1>1, <2>1, <3>2
    <3> QED
      BY <3>1, <3>2
  <2>8. /\ r1 = (IF paid THEN r + 1 ELSE r) /\ r1 \in Nat
        /\ m1 + r1 = (IF paid THEN q + 1 ELSE q)
    <3>1. /\ m \in Nat /\ n \in Nat /\ r \in Nat /\ Len(C) \in Nat /\ n1 \in Nat
          /\ m1 = m + 1 /\ n1 = (IF paid THEN n - 1 ELSE n)
      BY <1>1, <1>2, <2>3, <2>4, <2>7
    <3> HIDE DEF n, m, n1, m1, paid
    <3> QED
      BY <3>1
  <2>9. answered1 = IF paid THEN answered \cup {x} ELSE answered
    BY <2>4
  <2> HIDE DEF v, L, M, n, n1, m, m1, r, r1, x, q, paid, answered, answered1
  <2>10. v.p = IF m1 < n1 THEN m1 ELSE NULL
    BY <2>1, <2>3, <2>4 DEF L, x, m, M, v
  <2>11. k + 1 <= m1 \/ n1 <= m1
    BY <1>1, <1>2, <1>5, <2>4, <2>7
  <2>12. \A y \in ToSet(v.seen) : \E j \in 1..Len(C) : j <= m1 + r1 /\ y = C[j]
    <3>1. \A j \in 1..Len(C) : j <= m + r => j <= m1 + r1
      BY <1>1, <1>2, <2>8 DEF q
    <3>2. q <= m1 + r1
      BY <2>2, <2>8
    <3> QED
      BY <1>1, <2>2, <2>4, <3>1, <3>2
  <2>13. ASSUME NEW j \in 1..n1, j > m1 PROVE M[j] = C[j + r1]
    <3>1. j \in Nat /\ j > m + 1 /\ j > m
      BY <1>2, <2>3, <2>4, <2>13
    <3>2. CASE paid
      <4>1. j + 1 \in 1..n /\ j + 1 > m /\ (j + 1) + r = j + r1
        BY <1>1, <1>2, <2>7, <2>8, <3>1, <3>2
      <4> QED
        BY <1>1, <2>7, <3>1, <3>2, <4>1
    <3>3. CASE ~paid
      BY <1>1, <2>7, <2>8, <3>1, <3>3
    <3> QED
      BY <3>2, <3>3
  <2>14. ToSet(M) = ToSet(C) \ answered1
    BY <1>1, <2>7, <2>9
  <2>15. ASSUME NEW j \in 1..Len(C), j <= m1 + r1, C[j] \notin ToSet(v.seen)
         PROVE  j > 1 /\ C[j - 1] \in answered1
    <3>1. C[j] \notin ToSet(w.seen) /\ j # q
      BY <2>2, <2>4, <2>15
    <3>2. CASE j <= m + r
      BY <1>1, <2>9, <2>15, <3>1, <3>2
    <3>3. CASE ~(j <= m + r)
      <4>1. paid /\ j = q + 1
        <5>1. m \in Nat /\ r \in Nat /\ j \in Nat /\ j # q /\ j <= m1 + r1
          BY <1>1, <1>2, <2>15, <3>1
        <5> QED
          BY <2>8, <3>3, <5>1 DEF q
      <4>2. j > 1 /\ j - 1 = q
        BY <2>2, <4>1
      <4> QED
        BY <2>2, <2>9, <4>1, <4>2
    <3> QED
      BY <3>2, <3>3
  <2> QED
    BY <1>3, <2>6, <2>7, <2>8, <2>10, <2>11, <2>12, <2>13, <2>14, <2>15
       DEF Answering, M, n1, m1, r1, answered1, v
<1> QED
  BY <1>4, <1>5

(***************************************************************************)
(* handleServer's loop comes to its end, answers nobody twice, leaves just *)
(* those it did not answer, and passes over nobody but the one behind one  *)
(* it answered, whatever the array and whoever can pay.                    *)
(***************************************************************************)
THEOREM UtArrayAnswers == Spec => []WaitersAnswered
<1>1. ArrayInv => WaitersAnswered
  <2> SUFFICES ASSUME ArrayInv, NEW payers \in SUBSET Descriptors, IsInjective(Contents(a))
               PROVE  LET C == Contents(a)
                          w == AnswerLoop(a, payers, Len(C))
                          answered == ToSet(w.seen) \cap payers
                      IN  /\ w.p = NULL /\ IsInjective(w.seen)
                          /\ ToSet(Contents(w.left)) = ToSet(C) \ answered
                          /\ \A j \in DOMAIN C :
                               C[j] \notin ToSet(w.seen) => j > 1 /\ C[j - 1] \in answered
    BY Zenon DEF WaitersAnswered
  <2> DEFINE C == Contents(a)
             loop(k) == AnswerLoop(a, payers, k)
             Turned == {k \in Nat : Answering(C, payers, k, loop(k))}
  <2>1. Shaped(a) /\ C \in Seq(Values) /\ Len(C) = a.i /\ a.i \in Nat /\ DOMAIN C = 1..Len(C)
    BY ContentsProperties DEF ArrayInv, Shaped
  <2>2. 0 \in Turned
    BY <2>1, AnswerStart
  <2>3. ASSUME NEW k \in Nat, k \in Turned PROVE k + 1 \in Turned
    <3>1. k + 1 \in Nat /\ k + 1 # 0 /\ (k + 1) - 1 = k
      OBVIOUS
    <3>2. loop(k + 1) = AnswerTurn(loop(k), payers)
      BY <2>1, <3>1, AnswerLoopUnfolds
    <3> HIDE DEF loop, C
    <3>3. Answering(C, payers, k, loop(k))
      BY <2>3
    <3>4. Answering(C, payers, k + 1, AnswerTurn(loop(k), payers))
      BY <2>1, <3>3, AnswerStep DEF C
    <3> QED
      BY <3>1, <3>2, <3>4
  <2> HIDE DEF Turned
  <2>4. Len(C) \in Turned
    BY <2>1, <2>2, <2>3, EveryNumber
  <2> DEFINE w == loop(Len(C))
             n == Len(Contents(w.left))
             m == Len(w.seen)
             r == Len(C) - n
  <2>5. Answering(C, payers, Len(C), w)
    BY <2>4 DEF Turned
  <2> HIDE DEF w, C
  <2>6. n \in Nat /\ m \in Nat /\ r \in Nat /\ Len(C) \in Nat
    <3>1. w \in Walks /\ r \in Nat
      BY <2>5 DEF Answering
    <3>2. Shaped(w.left) /\ w.seen \in Seq(Memory)
      BY <3>1 DEF Walks
    <3> QED
      BY <2>1, <3>1, <3>2, ContentsProperties DEF Shaped
  <2>7. n <= m
    <3>1. Len(C) <= m \/ n <= m
      BY <2>5 DEF Answering
    <3> HIDE DEF n, m
    <3> QED
      BY <2>6, <3>1 DEF r
  <2>8. w.p = NULL
    <3>1. w.p = IF m < n THEN m ELSE NULL
      BY <2>5 DEF Answering
    <3> HIDE DEF n, m
    <3> QED
      BY <2>6, <2>7, <3>1
  <2>9. \A j \in 1..Len(C) : j <= m + r
    <3> HIDE DEF n, m
    <3> QED
      BY <2>6, <2>7 DEF r
  <2> QED
    BY <2>1, <2>5, <2>8, <2>9 DEF Answering, w, C
<1> QED
  BY <1>1, UtArrayInvariant, PTL

===============================================================================
