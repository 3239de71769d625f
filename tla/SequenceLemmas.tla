----------------------------- MODULE SequenceLemmas ----------------------------
(***************************************************************************)
(* What the proofs of several components need of numbers and sequences:    *)
(* the smallest element of a set, the first element a search finds, the    *)
(* sequence that is left when an element was taken out, what a sequence of *)
(* sequences is when it is joined, and loops over a sequence.              *)
(***************************************************************************)
EXTENDS SequencesExt, SequenceTheorems, WellFoundedInduction, TLAPS

\* A set of natural numbers that is not empty has a smallest one.
LEMMA SmallestOf ==
  ASSUME NEW S, S \subseteq Nat, S # {} PROVE \E m \in S : \A k \in S : m <= k
<1> DEFINE R == OpToRel(<, Nat)
<1>1. IsWellFoundedOn(R, Nat)
  BY NatLessThanWellFounded
<1> HIDE DEF R
<1>2. PICK m \in S : \A k \in S : ~(<<k, m>> \in R)
  BY <1>1, WFMin, Zenon
<1>3. \A k, n \in Nat : k < n => <<k, n>> \in R
  BY Zenon DEF R, OpToRel
<1>4. \A k \in S : k \in Nat /\ m \in Nat /\ ~(k < m)
  BY <1>2, <1>3
<1> QED
  BY <1>4

\* What SelectInSeq makes of the positions where its test holds.
LEMMA FirstOf ==
  ASSUME NEW S, S \subseteq Nat, S # {}
  PROVE  Min(S) \in S /\ \A k \in S : Min(S) <= k
BY SmallestOf DEF Min

\* RemoveAt closes the gap.
LEMMA RemoveAtProperties ==
  ASSUME NEW S, NEW s \in Seq(S), NEW i \in 1..Len(s)
  PROVE  /\ RemoveAt(s, i) \in Seq(S)
         /\ Len(RemoveAt(s, i)) = Len(s) - 1
         /\ \A k \in 1..(Len(s) - 1) :
              RemoveAt(s, i)[k] = IF k < i THEN s[k] ELSE s[k + 1]
<1> DEFINE before == SubSeq(s, 1, i - 1)
           after  == SubSeq(s, i + 1, Len(s))
<1>0. Len(s) \in Nat /\ \A k \in 1..Len(s) : s[k] \in S
  BY ElementOfSeq
<1>1. /\ before \in Seq(S) /\ Len(before) = i - 1
      /\ \A k \in 1..(i - 1) : before[k] = s[k]
  BY <1>0, SubSeqProperties
<1>2. /\ after \in Seq(S) /\ Len(after) = Len(s) - i
      /\ \A k \in 1..(Len(s) - i) : after[k] = s[k + i]
  BY <1>0, SubSeqProperties
<1> HIDE DEF before, after
<1>3. /\ before \o after \in Seq(S)
      /\ Len(before \o after) = Len(s) - 1
      /\ \A k \in 1..(Len(s) - 1) : (before \o after)[k] =
                     IF k <= i - 1 THEN before[k] ELSE after[k - (i - 1)]
  <2>1. /\ before \o after \in Seq(S)
        /\ Len(before \o after) = Len(before) + Len(after)
        /\ \A k \in 1..(Len(before) + Len(after)) : (before \o after)[k] =
                     IF k <= Len(before) THEN before[k] ELSE after[k - Len(before)]
    BY <1>1, <1>2, ConcatProperties
  <2> QED
    BY <1>0, <1>1, <1>2, <2>1
<1>4. RemoveAt(s, i) = before \o after
  BY DEF RemoveAt, before, after
<1> QED
  BY <1>0, <1>1, <1>2, <1>3, <1>4

-------------------------------------------------------------------------------
(***************************************************************************)
(* A function may be defined by recursion on arguments that get smaller,   *)
(* measured by m: by base where the recursion ends, else by G from its     *)
(* value for the next argument.                                            *)
(***************************************************************************)
Descends(D, V, m, B, base, step, G) ==
  /\ m \in [D -> Nat] /\ base \in [D -> V] /\ step \in [D -> D] /\ G \in [D \X V -> V]
  /\ \A x \in D \ B : m[step[x]] < m[x]

Unfolds(f, D, B, base, step, G) ==
  \A x \in D : f[x] = IF x \in B THEN base[x] ELSE G[<<x, f[step[x]]>>]

\* A function that recurs to smaller arguments is defined everywhere.
LEMMA RecursionDefines ==
  \A D, V, m, B, base, step, G :
    Descends(D, V, m, B, base, step, G) => \E f \in [D -> V] : Unfolds(f, D, B, base, step, G)
<1> SUFFICES ASSUME NEW D, NEW V, NEW m, NEW B, NEW base, NEW step, NEW G,
                    Descends(D, V, m, B, base, step, G)
             PROVE  \E f \in [D -> V] : Unfolds(f, D, B, base, step, G)
  BY Zenon
<1> USE DEF Descends, Unfolds
<1> DEFINE Below(k) == {x \in D : m[x] < k}
           Rec(g, S) == \A x \in S : g[x] = IF x \in B THEN base[x] ELSE G[<<x, g[step[x]]>>]
           Defined(k) == \E g \in [Below(k) -> V] : Rec(g, Below(k))
<1>1. Defined(0)
  <2>1. Below(0) = {}
    OBVIOUS
  <2>2. [x \in {} |-> base[x]] \in [{} -> V]
    OBVIOUS
  <2> QED
    BY <2>1, <2>2
<1>2. ASSUME NEW k \in Nat, Defined(k) PROVE Defined(k + 1)
  <2>1. PICK g \in [Below(k) -> V] : Rec(g, Below(k))
    BY <1>2
  <2> DEFINE here(x) == IF x \in B THEN base[x] ELSE G[<<x, g[step[x]]>>]
             h == [x \in Below(k + 1) |-> IF x \in Below(k) THEN g[x] ELSE here(x)]
  <2>2. /\ Below(k) \subseteq Below(k + 1)
        /\ \A x \in Below(k + 1) : x \in D /\ (x \notin B => step[x] \in Below(k))
    OBVIOUS
  <2> HIDE DEF Below
  <2>3. \A x \in Below(k + 1) : here(x) \in V
    <3>1. \A x \in Below(k + 1) : x \notin B => <<x, g[step[x]]>> \in D \X V
      BY <2>2
    <3> QED
      BY <2>2, <3>1
  <2>4. h \in [Below(k + 1) -> V]
    <3> HIDE DEF here
    <3> QED
      BY <2>3
  <2>5. \A x \in Below(k + 1) : h[x] = here(x)
    BY <2>1
  <2>6. \A x \in Below(k + 1) : x \notin B => h[step[x]] = g[step[x]]
    BY <2>2
  <2>7. Rec(h, Below(k + 1))
    <3> HIDE DEF h
    <3> QED
      BY <2>5, <2>6
  <2> HIDE DEF h, Rec
  <2> QED
    BY <2>4, <2>7
<1> HIDE DEF Defined
<1>3. \A k \in Nat : Defined(k)
  <2> DEFINE Bad == {k \in Nat : ~Defined(k)}
  <2> SUFFICES ASSUME Bad # {} PROVE FALSE
    OBVIOUS
  <2>1. PICK k \in Bad : \A l \in Bad : k <= l
    BY SmallestOf
  <2>2. k \in Nat /\ k # 0
    BY <1>1
  <2>3. k - 1 \in Nat /\ k - 1 \notin Bad
    BY <2>1, <2>2
  <2>4. Defined((k - 1) + 1)
    BY <1>2, <2>3
  <2>5. (k - 1) + 1 = k
    BY <2>2
  <2> QED
    BY <2>4, <2>5
<1>4. ASSUME NEW k \in Nat, NEW l \in Nat, k <= l, NEW g, NEW h,
             Rec(g, Below(k)), Rec(h, Below(l)), NEW x \in Below(k)
      PROVE  g[x] = h[x]
  <2> DEFINE Bad == {n \in Nat : \E y \in Below(k) : m[y] = n /\ g[y] # h[y]}
  <2>1. CASE Bad = {}
    <3>1. m[x] \in Nat
      OBVIOUS
    <3> QED
      BY <2>1, <3>1
  <2>2. CASE Bad # {}
    <3>1. PICK n \in Bad : \A j \in Bad : n <= j
      BY <2>2, SmallestOf
    <3>2. PICK y \in Below(k) : m[y] = n /\ g[y] # h[y]
      BY <3>1
    <3>3. /\ y \in D /\ y \in Below(l)
          /\ y \notin B => /\ step[y] \in Below(k) /\ m[step[y]] \in Nat
                           /\ ~(n <= m[step[y]])
      BY <1>4, <3>2
    <3> HIDE DEF Below
    <3>4. y \notin B
      BY <1>4, <3>2, <3>3
    <3>5. g[step[y]] = h[step[y]]
      BY <3>1, <3>3, <3>4
    <3> QED
      BY <1>4, <3>2, <3>3, <3>4, <3>5
  <2> QED
    BY <2>1, <2>2
<1> DEFINE pick(k) == CHOOSE g \in [Below(k) -> V] : Rec(g, Below(k))
           f == [x \in D |-> pick(m[x] + 1)[x]]
<1>5. ASSUME NEW k \in Nat PROVE pick(k) \in [Below(k) -> V] /\ Rec(pick(k), Below(k))
  <2>1. \E g \in [Below(k) -> V] : Rec(g, Below(k))
    BY <1>3 DEF Defined
  <2> HIDE DEF Rec, Below
  <2> QED
    BY <2>1
<1> HIDE DEF pick
<1>6. \A x \in D : x \in Below(m[x] + 1) /\ m[x] + 1 \in Nat
  OBVIOUS
<1>7. f \in [D -> V]
  <2>1. \A x \in D : pick(m[x] + 1) \in [Below(m[x] + 1) -> V]
    BY <1>5, <1>6
  <2>2. \A x \in D : pick(m[x] + 1)[x] \in V
    BY <1>6, <2>1
  <2> QED
    BY <2>2
<1>8. ASSUME NEW x \in D, x \notin B PROVE f[step[x]] = pick(m[x] + 1)[step[x]]
  <2>1. /\ step[x] \in D /\ m[step[x]] + 1 \in Nat /\ m[x] + 1 \in Nat
        /\ m[step[x]] + 1 <= m[x] + 1 /\ step[x] \in Below(m[step[x]] + 1)
    BY <1>8
  <2>2. /\ Rec(pick(m[step[x]] + 1), Below(m[step[x]] + 1))
        /\ Rec(pick(m[x] + 1), Below(m[x] + 1))
    BY <1>5, <2>1
  <2> HIDE DEF Rec, Below
  <2>3. pick(m[step[x]] + 1)[step[x]] = pick(m[x] + 1)[step[x]]
    BY <1>4, <2>1, <2>2
  <2> QED
    BY <2>1, <2>3
<1>9. ASSUME NEW x \in D
      PROVE  f[x] = IF x \in B THEN base[x] ELSE G[<<x, f[step[x]]>>]
  <2>1. f[x] = pick(m[x] + 1)[x]
    OBVIOUS
  <2>2. pick(m[x] + 1)[x] = IF x \in B THEN base[x]
                            ELSE G[<<x, pick(m[x] + 1)[step[x]]>>]
    <3>1. Rec(pick(m[x] + 1), Below(m[x] + 1)) /\ x \in Below(m[x] + 1)
      BY <1>5, <1>6
    <3> HIDE DEF Below
    <3> QED
      BY <3>1
  <2> HIDE DEF f
  <2> QED
    BY <1>8, <2>1, <2>2
<1> HIDE DEF f
<1> QED
  BY <1>7, <1>9

\* Induction, with the set of the numbers that have the property.
LEMMA EveryNumber ==
  ASSUME NEW S, 0 \in S, \A n \in Nat : n \in S => n + 1 \in S
  PROVE  \A n \in Nat : n \in S
<1> DEFINE Bad == Nat \ S
<1> SUFFICES ASSUME Bad # {} PROVE FALSE
  OBVIOUS
<1>1. PICK k \in Bad : \A l \in Bad : k <= l
  BY SmallestOf
<1>2. k \in Nat /\ k # 0
  BY <1>1
<1>3. k - 1 \in Nat /\ k - 1 \in S
  BY <1>1, <1>2
<1>4. (k - 1) + 1 \in S
  BY <1>3
<1>5. (k - 1) + 1 = k
  BY <1>2
<1> QED
  BY <1>1, <1>4, <1>5

-------------------------------------------------------------------------------
(***************************************************************************)
(* A loop over 1..n that carries a value: from first, each turn makes the  *)
(* next value of the one before it.                                        *)
(***************************************************************************)
Loops(f, n, first, turn) ==
  f = [k \in 0..n |-> IF k = 0 THEN first ELSE turn[<<k, f[k - 1]>>]]

\* So is a loop, turn by turn.
LEMMA LoopDefines ==
  ASSUME NEW V, NEW n \in Nat, NEW first \in V, NEW turn \in [(1..n) \X V -> V]
  PROVE  \E f \in [0..n -> V] : Loops(f, n, first, turn)
<1> DEFINE D    == 0..n
           m    == [k \in D |-> k]
           base == [k \in D |-> first]
           step == [k \in D |-> IF k = 0 THEN 0 ELSE k - 1]
           G    == [x \in D \X V |-> IF x[1] = 0 THEN first ELSE turn[<<x[1], x[2]>>]]
<1>1. Descends(D, V, m, {0}, base, step, G)
  <2>1. m \in [D -> Nat] /\ base \in [D -> V] /\ step \in [D -> D]
    OBVIOUS
  <2>2. G \in [D \X V -> V]
    <3> SUFFICES ASSUME NEW k \in D, NEW v \in V
                 PROVE  (IF k = 0 THEN first ELSE turn[<<k, v>>]) \in V
      OBVIOUS
    <3>1. k # 0 => <<k, v>> \in (1..n) \X V
      OBVIOUS
    <3> QED
      BY <3>1
  <2>3. \A k \in D \ {0} : m[step[k]] < m[k]
    OBVIOUS
  <2> QED
    BY <2>1, <2>2, <2>3 DEF Descends
<1>2. /\ \A k \in D : k = 0 => base[k] = first
      /\ \A k \in D, v \in V : k # 0 => G[<<k, v>>] = turn[<<k, v>>] /\ step[k] = k - 1 /\ k - 1 \in D
  OBVIOUS
<1> HIDE DEF m, base, step, G
<1>3. PICK f \in [D -> V] : Unfolds(f, D, {0}, base, step, G)
  BY <1>1, RecursionDefines, Zenon
<1>4. \A k \in D : f[k] = IF k = 0 THEN first ELSE turn[<<k, f[k - 1]>>]
  <2> SUFFICES ASSUME NEW k \in D
               PROVE  f[k] = IF k = 0 THEN first ELSE turn[<<k, f[k - 1]>>]
    OBVIOUS
  <2>1. f[k] = IF k \in {0} THEN base[k] ELSE G[<<k, f[step[k]]>>]
    BY <1>3 DEF Unfolds
  <2>2. k # 0 => step[k] = k - 1 /\ f[k - 1] \in V
    BY <1>2, <1>3
  <2>3. k # 0 => G[<<k, f[k - 1]>>] = turn[<<k, f[k - 1]>>]
    BY <1>2, <2>2
  <2> QED
    BY <1>2, <2>1, <2>2, <2>3
<1>5. f = [k \in D |-> IF k = 0 THEN first ELSE turn[<<k, f[k - 1]>>]]
  BY <1>3, <1>4
<1> QED
  BY <1>5 DEF Loops

-------------------------------------------------------------------------------
(***************************************************************************)
(* FlattenSeq joins sequences, one after the other.                        *)
(***************************************************************************)
FlattensTo(f, ss) ==
  /\ f[0] = <<>>
  /\ \A k \in 1..Len(ss) : f[k] = f[k - 1] \o ss[k]

\* FlattenSeq is such a loop.
LEMMA FlattenUnfolds ==
  ASSUME NEW S, NEW ss \in Seq(Seq(S))
  PROVE  \E f \in [0..Len(ss) -> Seq(S)] : FlattensTo(f, ss) /\ FlattenSeq(ss) = f[Len(ss)]
<1> DEFINE n    == Len(ss)
           turn == [x \in (1..n) \X Seq(S) |-> x[2] \o ss[x[1]]]
<1>1. n \in Nat /\ \A k \in 1..n : ss[k] \in Seq(S)
  BY ElementOfSeq
<1>2. <<>> \in Seq(S)
  OBVIOUS
<1>3. turn \in [(1..n) \X Seq(S) -> Seq(S)]
  BY <1>1
<1>4. \A k \in 1..n, v \in Seq(S) : turn[<<k, v>>] = v \o ss[k]
  OBVIOUS
<1> HIDE DEF turn, n
<1>5. PICK f \in [0..n -> Seq(S)] : Loops(f, n, <<>>, turn)
  BY <1>1, <1>2, <1>3, LoopDefines
<1>6. f[0] = <<>> /\ \A k \in 1..n : f[k] = f[k - 1] \o ss[k]
  <2>1. \A k \in 0..n : f[k] = IF k = 0 THEN <<>> ELSE turn[<<k, f[k - 1]>>]
    BY <1>5 DEF Loops
  <2>2. f[0] = <<>>
    <3>1. 0 \in 0..n
      BY <1>1
    <3> QED
      BY <2>1, <3>1, Zenon
  <2>3. ASSUME NEW k \in 1..n PROVE f[k] = f[k - 1] \o ss[k]
    <3>1. k \in 0..n /\ k # 0 /\ f[k - 1] \in Seq(S)
      BY <1>1
    <3>2. f[k] = turn[<<k, f[k - 1]>>]
      BY <2>1, <3>1
    <3> QED
      BY <1>4, <3>1, <3>2
  <2> QED
    BY <2>2, <2>3
<1>7. FlattensTo(f, ss)
  BY <1>6 DEF FlattensTo, n
<1>8. FlattenSeq(ss) = f[n]
  <2>1. CASE n = 0
    <3>1. ss = <<>>
      BY <2>1 DEF n
    <3>2. FlattenSeq(ss) = ss
      BY <2>1 DEF FlattenSeq, n
    <3> QED
      BY <1>6, <2>1, <3>1, <3>2
  <2>2. CASE n # 0
    <3> DEFINE Eqn(g) == g = [i \in 1..n |-> IF i = 1 THEN ss[i] ELSE g[i - 1] \o ss[i]]
               h == CHOOSE g : Eqn(g)
               g0 == [i \in 1..n |-> f[i]]
    <3>1. FlattenSeq(ss) = h[n]
      BY <2>2 DEF FlattenSeq, n
    <3>2. Eqn(g0)
      <4>1. ASSUME NEW i \in 1..n
            PROVE  f[i] = IF i = 1 THEN ss[i] ELSE g0[i - 1] \o ss[i]
        <5>1. CASE i = 1
          <6>1. f[i] = <<>> \o ss[i] /\ ss[i] \in Seq(S)
            <7>1. i - 1 = 0
              BY <5>1
            <7>2. f[i] = f[i - 1] \o ss[i]
              BY <1>6
            <7> QED
              BY <1>1, <1>6, <7>1, <7>2, Zenon
          <6>2. <<>> \o ss[i] = ss[i]
            BY <6>1, ConcatEmptySeq
          <6> QED
            BY <5>1, <6>1, <6>2
        <5>2. CASE i # 1
          <6>1. i - 1 \in 1..n
            BY <1>1, <5>2
          <6>2. g0[i - 1] = f[i - 1]
            BY <6>1
          <6> QED
            BY <1>6, <5>2, <6>2
        <5> QED
          BY <5>1, <5>2
      <4> QED
        BY <4>1
    <3> HIDE DEF g0
    <3>3. Eqn(h)
      <4> HIDE DEF Eqn
      <4> QED
        BY <3>2, Zenon DEF h
    <3> HIDE DEF h
    <3>4. \A i \in 1..n : h[i] = IF i = 1 THEN ss[i] ELSE h[i - 1] \o ss[i]
      BY <3>3
    <3> HIDE DEF Eqn
    <3> DEFINE Same == {i \in Nat : i + 1 \in 1..n => h[i + 1] = f[i + 1]}
    <3>5. 0 \in Same
      <4>1. SUFFICES ASSUME 1 \in 1..n PROVE h[1] = f[1]
        OBVIOUS
      <4>2. h[1] = ss[1] /\ ss[1] \in Seq(S)
        BY <1>1, <3>4, <4>1
      <4>3. f[1] = f[1 - 1] \o ss[1]
        BY <1>6, <4>1
      <4>4. f[1] = <<>> \o ss[1]
        <5>1. 1 - 1 = 0
          OBVIOUS
        <5> QED
          BY <1>6, <4>3, <5>1, Zenon
      <4> QED
        BY <4>2, <4>4, ConcatEmptySeq
    <3>6. ASSUME NEW i \in Nat, i \in Same PROVE i + 1 \in Same
      <4> SUFFICES ASSUME (i + 1) + 1 \in 1..n PROVE h[(i + 1) + 1] = f[(i + 1) + 1]
        OBVIOUS
      <4>1. i + 1 \in 1..n /\ (i + 1) + 1 # 1 /\ ((i + 1) + 1) - 1 = i + 1
        BY <1>1
      <4>2. h[i + 1] = f[i + 1]
        BY <3>6, <4>1
      <4>3. h[(i + 1) + 1] = h[i + 1] \o ss[(i + 1) + 1]
        BY <3>4, <4>1
      <4>4. f[(i + 1) + 1] = f[i + 1] \o ss[(i + 1) + 1]
        BY <1>6, <4>1
      <4> QED
        BY <4>2, <4>3, <4>4
    <3> HIDE DEF Same
    <3>7. n - 1 \in Nat
      BY <1>1, <2>2
    <3>8. n - 1 \in Same
      BY <3>5, <3>6, <3>7, EveryNumber
    <3>9. (n - 1) + 1 = n /\ n \in 1..n
      BY <1>1, <3>7
    <3> QED
      BY <3>1, <3>8, <3>9 DEF Same
  <2> QED
    BY <2>1, <2>2
<1> QED
  BY <1>5, <1>7, <1>8 DEF n

\* To join three sequences is to join them in either order; opaque, where it is cited.
Associative(S) == \A p, q, r \in Seq(S) : (p \o q) \o r = p \o (q \o r)

\* It is so for every set.
LEMMA ConcatIsAssociative == \A S : Associative(S)
<1> SUFFICES ASSUME NEW S, NEW p \in Seq(S), NEW q \in Seq(S), NEW r \in Seq(S)
             PROVE  (p \o q) \o r = p \o (q \o r)
  BY Zenon DEF Associative
<1> QED
  BY ConcatAssociative

\* An element more.
LEMMA OneMore ==
  ASSUME NEW S, NEW s \in Seq(S), NEW e \in S
  PROVE  /\ s \o <<e>> \in Seq(S) /\ Len(s \o <<e>>) = Len(s) + 1
         /\ (s \o <<e>>)[Len(s) + 1] = e
         /\ \A k \in 1..Len(s) : (s \o <<e>>)[k] = s[k]
<1>1. s \o <<e>> = Append(s, e)
  BY AppendIsConcat
<1> QED
  BY <1>1, AppendProperties

\* Induction over sequences, with the set of those that have the property.
LEMMA EverySequence ==
  ASSUME NEW S, NEW P, <<>> \in P,
         \A s \in Seq(S), e \in S : s \in P => s \o <<e>> \in P
  PROVE  \A s \in Seq(S) : s \in P
<1> DEFINE Ok == {n \in Nat : \A s \in Seq(S) : Len(s) = n => s \in P}
<1>1. 0 \in Ok
  <2>1. \A s \in Seq(S) : Len(s) = 0 => s = <<>>
    BY EmptySeq
  <2> QED
    BY <2>1
<1>2. ASSUME NEW n \in Nat, n \in Ok PROVE n + 1 \in Ok
  <2> SUFFICES ASSUME NEW s \in Seq(S), Len(s) = n + 1 PROVE s \in P
    OBVIOUS
  <2> DEFINE r == SubSeq(s, 1, n)
             e == s[n + 1]
  <2>1. n + 1 \in 1..Len(s) /\ n \in 0..Len(s)
    OBVIOUS
  <2>2. e \in S
    BY <2>1, ElementOfSeq
  <2>3. r \in Seq(S) /\ Len(r) = n /\ \A k \in 1..n : r[k] = s[k]
    BY SubSeqProperties
  <2> HIDE DEF r, e
  <2>4. r \o <<e>> = s
    <3>1. <<e>> \in Seq(S) /\ Len(<<e>>) = 1 /\ <<e>>[1] = e
      BY <2>2
    <3>2. /\ r \o <<e>> \in Seq(S) /\ Len(r \o <<e>>) = n + 1
          /\ \A k \in 1..(n + 1) : (r \o <<e>>)[k] = IF k <= n THEN r[k] ELSE <<e>>[k - n]
      BY <2>3, <3>1, ConcatProperties
    <3>3. ASSUME NEW k \in 1..(n + 1) PROVE (r \o <<e>>)[k] = s[k]
      <4>1. CASE k <= n
        BY <2>3, <3>2, <4>1
      <4>2. CASE ~(k <= n)
        <5>1. k = n + 1 /\ k - n = 1
          BY <4>2
        <5> QED
          BY <3>1, <3>2, <4>2, <5>1 DEF e
      <4> QED
        BY <4>1, <4>2
    <3> QED
      BY <3>2, <3>3, SeqEqual
  <2>5. r \in P
    BY <1>2, <2>3
  <2> QED
    BY <2>2, <2>3, <2>4, <2>5
<1> HIDE DEF Ok
<1>3. \A n \in Nat : n \in Ok
  BY <1>1, <1>2, EveryNumber
<1> QED
  BY <1>3, LenProperties DEF Ok

\* What is joined is a sequence, and one part more goes behind it.
LEMMA FlattenProperties ==
  ASSUME NEW S, NEW ss \in Seq(Seq(S)), NEW w \in Seq(S)
  PROVE  /\ FlattenSeq(ss) \in Seq(S)
         /\ ss \o <<w>> \in Seq(Seq(S))
         /\ FlattenSeq(ss \o <<w>>) = FlattenSeq(ss) \o w
<1> DEFINE n == Len(ss)
           t == ss \o <<w>>
<1>0. n \in Nat /\ n \in 0..n
  BY LenProperties
<1>1. PICK f \in [0..n -> Seq(S)] : FlattensTo(f, ss) /\ FlattenSeq(ss) = f[n]
  BY FlattenUnfolds
<1>2. t \in Seq(Seq(S)) /\ Len(t) = n + 1 /\ t[n + 1] = w /\ \A k \in 1..n : t[k] = ss[k]
  <2>1. <<w>> \in Seq(Seq(S)) /\ Len(<<w>>) = 1 /\ <<w>>[1] = w
    OBVIOUS
  <2>2. /\ t \in Seq(Seq(S)) /\ Len(t) = n + 1
        /\ \A k \in 1..(n + 1) : t[k] = IF k <= n THEN ss[k] ELSE <<w>>[k - n]
    BY <2>1, ConcatProperties
  <2>3. (n + 1) - n = 1 /\ n + 1 \in 1..(n + 1) /\ ~(n + 1 <= n)
    BY <1>0
  <2>4. t[n + 1] = w
    BY <2>1, <2>2, <2>3
  <2>5. \A k \in 1..n : t[k] = ss[k]
    BY <1>0, <2>2
  <2> QED
    BY <2>2, <2>4, <2>5
<1> HIDE DEF n, t
<1>3. PICK g \in [0..(n + 1) -> Seq(S)] : FlattensTo(g, t) /\ FlattenSeq(t) = g[n + 1]
  BY <1>2, FlattenUnfolds
<1> DEFINE Same == {k \in Nat : k <= n => g[k] = f[k]}
<1>4. 0 \in Same
  BY <1>1, <1>3 DEF FlattensTo
<1>5. ASSUME NEW k \in Nat, k \in Same PROVE k + 1 \in Same
  <2> SUFFICES ASSUME k + 1 <= n PROVE g[k + 1] = f[k + 1]
    OBVIOUS
  <2>1. k + 1 \in 1..n /\ k + 1 \in 1..(n + 1) /\ (k + 1) - 1 = k /\ k <= n
    BY <1>0
  <2>2. f[k + 1] = f[(k + 1) - 1] \o ss[k + 1]
    BY <1>1, <2>1 DEF FlattensTo, n
  <2>3. g[k + 1] = g[(k + 1) - 1] \o t[k + 1]
    BY <1>2, <1>3, <2>1 DEF FlattensTo
  <2>4. g[k] = f[k]
    BY <1>5, <2>1
  <2>5. t[k + 1] = ss[k + 1]
    BY <1>2, <2>1
  <2> QED
    BY <2>1, <2>2, <2>3, <2>4, <2>5
<1> HIDE DEF Same
<1>6. n \in Same
  BY <1>0, <1>4, <1>5, EveryNumber
<1>7. g[n] = f[n]
  BY <1>0, <1>6 DEF Same
<1>8. g[n + 1] = g[n] \o w
  <2>1. n + 1 \in 1..(n + 1) /\ (n + 1) - 1 = n
    BY <1>0
  <2>2. g[n + 1] = g[(n + 1) - 1] \o t[n + 1]
    BY <1>2, <1>3, <2>1 DEF FlattensTo
  <2> QED
    BY <1>2, <2>1, <2>2
<1>9. f[n] \in Seq(S)
  BY <1>0, <1>1
<1> QED
  BY <1>1, <1>2, <1>3, <1>7, <1>8, <1>9 DEF t

\* Nothing joined is nothing.
LEMMA FlattenEmpty == FlattenSeq(<<>>) = <<>>
BY DEF FlattenSeq

\* What is joined of two parts is what is joined of each.
LEMMA FlattenConcat ==
  ASSUME NEW S, NEW ss \in Seq(Seq(S)), NEW tt \in Seq(Seq(S))
  PROVE  FlattenSeq(ss \o tt) = FlattenSeq(ss) \o FlattenSeq(tt)
<1> DEFINE P == {uu \in Seq(Seq(S)) : FlattenSeq(ss \o uu) = FlattenSeq(ss) \o FlattenSeq(uu)}
<1>1. <<>> \in P
  <2>1. <<>> \in Seq(Seq(S)) /\ ss \o <<>> = ss /\ FlattenSeq(ss) \in Seq(S)
    BY FlattenProperties, ConcatEmptySeq, EmptySeq
  <2>2. FlattenSeq(ss) \o <<>> = FlattenSeq(ss)
    BY <2>1, ConcatEmptySeq
  <2> QED
    BY <2>1, <2>2, FlattenEmpty
<1>2. ASSUME NEW uu \in Seq(Seq(S)), NEW w \in Seq(S), uu \in P PROVE uu \o <<w>> \in P
  <2>1. <<w>> \in Seq(Seq(S)) /\ ss \o uu \in Seq(Seq(S))
    BY ConcatProperties
  <2>2. ss \o (uu \o <<w>>) = (ss \o uu) \o <<w>>
    BY <2>1, ConcatAssociative
  <2>3. FlattenSeq((ss \o uu) \o <<w>>) = FlattenSeq(ss \o uu) \o w
    BY <2>1, FlattenProperties
  <2>4. /\ FlattenSeq(uu \o <<w>>) = FlattenSeq(uu) \o w
        /\ uu \o <<w>> \in Seq(Seq(S))
    BY FlattenProperties
  <2>5. FlattenSeq(ss) \in Seq(S) /\ FlattenSeq(uu) \in Seq(S)
    BY FlattenProperties
  <2>6. (FlattenSeq(ss) \o FlattenSeq(uu)) \o w = FlattenSeq(ss) \o (FlattenSeq(uu) \o w)
    <3>1. Associative(S)
      BY ConcatIsAssociative, Zenon
    <3> QED
      BY <2>5, <3>1, Zenon DEF Associative
  <2> QED
    BY <1>2, <2>2, <2>3, <2>4, <2>6
<1> HIDE DEF P
<1>3. \A uu \in Seq(Seq(S)) : uu \in P
  BY <1>1, <1>2, EverySequence
<1> QED
  BY <1>3 DEF P

\* One part joined is that part.
LEMMA FlattenOne ==
  ASSUME NEW S, NEW w \in Seq(S) PROVE FlattenSeq(<<w>>) = w
<1>1. <<>> \in Seq(Seq(S)) /\ <<w>> \in Seq(Seq(S))
  OBVIOUS
<1>2. <<>> \o <<w>> = <<w>>
  BY <1>1, ConcatEmptySeq
<1>3. FlattenSeq(<<>> \o <<w>>) = <<>> \o w
  BY <1>1, FlattenProperties, FlattenEmpty
<1> QED
  BY <1>2, <1>3, ConcatEmptySeq

\* What is joined of a first and the other parts.
LEMMA FlattenFirst ==
  ASSUME NEW S, NEW w \in Seq(S), NEW ss \in Seq(Seq(S))
  PROVE  FlattenSeq(<<w>> \o ss) = w \o FlattenSeq(ss)
<1>1. <<w>> \in Seq(Seq(S))
  OBVIOUS
<1>2. FlattenSeq(<<w>> \o ss) = FlattenSeq(<<w>>) \o FlattenSeq(ss)
  BY <1>1, FlattenConcat
<1>3. FlattenSeq(<<w>>) = w
  BY FlattenOne
<1> QED
  BY <1>2, <1>3

\* The first elements up to a place, and one more.
LEMMA PrefixProperties ==
  ASSUME NEW S, NEW s \in Seq(S), NEW k \in 0..(Len(s) - 1)
  PROVE  /\ SubSeq(s, 1, k) \in Seq(S) /\ s[k + 1] \in S
         /\ SubSeq(s, 1, k + 1) = SubSeq(s, 1, k) \o <<s[k + 1]>>
<1>1. Len(s) \in Nat /\ k \in Nat
  BY LenProperties
<1>2. k + 1 \in 1..Len(s) /\ k + 1 \in 1..(k + 1) /\ (k + 1) - 1 = k /\ 1 \in 1..Len(s)
  BY <1>1
<1>3. SubSeq(s, 1, k + 1) = SubSeq(s, 1, (k + 1) - 1) \o <<s[k + 1]>>
  <2>1. k + 1 \in 1..Len(s) /\ 1 \in 1..Len(s)
    BY <1>2
  <2> QED
    BY <2>1, SubSeqRecursiveSecond
<1>4. SubSeq(s, 1, k) \in Seq(S)
  BY <1>1, SubSeqProperties
<1> QED
  BY <1>2, <1>3, <1>4, ElementOfSeq

\* The first element as a sequence of its own.
LEMMA FirstElement ==
  ASSUME NEW S, NEW s \in Seq(S), 1 \in 1..Len(s) PROVE SubSeq(s, 1, 1) = <<s[1]>>
<1>1. 0 \in 0..(Len(s) - 1) /\ 0 + 1 = 1 /\ s[1] \in S
  BY LenProperties
<1>2. SubSeq(s, 1, 0 + 1) = SubSeq(s, 1, 0) \o <<s[0 + 1]>>
  BY <1>1, PrefixProperties
<1>3. SubSeq(s, 1, 0) = <<>>
  BY SubSeqEmpty
<1>4. <<s[1]>> \in Seq(S)
  BY <1>1
<1> QED
  BY <1>1, <1>2, <1>3, <1>4, ConcatEmptySeq

\* Every element of a part is an element of what is joined.
LEMMA FlattenContains ==
  ASSUME NEW S, NEW ss \in Seq(Seq(S)), NEW i \in 1..Len(ss), NEW j \in 1..Len(ss[i])
  PROVE  \E k \in 1..Len(FlattenSeq(ss)) : FlattenSeq(ss)[k] = ss[i][j]
<1> DEFINE before == SubSeq(ss, 1, i - 1)
           after  == SubSeq(ss, i + 1, Len(ss))
           b == FlattenSeq(before)
           w == ss[i]
           a == FlattenSeq(after)
<1>1. Len(ss) \in Nat /\ i \in Nat /\ w \in Seq(S)
  BY LenProperties, ElementOfSeq
<1>2. before \in Seq(Seq(S)) /\ after \in Seq(Seq(S))
  BY <1>1, SubSeqProperties
<1>3. ss = (before \o <<w>>) \o after
  <2>1. i - 1 \in 0..(Len(ss) - 1) /\ (i - 1) + 1 = i
    BY <1>1
  <2>2. SubSeq(ss, 1, i) = before \o <<w>>
    BY <2>1, PrefixProperties
  <2>3. SubSeq(ss, 1, i) \o after = SubSeq(ss, 1, Len(ss))
    <3>1. 1 \in 1..(Len(ss) + 1) /\ i \in (1 - 1)..Len(ss) /\ Len(ss) \in i..Len(ss)
      BY <1>1
    <3> QED
      BY <3>1, ConcatAdjacentSubSeq
  <2> QED
    BY <2>2, <2>3, SubSeqFull
<1> HIDE DEF before, after
<1>4. FlattenSeq(ss) = (b \o w) \o a /\ b \in Seq(S) /\ a \in Seq(S)
  <2>1. /\ b \in Seq(S) /\ before \o <<w>> \in Seq(Seq(S))
        /\ FlattenSeq(before \o <<w>>) = b \o w
    BY <1>1, <1>2, FlattenProperties
  <2>2. FlattenSeq((before \o <<w>>) \o after) = FlattenSeq(before \o <<w>>) \o a
    BY <1>2, <2>1, FlattenConcat
  <2> QED
    BY <1>2, <1>3, <2>1, <2>2, FlattenProperties
<1> HIDE DEF b, a, w
<1>5. /\ b \o w \in Seq(S) /\ Len(b \o w) = Len(b) + Len(w)
      /\ Len(b) \in Nat /\ Len(w) \in Nat /\ Len(a) \in Nat
      /\ \A k \in 1..(Len(b) + Len(w)) : (b \o w)[k] = IF k <= Len(b) THEN b[k] ELSE w[k - Len(b)]
  BY <1>1, <1>4, ConcatProperties, LenProperties
<1>6. /\ Len((b \o w) \o a) = Len(b \o w) + Len(a)
      /\ \A k \in 1..(Len(b \o w) + Len(a)) :
           ((b \o w) \o a)[k] = IF k <= Len(b \o w) THEN (b \o w)[k] ELSE a[k - Len(b \o w)]
  BY <1>4, <1>5, ConcatProperties
<1>7. j \in Nat /\ j \in 1..Len(w) /\ w[j] = ss[i][j]
  BY <1>5 DEF w
<1>8. /\ Len(b) + j \in 1..(Len(b) + Len(w)) /\ ~(Len(b) + j <= Len(b))
      /\ (Len(b) + j) - Len(b) = j
      /\ Len(b) + j \in 1..(Len(b \o w) + Len(a)) /\ Len(b) + j <= Len(b \o w)
  BY <1>5, <1>7
<1>9. (b \o w)[Len(b) + j] = w[j]
  BY <1>5, <1>8
<1>10. ((b \o w) \o a)[Len(b) + j] = w[j]
  BY <1>6, <1>8, <1>9
<1> QED
  BY <1>4, <1>6, <1>7, <1>8, <1>10

\* The middle one of three sequences.
LEMMA MiddleOf ==
  ASSUME NEW S, NEW s \in Seq(S), NEW t \in Seq(S), NEW u \in Seq(S)
  PROVE  SubSeq((s \o t) \o u, Len(s) + 1, Len(s) + Len(t)) = t
<1> DEFINE st == s \o t
           a == Len(s)
           b == Len(t)
<1>1. /\ a \in Nat /\ b \in Nat /\ Len(u) \in Nat
      /\ st \in Seq(S) /\ Len(st) = a + b
      /\ \A i \in 1..(a + b) : st[i] = IF i <= a THEN s[i] ELSE t[i - a]
  BY ConcatProperties, LenProperties
<1> DEFINE all == st \o u
<1> HIDE DEF st, a, b
<1>2. /\ all \in Seq(S) /\ Len(all) = (a + b) + Len(u)
      /\ \A i \in 1..((a + b) + Len(u)) : all[i] = IF i <= a + b THEN st[i] ELSE u[i - (a + b)]
  <2>1. /\ all \in Seq(S) /\ Len(all) = Len(st) + Len(u)
        /\ \A i \in 1..(Len(st) + Len(u)) :
             all[i] = IF i <= Len(st) THEN st[i] ELSE u[i - Len(st)]
    BY <1>1, ConcatProperties
  <2> HIDE DEF all
  <2> QED
    BY <1>1, <2>1
<1> HIDE DEF all
<1>3. \A i \in (a + 1)..(a + b) : all[i] \in S
  BY <1>1, <1>2, ElementOfSeq
<1> DEFINE q == SubSeq(all, a + 1, a + b)
<1>4. /\ q \in Seq(S) /\ Len(q) = b
      /\ \A i \in 1..b : q[i] = all[a + i]
  <2>1. a + 1 \in Int /\ a + b \in Int /\ ((a + b) - (a + 1)) + 1 = b
        /\ \A i \in 1..b : ((a + 1) + i) - 1 = a + i
    BY <1>1
  <2>2. /\ q \in Seq(S)
        /\ Len(q) = IF a + 1 <= a + b THEN ((a + b) - (a + 1)) + 1 ELSE 0
        /\ \A i \in 1..(((a + b) - (a + 1)) + 1) : q[i] = all[((a + 1) + i) - 1]
    BY <1>3, <2>1, SubSeqProperties
  <2> HIDE DEF q
  <2>3. Len(q) = b
    <3>1. a + 1 <= a + b => Len(q) = b
      BY <2>1, <2>2
    <3>2. ~(a + 1 <= a + b) => b = 0 /\ Len(q) = 0
      BY <1>1, <2>2
    <3> QED
      BY <3>1, <3>2
  <2> QED
    BY <2>1, <2>2, <2>3
<1> HIDE DEF q
<1>5. \A i \in 1..b : q[i] = t[i]
  <2> SUFFICES ASSUME NEW i \in 1..b PROVE q[i] = t[i]
    OBVIOUS
  <2>1. a + i \in 1..((a + b) + Len(u)) /\ a + i <= a + b /\ a + i \in 1..(a + b)
        /\ ~(a + i <= a) /\ (a + i) - a = i
    BY <1>1
  <2> QED
    BY <1>1, <1>2, <1>4, <2>1
<1>6. q = t
  BY <1>4, <1>5, SeqEqual DEF b
<1> QED
  BY <1>6 DEF q, all, st, a, b

\* The same part of two sequences that agree that far.
LEMMA SamePart ==
  ASSUME NEW S, NEW s \in Seq(S), NEW t \in Seq(S), NEW lo \in Nat \ {0}, NEW hi \in Nat,
         hi <= Len(s), hi <= Len(t), \A k \in 1..hi : s[k] = t[k]
  PROVE  SubSeq(s, lo, hi) = SubSeq(t, lo, hi)
<1> DEFINE p == SubSeq(s, lo, hi)
           q == SubSeq(t, lo, hi)
           n == IF lo <= hi THEN (hi - lo) + 1 ELSE 0
<1>0. Len(s) \in Nat /\ Len(t) \in Nat
  BY LenProperties
<1>1. \A k \in lo..hi : k \in 1..Len(s) /\ k \in 1..Len(t) /\ s[k] \in S /\ t[k] \in S
  BY <1>0, ElementOfSeq
<1>2. lo \in Int /\ hi \in Int
  OBVIOUS
<1>3. /\ p \in Seq(S) /\ Len(p) = n
      /\ \A i \in 1..((hi - lo) + 1) : p[i] = s[(lo + i) - 1]
  BY <1>1, <1>2, SubSeqProperties
<1>4. /\ q \in Seq(S) /\ Len(q) = n
      /\ \A i \in 1..((hi - lo) + 1) : q[i] = t[(lo + i) - 1]
  BY <1>1, <1>2, SubSeqProperties
<1> HIDE DEF p, q
<1>5. \A i \in 1..Len(p) : p[i] = q[i]
  <2> SUFFICES ASSUME NEW i \in 1..Len(p) PROVE p[i] = q[i]
    OBVIOUS
  <2>1. i \in 1..n
    BY <1>3
  <2>2. i \in 1..((hi - lo) + 1) /\ (lo + i) - 1 \in 1..hi
    BY <2>1
  <2> QED
    BY <1>3, <1>4, <2>2
<1>6. p = q
  BY <1>3, <1>4, <1>5, SeqEqual
<1> QED
  BY <1>6 DEF p, q

-------------------------------------------------------------------------------
(***************************************************************************)
(* What a loop over the elements of a sequence makes of v, if each turn is *)
(* a value of G.                                                           *)
(***************************************************************************)
Turns(G, V, S) == G \in [V \X S -> V]

Carried(G, v, s) ==
  LET loop[k \in 0..Len(s)] == IF k = 0 THEN v ELSE G[<<loop[k - 1], s[k]>>]
  IN  loop[Len(s)]

Carries(f, G, v, s) ==
  /\ f[0] = v
  /\ \A k \in 1..Len(s) : f[k] = G[<<f[k - 1], s[k]>>]

\* A loop that carries a state over a sequence, turn by turn.
LEMMA CarriedUnfolds ==
  ASSUME NEW V, NEW S, NEW G, Turns(G, V, S), NEW v \in V, NEW s \in Seq(S)
  PROVE  \E f \in [0..Len(s) -> V] : Carries(f, G, v, s) /\ Carried(G, v, s) = f[Len(s)]
<1> DEFINE n    == Len(s)
           turn == [x \in (1..n) \X V |-> G[<<x[2], s[x[1]]>>]]
<1>1. n \in Nat /\ 0 \in 0..n /\ n \in 0..n /\ \A k \in 1..n : s[k] \in S /\ k - 1 \in 0..n
  BY ElementOfSeq, LenProperties
<1>2. turn \in [(1..n) \X V -> V]
  BY <1>1 DEF Turns
<1>3. \A k \in 1..n, u \in V : turn[<<k, u>>] = G[<<u, s[k]>>]
  OBVIOUS
<1> HIDE DEF turn, n
<1>4. PICK f \in [0..n -> V] : Loops(f, n, v, turn)
  BY <1>1, <1>2, LoopDefines
<1> DEFINE Eqn(g) == g = [k \in 0..n |-> IF k = 0 THEN v ELSE G[<<g[k - 1], s[k]>>]]
           h == CHOOSE g : Eqn(g)
<1>5. Carried(G, v, s) = h[n]
  BY DEF Carried, n
<1>6. Eqn(f)
  <2>1. ASSUME NEW k \in 0..n, k # 0 PROVE turn[<<k, f[k - 1]>>] = G[<<f[k - 1], s[k]>>]
    <3>1. k \in 1..n /\ f[k - 1] \in V
      BY <1>1, <2>1
    <3> QED
      BY <1>3, <3>1
  <2> QED
    BY <1>4, <2>1 DEF Loops
<1>7. Eqn(h)
  <2> HIDE DEF Eqn
  <2> QED
    BY <1>6, Zenon DEF h
<1> HIDE DEF h
<1>8. \A k \in 0..n : h[k] = IF k = 0 THEN v ELSE G[<<h[k - 1], s[k]>>]
  BY <1>7
<1>9. \A k \in 0..n : f[k] = IF k = 0 THEN v ELSE G[<<f[k - 1], s[k]>>]
  BY <1>6
<1> HIDE DEF Eqn
<1> DEFINE Same == {k \in Nat : k <= n => h[k] = f[k]}
<1>10. 0 \in Same
  BY <1>1, <1>8, <1>9
<1>11. ASSUME NEW k \in Nat, k \in Same PROVE k + 1 \in Same
  <2> SUFFICES ASSUME k + 1 <= n PROVE h[k + 1] = f[k + 1]
    OBVIOUS
  <2>1. k + 1 \in 0..n /\ k + 1 # 0 /\ (k + 1) - 1 = k /\ k <= n
    BY <1>1
  <2>2. h[k] = f[k]
    BY <1>11, <2>1
  <2>3. h[k + 1] = G[<<h[(k + 1) - 1], s[k + 1]>>]
    BY <1>8, <2>1
  <2>4. f[k + 1] = G[<<f[(k + 1) - 1], s[k + 1]>>]
    BY <1>9, <2>1
  <2> QED
    BY <2>1, <2>2, <2>3, <2>4
<1> HIDE DEF Same
<1>12. n \in Same
  BY <1>1, <1>10, <1>11, EveryNumber
<1>13. h[n] = f[n]
  BY <1>1, <1>12 DEF Same
<1>14. Carries(f, G, v, s)
  <2>1. f[0] = v
    BY <1>1, <1>9, Zenon
  <2>2. ASSUME NEW k \in 1..n PROVE f[k] = G[<<f[k - 1], s[k]>>]
    <3>1. k \in 0..n /\ k # 0
      BY <1>1
    <3> QED
      BY <1>9, <3>1
  <2> QED
    BY <2>1, <2>2 DEF Carries, n
<1> QED
  BY <1>4, <1>5, <1>13, <1>14 DEF n

\* Over nothing it stays where it is.
LEMMA CarriedEmpty ==
  ASSUME NEW V, NEW S, NEW G, Turns(G, V, S), NEW v \in V
  PROVE  Carried(G, v, <<>>) = v
<1> DEFINE s == <<>>
<1>1. s \in Seq(S) /\ Len(s) = 0
  OBVIOUS
<1> HIDE DEF s
<1>2. PICK f \in [0..Len(s) -> V] : Carries(f, G, v, s) /\ Carried(G, v, s) = f[Len(s)]
  <2>1. \A q \in Seq(S) : \E f \in [0..Len(q) -> V] :
          Carries(f, G, v, q) /\ Carried(G, v, q) = f[Len(q)]
    BY CarriedUnfolds
  <2> QED
    BY <1>1, <2>1, Zenon
<1>3. Carried(G, v, s) = v
  BY <1>1, <1>2 DEF Carries
<1> QED
  BY <1>3 DEF s

\* A turn more.
LEMMA CarriedAppend ==
  ASSUME NEW V, NEW S, NEW G, Turns(G, V, S), NEW v \in V, NEW s \in Seq(S), NEW e \in S
  PROVE  /\ Carried(G, v, s) \in V /\ s \o <<e>> \in Seq(S)
         /\ Carried(G, v, s \o <<e>>) = G[<<Carried(G, v, s), e>>]
<1> DEFINE n == Len(s)
           t == s \o <<e>>
<1>0. n \in Nat /\ n \in 0..n
  BY LenProperties
<1>1. t \in Seq(S) /\ Len(t) = n + 1 /\ t[n + 1] = e /\ \A k \in 1..n : t[k] = s[k]
  <2>1. t = Append(s, e)
    BY AppendIsConcat
  <2> QED
    BY <2>1, AppendProperties
<1>2. PICK f \in [0..n -> V] : Carries(f, G, v, s) /\ Carried(G, v, s) = f[n]
  BY CarriedUnfolds
<1> HIDE DEF n, t
<1>3. PICK g \in [0..(n + 1) -> V] : Carries(g, G, v, t) /\ Carried(G, v, t) = g[n + 1]
  BY <1>1, CarriedUnfolds
<1> DEFINE Same == {k \in Nat : k <= n => g[k] = f[k]}
<1>4. 0 \in Same
  BY <1>2, <1>3 DEF Carries
<1>5. ASSUME NEW k \in Nat, k \in Same PROVE k + 1 \in Same
  <2> SUFFICES ASSUME k + 1 <= n PROVE g[k + 1] = f[k + 1]
    OBVIOUS
  <2>1. k + 1 \in 1..n /\ k + 1 \in 1..(n + 1) /\ (k + 1) - 1 = k /\ k <= n
    BY <1>0
  <2>2. f[k + 1] = G[<<f[(k + 1) - 1], s[k + 1]>>]
    BY <1>2, <2>1 DEF Carries, n
  <2>3. g[k + 1] = G[<<g[(k + 1) - 1], t[k + 1]>>]
    BY <1>1, <1>3, <2>1 DEF Carries
  <2>4. g[k] = f[k]
    BY <1>5, <2>1
  <2>5. t[k + 1] = s[k + 1]
    BY <1>1, <2>1
  <2> QED
    BY <2>1, <2>2, <2>3, <2>4, <2>5
<1> HIDE DEF Same
<1>6. n \in Same
  BY <1>0, <1>4, <1>5, EveryNumber
<1>7. g[n] = f[n]
  BY <1>0, <1>6 DEF Same
<1>8. g[n + 1] = G[<<g[n], e>>]
  <2>1. n + 1 \in 1..(n + 1) /\ (n + 1) - 1 = n
    BY <1>0
  <2>2. g[n + 1] = G[<<g[(n + 1) - 1], t[n + 1]>>]
    BY <1>1, <1>3, <2>1 DEF Carries
  <2> QED
    BY <1>1, <2>1, <2>2
<1>9. f[n] \in V
  BY <1>0, <1>2
<1> QED
  BY <1>1, <1>2, <1>3, <1>7, <1>8, <1>9 DEF t

\* A loop over two parts goes on with the second where it got to with the first.
LEMMA CarriedConcat ==
  ASSUME NEW V, NEW S, NEW G, Turns(G, V, S), NEW v \in V,
         NEW s \in Seq(S), NEW t \in Seq(S)
  PROVE  Carried(G, v, s \o t) = Carried(G, Carried(G, v, s), t)
<1> DEFINE w == Carried(G, v, s)
           P == {u \in Seq(S) : Carried(G, v, s \o u) = Carried(G, w, u)}
<1>0. w \in V
  <2>1. PICK f \in [0..Len(s) -> V] : w = f[Len(s)]
    BY CarriedUnfolds
  <2>2. Len(s) \in 0..Len(s)
    BY LenProperties
  <2> QED
    BY <2>1, <2>2
<1>1. <<>> \in P
  <2>1. <<>> \in Seq(S) /\ s \o <<>> = s
    BY ConcatEmptySeq
  <2>2. Carried(G, w, <<>>) = w
    BY <1>0, CarriedEmpty
  <2> QED
    BY <2>1, <2>2
<1>2. ASSUME NEW u \in Seq(S), NEW e \in S, u \in P PROVE u \o <<e>> \in P
  <2>1. <<e>> \in Seq(S) /\ s \o u \in Seq(S)
    BY ConcatProperties
  <2>2. s \o (u \o <<e>>) = (s \o u) \o <<e>>
    BY <2>1, ConcatAssociative
  <2>3. Carried(G, v, (s \o u) \o <<e>>) = G[<<Carried(G, v, s \o u), e>>]
    <3>1. \A q \in Seq(S) : Carried(G, v, q \o <<e>>) = G[<<Carried(G, v, q), e>>]
      BY CarriedAppend
    <3> QED
      BY <2>1, <3>1, Zenon
  <2>4. Carried(G, w, u \o <<e>>) = G[<<Carried(G, w, u), e>>] /\ u \o <<e>> \in Seq(S)
    BY <1>0, CarriedAppend
  <2> QED
    BY <1>2, <2>2, <2>3, <2>4
<1> HIDE DEF P
<1>3. \A u \in Seq(S) : u \in P
  BY <1>1, <1>2, EverySequence
<1> QED
  BY <1>3 DEF P

===============================================================================
