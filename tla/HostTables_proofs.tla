------------------------- MODULE HostTables_proofs -------------------------
(***************************************************************************)
(* Theorems about HostTables, for every size of tables, regions and        *)
(* chunks: what the server reads through the registered regions is what    *)
(* the host put into its tables, and the clean-up frees what was           *)
(* allocated.                                                              *)
(*                                                                         *)
(* Scatter lists and tables are flattened block by block, which is a       *)
(* recursion over their number.  The induction that this needs is over     *)
(* sets of numbers: every nonempty one has a least element.                *)
(***************************************************************************)
EXTENDS HostTables, WellFoundedInduction, SequenceTheorems, TLAPS

-----------------------------------------------------------------------------
(***************************************************************************)
(* Induction and division.                                                 *)
(***************************************************************************)

\* Every nonempty set of natural numbers has a least element.
LEMMA LeastNat ==
  ASSUME NEW S \in SUBSET Nat, S # {}
  PROVE  \E x \in S : \A y \in S : x <= y
<1>1. \E x \in S : \A y \in S : ~(<<y, x>> \in OpToRel(<, Nat))
  BY NatLessThanWellFounded, WFMin, Zenon
<1>2. ASSUME NEW x \in Nat, NEW y \in Nat
      PROVE  <<y, x>> \in OpToRel(<, Nat) <=> y < x
  BY DEF OpToRel
<1>3. ASSUME NEW x \in Nat, NEW y \in Nat, ~(y < x)
      PROVE  x <= y
  BY <1>3
<1>4. QED
  BY <1>1, <1>2, <1>3, Zenon

\* Induction, for a set instead of a predicate.
LEMMA SetInduction ==
  ASSUME NEW S, 1 \in S, \A n \in Nat \ {0} : n \in S => n + 1 \in S
  PROVE  \A n \in Nat \ {0} : n \in S
<1> DEFINE T == {n \in Nat \ {0} : n \notin S}
<1>1. SUFFICES ASSUME T # {} PROVE FALSE
  OBVIOUS
<1>2. T \in SUBSET Nat
  OBVIOUS
<1>3. PICK x \in T : \A y \in T : x <= y
  <2> HIDE DEF T
  <2> QED BY <1>1, <1>2, LeastNat
<1>4. x # 1
  OBVIOUS
<1>5. x - 1 \in Nat \ {0} /\ x - 1 \notin T
  BY <1>3, <1>4
<1>6. x - 1 \in S
  BY <1>5
<1>7. x - 1 + 1 \in S
  BY <1>5, <1>6
<1>8. QED
  BY <1>7

\* Division with remainder.
LEMMA DivMod ==
  ASSUME NEW a \in Nat, NEW b \in Nat \ {0}
  PROVE  /\ a \div b \in Nat /\ a % b \in 0 .. b - 1
         /\ a = b * (a \div b) + (a % b)
  OBVIOUS

LEMMA MulGrows ==
  ASSUME NEW b \in Nat, NEW k \in Nat, NEW l \in Nat, k < l
  PROVE  /\ b * k \in Nat /\ b * l \in Nat /\ b * k + b <= b * l
<1>1. PICK d \in Nat : l = k + 1 + d
  <2>1. l - k - 1 \in Nat /\ l = k + 1 + (l - k - 1)
    OBVIOUS
  <2>2. QED BY <2>1
<1>2. b * l = b * k + b + b * d
  BY <1>1
<1>3. b * d \in Nat /\ b * k \in Nat /\ b * l \in Nat
  OBVIOUS
<1>4. QED
  BY <1>2, <1>3

LEMMA DivModUnique ==
  ASSUME NEW b \in Nat \ {0}, NEW q \in Nat, NEW r \in 0 .. b - 1
  PROVE  (b * q + r) \div b = q /\ (b * q + r) % b = r
<1> DEFINE a == b * q + r
           p == a \div b
           m == a % b
<1>1. a \in Nat /\ b * q \in Nat
  OBVIOUS
<1>2. p \in Nat /\ m \in 0 .. b - 1 /\ a = b * p + m
  <2> HIDE DEF a
  <2> QED BY <1>1, DivMod
<1>3. a = b * q + r
  OBVIOUS
<1> HIDE DEF a, p, m
<1>4. ~(p < q)
  BY <1>1, <1>2, <1>3, MulGrows
<1>5. ~(q < p)
  BY <1>1, <1>2, <1>3, MulGrows
<1>6. p = q
  BY <1>2, <1>4, <1>5
<1>7. m = r
  BY <1>1, <1>2, <1>3, <1>6
<1>8. QED
  BY <1>6, <1>7 DEF p, m, a

\* The function that FlattenSeq uses exists.
Flattens(h, seqs, n) ==
  h = [i \in 1 .. n |-> IF i = 1 THEN seqs[i] ELSE h[i - 1] \o seqs[i]]

LEMMA FlattensExists ==
  ASSUME NEW seqs
  PROVE  \A n \in Nat \ {0} : \E h : Flattens(h, seqs, n)
<1> DEFINE S == {n \in Nat \ {0} : \E h : Flattens(h, seqs, n)}
<1>1. 1 \in S
  <2> DEFINE g == [i \in 1 .. 1 |-> seqs[i]]
  <2>1. g = [i \in 1 .. 1 |-> IF i = 1 THEN seqs[i] ELSE g[i - 1] \o seqs[i]]
    OBVIOUS
  <2>2. Flattens(g, seqs, 1)
    BY <2>1 DEF Flattens
  <2> HIDE DEF g
  <2>3. QED
    BY <2>2
<1>2. ASSUME NEW n \in Nat \ {0}, n \in S
      PROVE  n + 1 \in S
  <2>1. PICK h : Flattens(h, seqs, n)
    BY <1>2
  <2> DEFINE g == [i \in 1 .. n + 1 |-> IF i = n + 1 THEN h[n] \o seqs[n + 1] ELSE h[i]]
  <2>2. ASSUME NEW i \in 1 .. n + 1
        PROVE  g[i] = IF i = 1 THEN seqs[i] ELSE g[i - 1] \o seqs[i]
    <3>1. CASE i = n + 1
      <4>1. i # 1 /\ i - 1 = n /\ n \in 1 .. n + 1 /\ n # n + 1
        BY <3>1
      <4>2. g[n] = h[n]
        BY <4>1
      <4>3. QED
        BY <3>1, <4>1, <4>2
    <3>2. CASE i # n + 1
      <4>1. i \in 1 .. n /\ g[i] = h[i]
        BY <3>2
      <4>2. i # 1 => i - 1 \in 1 .. n + 1 /\ g[i - 1] = h[i - 1]
        BY <4>1
      <4>3. h[i] = IF i = 1 THEN seqs[i] ELSE h[i - 1] \o seqs[i]
        <5> HIDE DEF g
        <5> QED BY <2>1, <4>1 DEF Flattens
      <4>4. QED
        <5> HIDE DEF g
        <5> QED BY <4>1, <4>2, <4>3
    <3>3. QED
      BY <3>1, <3>2
  <2>3. g = [i \in 1 .. n + 1 |-> g[i]]
    OBVIOUS
  <2> HIDE DEF g
  <2>4. Flattens(g, seqs, n + 1)
    BY <2>2, <2>3 DEF Flattens
  <2>5. QED
    BY <2>4
<1>3. \A n \in Nat \ {0} : n \in S
  <2> HIDE DEF S
  <2> QED BY <1>1, <1>2, SetInduction
<1>4. QED
  BY <1>3

LEMMA FlattenIsLast ==
  ASSUME NEW seqs, Len(seqs) \in Nat \ {0}
  PROVE  \E h : Flattens(h, seqs, Len(seqs)) /\ FlattenSeq(seqs) = h[Len(seqs)]
<1>1. \E h : h = [i \in 1 .. Len(seqs) |-> IF i = 1 THEN seqs[i] ELSE h[i - 1] \o seqs[i]]
  BY FlattensExists DEF Flattens
<1>2. Len(seqs) # 0
  OBVIOUS
<1>3. QED
  BY <1>1, <1>2, Zenon DEF FlattenSeq, Flattens


\* s is the blocks up to n of seqs, which have length L but for the last.
Blocks(s, V, seqs, L, n) ==
  /\ s \in Seq(V)
  /\ Len(s) = L * (n - 1) + Len(seqs[n])
  /\ \A b \in 1 .. n, j \in Nat \ {0} :
       j <= Len(seqs[b]) => s[L * (b - 1) + j] = seqs[b][j]

LEMMA BlocksStep ==
  ASSUME NEW V, NEW seqs \in Seq(Seq(V)), NEW L \in Nat,
         NEW n \in Nat \ {0}, NEW k \in Nat, k = n + 1, k <= Len(seqs),
         \A b \in 1 .. n : Len(seqs[b]) = L,
         NEW s, Blocks(s, V, seqs, L, n)
  PROVE  Blocks(s \o seqs[k], V, seqs, L, k)
<1>1. n \in 1 .. n /\ k \in 1 .. Len(seqs) /\ k - 1 = n
  OBVIOUS
<1>2. PICK u \in Seq(V) : u = seqs[k]
  BY <1>1
<1>3. s \in Seq(V) /\ Len(s) = L * (n - 1) + L
  BY <1>1 DEF Blocks
<1>4. PICK m \in Nat : m = L * n
  OBVIOUS
<1>5. L * (n - 1) + L = m
  BY <1>4
<1>5a. Len(s) = m
  BY <1>3, <1>5
<1>6. s \o u \in Seq(V) /\ Len(s \o u) = m + Len(u)
  BY <1>3, <1>5a, ConcatProperties
<1>7. ASSUME NEW b \in 1 .. k, NEW j \in Nat \ {0}, j <= Len(seqs[b])
      PROVE  (s \o u)[L * (b - 1) + j] = seqs[b][j]
  <2>1. CASE b = k
    <3>1. L * (b - 1) + j = m + j
      BY <1>4, <2>1
    <3>2. j <= Len(u) /\ Len(u) \in Nat
      BY <1>2, <1>7, <2>1
    <3>3. m + j \in 1 .. m + Len(u) /\ ~(m + j <= m) /\ m + j - m = j
      BY <3>2
    <3>4. (s \o u)[m + j] = u[j]
      BY <1>3, <1>5a, <3>3, ConcatProperties
    <3>5. QED
      BY <1>2, <2>1, <3>1, <3>4
  <2>2. CASE b # k
    <3>1. b \in 1 .. n
      BY <2>2
    <3>2. s[L * (b - 1) + j] = seqs[b][j] /\ j <= L
      BY <1>7, <3>1 DEF Blocks
    <3>3. PICK o \in Nat : o = L * (b - 1)
      BY <3>1
    <3>4. o + L <= m
      <4>1. b - 1 \in Nat /\ b - 1 < n
        BY <3>1
      <4>2. QED
        BY <1>4, <3>3, <4>1, MulGrows
    <3>5. o + j \in 1 .. m /\ o + j \in 1 .. m + Len(u)
      <4>1. Len(u) \in Nat
        OBVIOUS
      <4>2. QED
        BY <3>2, <3>4, <4>1
    <3>6. (s \o u)[o + j] = s[o + j]
      BY <1>3, <1>5a, <3>5, ConcatProperties
    <3>7. QED
      BY <3>2, <3>3, <3>6
  <2>3. QED
    BY <2>1, <2>2
<1>8. Len(s \o u) = L * (k - 1) + Len(seqs[k])
  BY <1>1, <1>2, <1>4, <1>6
<1>9. Blocks(s \o u, V, seqs, L, k)
  <2>1. \A b \in 1 .. k, j \in Nat \ {0} :
          j <= Len(seqs[b]) => (s \o u)[L * (b - 1) + j] = seqs[b][j]
    BY <1>7
  <2>2. s \o u \in Seq(V)
    BY <1>6
  <2>3. QED
    BY <1>8, <2>1, <2>2, Zenon DEF Blocks
<1>10. QED
  BY <1>2, <1>9

\* What FlattenSeq makes of a sequence of blocks that all, but for the last, have
\* the same length: the element at j of block b is at its offset.
LEMMA FlattenBlocks ==
  ASSUME NEW V, NEW seqs \in Seq(Seq(V)), NEW L \in Nat, Len(seqs) # 0,
         \A b \in 1 .. Len(seqs) - 1 : Len(seqs[b]) = L
  PROVE  Blocks(FlattenSeq(seqs), V, seqs, L, Len(seqs))
<1>1. PICK N \in Nat \ {0} : N = Len(seqs)
  OBVIOUS
<1>2. PICK h : Flattens(h, seqs, N) /\ FlattenSeq(seqs) = h[N]
  BY <1>1, FlattenIsLast
<1>3. \A i \in 1 .. N : h[i] = IF i = 1 THEN seqs[i] ELSE h[i - 1] \o seqs[i]
  BY <1>2 DEF Flattens
<1> DEFINE S == {n \in Nat \ {0} : n <= N => Blocks(h[n], V, seqs, L, n)}
<1>4. 1 \in S
  <2>1. 1 \in 1 .. N
    OBVIOUS
  <2>2. h[1] = seqs[1] /\ seqs[1] \in Seq(V)
    BY <1>1, <1>3, <2>1
  <2>3. PICK s \in Seq(V) : s = seqs[1]
    BY <2>2
  <2>4. Blocks(s, V, seqs, L, 1)
    <3>1. Len(s) = L * (1 - 1) + Len(seqs[1])
      <4>1. L * (1 - 1) + Len(s) = Len(s)
        OBVIOUS
      <4>2. QED
        BY <2>3, <4>1, Zenon
    <3>2. ASSUME NEW b \in 1 .. 1, NEW j \in Nat \ {0}, j <= Len(seqs[b])
          PROVE  s[L * (b - 1) + j] = seqs[b][j]
      <4>1. b = 1 /\ L * (b - 1) + j = j
        OBVIOUS
      <4>2. QED
        BY <2>3, <4>1
    <3>3. QED
      BY <3>1, <3>2 DEF Blocks
  <2>5. QED
    BY <2>2, <2>3, <2>4
<1>5. ASSUME NEW n \in Nat \ {0}, n \in S
      PROVE  n + 1 \in S
  <2>1. PICK k \in Nat \ {0} : k = n + 1
    OBVIOUS
  <2>2. SUFFICES ASSUME k <= N PROVE Blocks(h[k], V, seqs, L, k)
    BY <2>1
  <2>3. Blocks(h[n], V, seqs, L, n)
    BY <1>5, <2>1, <2>2
  <2> HIDE DEF S
  <2>4. k \in 1 .. N /\ k # 1 /\ k - 1 = n
    BY <2>1, <2>2
  <2>5. h[k] = h[n] \o seqs[k]
    BY <1>3, <2>4
  <2>6. \A b \in 1 .. n : Len(seqs[b]) = L
    BY <1>1, <2>1, <2>2
  <2>7. Blocks(h[n] \o seqs[k], V, seqs, L, k)
    BY <1>1, <2>1, <2>2, <2>3, <2>6, BlocksStep
  <2>8. QED
    BY <2>5, <2>7
<1>6. \A n \in Nat \ {0} : n \in S
  <2> HIDE DEF S
  <2> QED BY <1>4, <1>5, SetInduction
<1>7. Blocks(h[N], V, seqs, L, N)
  BY <1>6
<1>8. QED
  BY <1>1, <1>2, <1>7

\* k is a place of n blocks of which the last has length last; the place is j
\* of block b.
IsPlace(k, L, n, last) ==
  /\ L \in Nat /\ n \in Nat \ {0} /\ last \in Nat
  /\ k \in Nat \ {0} /\ k <= L * (n - 1) + last

IsPlaceOf(k, L, n, last, b, j) ==
  /\ b \in 1 .. n /\ j \in Nat \ {0}
  /\ k = L * (b - 1) + j
  /\ j <= IF b = n THEN last ELSE L

LEMMA BlockOf ==
  ASSUME NEW L, NEW n, NEW last, NEW k, IsPlace(k, L, n, last)
  PROVE  \E b, j : IsPlaceOf(k, L, n, last, b, j)
<1> USE DEF IsPlace, IsPlaceOf
<1>1. PICK m \in Nat : m = L * (n - 1)
  OBVIOUS
<1>2. CASE k > m
  <2>1. PICK j \in Nat \ {0} : k = m + j /\ j <= last
    <3>1. k - m \in Nat \ {0} /\ k = m + (k - m) /\ k - m <= last
      BY <1>1, <1>2
    <3>2. QED
      BY <3>1
  <2>2. IsPlaceOf(k, L, n, last, n, j)
    BY <1>1, <2>1
  <2>3. QED
    BY <2>2, Zenon
<1>3. CASE k <= m
  <2>1. L # 0
    BY <1>1, <1>3
  <2>2. k - 1 \in Nat /\ L \in Nat \ {0}
    BY <2>1
  <2>3. PICK q \in Nat, r \in 0 .. L - 1 : k - 1 = L * q + r
    BY <2>2, DivMod
  <2>4. ~(n - 1 < q + 1)
    <3>1. SUFFICES ASSUME n - 1 <= q PROVE FALSE
      OBVIOUS
    <3>2. m <= L * q
      <4>1. CASE n - 1 = q
        BY <1>1, <4>1
      <4>2. CASE n - 1 < q
        <5>1. n - 1 \in Nat
          OBVIOUS
        <5>2. QED
          BY <1>1, <4>2, <5>1, MulGrows
      <4>3. QED
        BY <3>1, <4>1, <4>2
    <3>3. PICK o \in Nat : o = L * q
      OBVIOUS
    <3>4. QED
      BY <1>3, <2>3, <3>2, <3>3
  <2>5. PICK b \in 1 .. n, j \in Nat \ {0} : b = q + 1 /\ j = r + 1
    BY <2>4
  <2>6. b - 1 = q /\ b # n /\ j <= L
    BY <2>4, <2>5
  <2>7. k = L * q + j
    BY <2>3, <2>5
  <2>8. k = L * (b - 1) + j
    BY <2>6, <2>7
  <2>9. QED
    BY <2>6, <2>8
<1>4. QED
  BY <1>1, <1>2, <1>3

\* Blocks determine their sequence.
LEMMA BlocksUnique ==
  ASSUME NEW V, NEW seqs \in Seq(Seq(V)), NEW L \in Nat, NEW n \in Nat \ {0}, n = Len(seqs),
         \A b \in 1 .. n - 1 : Len(seqs[b]) = L,
         NEW s, Blocks(s, V, seqs, L, n),
         NEW f, Blocks(f, V, seqs, L, n)
  PROVE  s = f
<1>1. PICK last \in Nat : last = Len(seqs[n])
  OBVIOUS
<1>2. PICK m \in Nat : m = L * (n - 1)
  OBVIOUS
<1>3. s \in Seq(V) /\ f \in Seq(V) /\ Len(s) = m + last /\ Len(f) = m + last
  BY <1>1, <1>2 DEF Blocks
<1>4. ASSUME NEW k \in 1 .. m + last
      PROVE  s[k] = f[k]
  <2>1. IsPlace(k, L, n, last)
    BY <1>2 DEF IsPlace
  <2>2. PICK b, j : IsPlaceOf(k, L, n, last, b, j)
    BY <2>1, BlockOf, Zenon
  <2>3. b \in 1 .. n /\ j \in Nat \ {0} /\ j <= Len(seqs[b])
    BY <1>1, <2>2 DEF IsPlaceOf
  <2>4. s[L * (b - 1) + j] = seqs[b][j]
    BY <2>3 DEF Blocks
  <2>5. f[L * (b - 1) + j] = seqs[b][j]
    BY <2>3 DEF Blocks
  <2>6. QED
    BY <2>2, <2>4, <2>5 DEF IsPlaceOf
<1>5. QED
  BY <1>3, <1>4, SeqEqual

\* A function on an interval from 1 is a sequence.
LEMMA IntervalSeq ==
  ASSUME NEW S, NEW n \in Nat, NEW f \in [1 .. n -> S]
  PROVE  f \in Seq(S) /\ Len(f) = n
  OBVIOUS

\* f cut into C blocks of length L, the last of length last.
Cut(f, L, C, last) ==
  [c \in 1 .. C |-> [i \in 1 .. (IF c = C THEN last ELSE L) |-> f[L * (c - 1) + i]]]

\* The places of the blocks are places of f.
LEMMA PlacesFit ==
  ASSUME NEW L \in Nat, NEW C \in Nat \ {0}, NEW last \in Nat,
         NEW b \in 1 .. C, NEW j \in 1 .. (IF b = C THEN last ELSE L)
  PROVE  /\ L * (b - 1) \in Nat /\ L * (C - 1) \in Nat
         /\ L * (b - 1) + j \in 1 .. L * (C - 1) + last
<1>1. PICK m \in Nat : m = L * (b - 1)
  OBVIOUS
<1>2. PICK o \in Nat : o = L * (C - 1)
  OBVIOUS
<1>3. CASE b = C
  BY <1>1, <1>2, <1>3
<1>4. CASE b # C
  <2>1. b - 1 < C - 1 /\ b - 1 \in Nat /\ C - 1 \in Nat /\ j <= L
    BY <1>4
  <2>2. m + L <= o
    BY <1>1, <1>2, <2>1, MulGrows
  <2>3. m + j \in 1 .. o + last
    BY <2>1, <2>2
  <2>4. QED
    BY <1>1, <1>2, <2>3
<1>5. QED
  BY <1>3, <1>4

\* To cut a sequence into blocks and to flatten them gives it back.
LEMMA FlattenCut ==
  ASSUME NEW V, NEW L \in Nat, NEW C \in Nat \ {0}, NEW last \in Nat,
         NEW f \in Seq(V), Len(f) = L * (C - 1) + last
  PROVE  FlattenSeq(Cut(f, L, C, last)) = f
<1> DEFINE size(c) == IF c = C THEN last ELSE L
           block(c) == [i \in 1 .. size(c) |-> f[L * (c - 1) + i]]
<1>1. PICK seqs : seqs = Cut(f, L, C, last)
  OBVIOUS
<1>2. seqs = [c \in 1 .. C |-> block(c)]
  BY <1>1 DEF Cut
<1>3. ASSUME NEW c \in 1 .. C
      PROVE  size(c) \in Nat /\ block(c) \in Seq(V) /\ Len(block(c)) = size(c)
  <2>1. ASSUME NEW i \in 1 .. size(c) PROVE f[L * (c - 1) + i] \in V
    <3>1. L * (c - 1) + i \in 1 .. Len(f)
      BY PlacesFit
    <3>2. QED
      BY <3>1, ElementOfSeq
  <2>2. block(c) \in [1 .. size(c) -> V]
    BY <2>1
  <2>3. size(c) \in Nat
    OBVIOUS
  <2> HIDE DEF block, size
  <2>4. QED
    BY <2>2, <2>3, IntervalSeq
<1>4. seqs \in Seq(Seq(V)) /\ Len(seqs) = C
  <2> HIDE DEF block
  <2>1. seqs \in [1 .. C -> Seq(V)]
    BY <1>2, <1>3
  <2>2. QED
    BY <2>1, IntervalSeq
<1>5. \A c \in 1 .. C : seqs[c] = block(c)
  <2> HIDE DEF block
  <2> QED BY <1>2
<1>6. ASSUME NEW b \in 1 .. C, NEW j \in Nat \ {0}, j <= size(b)
      PROVE  f[L * (b - 1) + j] = block(b)[j]
  <2>1. j \in 1 .. size(b)
    BY <1>6
  <2>2. QED
    BY <2>1
<1> HIDE DEF block
<1>7. \A c \in 1 .. C : Len(seqs[c]) = size(c)
  BY <1>3, <1>5
<1>8. C \in 1 .. C /\ size(C) = last /\ \A c \in 1 .. C - 1 : c \in 1 .. C /\ size(c) = L
  OBVIOUS
<1> HIDE DEF size
<1>9. Blocks(f, V, seqs, L, C)
  <2>1. Len(seqs[C]) = last
    BY <1>7, <1>8
  <2>2. Len(f) = L * (C - 1) + Len(seqs[C])
    BY <2>1, Zenon
  <2>3. ASSUME NEW b \in 1 .. C, NEW j \in Nat \ {0}, j <= Len(seqs[b])
        PROVE  f[L * (b - 1) + j] = seqs[b][j]
    <3>1. j <= size(b)
      BY <1>7, <2>3
    <3>2. QED
      BY <1>5, <1>6, <3>1, Zenon
  <2>4. QED
    BY <2>2, <2>3, Zenon DEF Blocks
<1>10. \A b \in 1 .. C - 1 : Len(seqs[b]) = L
  BY <1>7, <1>8
<1>11. Blocks(FlattenSeq(seqs), V, seqs, L, C)
  BY <1>4, <1>10, FlattenBlocks
<1>12. FlattenSeq(seqs) = f
  BY <1>4, <1>9, <1>10, <1>11, BlocksUnique
<1>13. QED
  BY <1>1, <1>12

\* Division rounded up.
LEMMA DivUpProps ==
  ASSUME NEW a \in Nat, NEW b \in Nat \ {0}
  PROVE  /\ DivUp(a, b) \in Nat
         /\ a <= b * DivUp(a, b)
         /\ a = 0 => DivUp(a, b) = 0
         /\ a # 0 => DivUp(a, b) # 0 /\ b * (DivUp(a, b) - 1) < a
<1>1. a + b - 1 \in Nat
  OBVIOUS
<1>2. PICK q \in Nat, r \in 0 .. b - 1 : a + b - 1 = b * q + r /\ q = DivUp(a, b)
  BY <1>1, DivMod DEF DivUp
<1>3. PICK m \in Nat : m = b * q
  OBVIOUS
<1>4. a + b - 1 = m + r /\ a <= m
  BY <1>2, <1>3
<1>5. b * (q - 1) = m - b
  BY <1>3
<1>6. ASSUME a = 0 PROVE q = 0
  <2>1. ~(0 < q)
    <3>1. 0 < q => b * 0 + b <= b * q
      BY MulGrows
    <3>2. QED
      BY <1>3, <1>4, <1>6, <3>1
  <2>2. QED
    BY <2>1
<1>7. ASSUME a # 0 PROVE q # 0 /\ m - b < a
  BY <1>3, <1>4, <1>7
<1>8. QED
  BY <1>2, <1>3, <1>4, <1>5, <1>6, <1>7

LEMMA ConstantTypes ==
  /\ EntriesPerPage \in Nat \ {0} /\ LogsPerPage \in Nat \ {0}
  /\ MAX_VA_ARRAYS \in Nat \ {0} /\ MAX_PAGES_IN_SGL \in Nat \ {0}
  /\ SG_CHUNK_SIZE \in Nat \ {0, 1} /\ SG_CHUNK_SIZE - 1 \in Nat \ {0}
  /\ MaxPages \in Nat /\ MaxMms \in Nat /\ MaxErrors \in Nat /\ MaxIterations \in Nat
<1>1. SG_CHUNK_SIZE \in Nat \ {0, 1}
  BY TablesAssumption
<1>2. SG_CHUNK_SIZE - 1 \in Nat \ {0}
  BY <1>1
<1>3. QED
  BY <1>1, <1>2, TablesAssumption

-----------------------------------------------------------------------------
(***************************************************************************)
(* Scatter lists.                                                          *)
(***************************************************************************)

\* The chunks of a region: all have SG_CHUNK_SIZE - 1 pages, the last what is left.
LEMMA ChunksFit ==
  ASSUME NEW n \in Nat
  PROVE  /\ ChunkCount(n) \in Nat \ {0}
         /\ \A c \in 0 .. ChunkCount(n) - 1 :
              c # ChunkCount(n) - 1 => ChunkPages(n, c) = SG_CHUNK_SIZE - 1
         /\ ChunkPages(n, ChunkCount(n) - 1) \in Nat
         /\ n = (SG_CHUNK_SIZE - 1) * (ChunkCount(n) - 1) + ChunkPages(n, ChunkCount(n) - 1)
<1>1. PICK L \in Nat \ {0} : L = SG_CHUNK_SIZE - 1
  BY ConstantTypes
<1>2. SG_CHUNK_SIZE = L + 1
  BY <1>1, ConstantTypes
<1>3. PICK c : c = ChunkCount(n) - 1
  OBVIOUS
<1>4. c \in Nat /\ ChunkCount(n) = c + 1 /\ L * c <= n
  <2>1. CASE n <= L + 1
    <3>1. ChunkCount(n) = 1
      BY <1>2, <2>1 DEF ChunkCount
    <3>2. c = 0 /\ L * 0 = 0
      BY <1>3, <3>1
    <3>3. QED
      BY <3>1, <3>2
  <2>2. CASE n > L + 1
    <3>1. n - (L + 1) \in Nat \ {0}
      BY <2>2
    <3>2. PICK d : d = DivUp(n - (L + 1), L)
      OBVIOUS
    <3>3. d \in Nat /\ L * (d - 1) < n - (L + 1)
      BY <3>1, <3>2, DivUpProps
    <3>4. ChunkCount(n) = d + 1
      BY <1>1, <1>2, <2>2, <3>2 DEF ChunkCount
    <3>5. c = d
      BY <1>3, <3>3, <3>4
    <3>6. L * (d - 1) = L * d - L
      BY <3>3
    <3>7. PICK m \in Nat : m = L * d
      BY <3>3
    <3>8. QED
      BY <3>3, <3>4, <3>5, <3>6, <3>7
  <2>3. QED
    BY <2>1, <2>2
<1>5. c * L = L * c
  BY <1>4
<1>6. PICK m \in Nat : m = L * c
  BY <1>4
<1>7. ChunkPages(n, c) = n - m
  BY <1>1, <1>3, <1>5, <1>6 DEF ChunkPages
<1>8. ChunkPages(n, c) \in Nat /\ n = m + ChunkPages(n, c)
  BY <1>4, <1>6, <1>7
<1>9. \A d \in 0 .. c : d # c => ChunkPages(n, d) = L
  BY <1>1, <1>3 DEF ChunkPages
<1>10. ChunkCount(n) \in Nat \ {0}
  BY <1>4
<1>11. n = L * c + ChunkPages(n, c)
  BY <1>6, <1>8
<1>12. QED
  BY <1>1, <1>3, <1>8, <1>9, <1>10, <1>11, Zenon

\* The chained chunks of a region list its pages, one after the other.
LEMMA RegionPagesAre ==
  ASSUME NEW first \in Nat, NEW n \in Nat
  PROVE  RegionPages(first, n) = [i \in 1 .. n |-> first + i - 1]
<1>1. PICK L \in Nat \ {0} : L = SG_CHUNK_SIZE - 1
  BY ConstantTypes
<1>2. PICK C \in Nat \ {0} : C = ChunkCount(n)
  BY ChunksFit
<1>3. PICK last \in Nat : last = ChunkPages(n, C - 1) /\ n = L * (C - 1) + last
  BY <1>1, <1>2, ChunksFit
<1>4. \A c \in 1 .. C : ChunkPages(n, c - 1) = IF c = C THEN last ELSE L
  <2>1. \A c \in 0 .. C - 1 : c # C - 1 => ChunkPages(n, c) = L
    BY <1>1, <1>2, ChunksFit
  <2>2. ASSUME NEW c \in 1 .. C
        PROVE  ChunkPages(n, c - 1) = IF c = C THEN last ELSE L
    <3>1. PICK d \in 0 .. C - 1 : d = c - 1
      OBVIOUS
    <3>2. QED
      BY <1>3, <2>1, <3>1
  <2>3. QED
    BY <2>2
<1> DEFINE f == [i \in 1 .. n |-> first + i - 1]
<1>5. f \in Seq(Nat) /\ Len(f) = n
  <2>1. f \in [1 .. n -> Nat]
    OBVIOUS
  <2> HIDE DEF f
  <2>2. QED
    BY <2>1, IntervalSeq
<1>6. ASSUME NEW c \in 1 .. C, NEW i \in 1 .. (IF c = C THEN last ELSE L)
      PROVE  first + (c - 1) * L + i - 1 = f[L * (c - 1) + i]
  <2>1. PICK m \in Nat : m = L * (c - 1)
    OBVIOUS
  <2>2. (c - 1) * L = m
    BY <2>1
  <2>3. m + i \in 1 .. n
    BY <1>3, <2>1, PlacesFit
  <2>4. QED
    BY <2>1, <2>2, <2>3
<1>7. [c \in 1 .. ChunkCount(n) |->
        [i \in 1 .. ChunkPages(n, c - 1) |->
          first + (c - 1) * (SG_CHUNK_SIZE - 1) + i - 1]]
      = Cut(f, L, C, last)
  <2> HIDE DEF f
  <2>1. QED
    BY <1>1, <1>2, <1>4, <1>6 DEF Cut
<1>8. RegionPages(first, n) = FlattenSeq(Cut(f, L, C, last))
  <2> HIDE DEF f
  <2>1. QED
    BY <1>7 DEF RegionPages
<1>9. FlattenSeq(Cut(f, L, C, last)) = f
  <2> HIDE DEF f
  <2>1. QED
    BY <1>3, <1>5, FlattenCut
<1>10. QED
  BY <1>8, <1>9
\* The regions of a number of pages: all are full, the last has what is left.
RegionsAre(pages, R, last) ==
  /\ R \in Nat \ {0} /\ last \in Nat \ {0}
  /\ R = Regions(pages)
  /\ pages = MAX_PAGES_IN_SGL * (R - 1) + last
  /\ \A r \in 1 .. R :
       RegionSize(pages, R, r - 1) = IF r = R THEN last ELSE MAX_PAGES_IN_SGL

LEMMA RegionsFit ==
  ASSUME NEW pages \in Nat, pages # 0
  PROVE  \E R, last : RegionsAre(pages, R, last)
<1>1. PICK M \in Nat \ {0} : M = MAX_PAGES_IN_SGL
  BY ConstantTypes
<1>2. PICK R \in Nat \ {0} : R = Regions(pages) /\ M * (R - 1) < pages
  BY <1>1, DivUpProps DEF Regions
<1>3. PICK m \in Nat : m = M * (R - 1)
  OBVIOUS
<1>4. PICK last \in Nat \ {0} : last = pages - m
  BY <1>2, <1>3
<1>5. pages = M * (R - 1) + last
  BY <1>3, <1>4
<1>6. ASSUME NEW r \in 1 .. R
      PROVE  RegionSize(pages, R, r - 1) = IF r = R THEN last ELSE M
  <2>1. (r - 1 = R - 1) <=> (r = R)
    OBVIOUS
  <2>2. (R - 1) * M = m
    BY <1>3
  <2>3. QED
    BY <1>1, <1>4, <2>1, <2>2 DEF RegionSize
<1>7. RegionsAre(pages, R, last)
  BY <1>1, <1>2, <1>5, <1>6 DEF RegionsAre
<1>8. QED
  BY <1>7, Zenon

\* What the server has of the regions of pages is the xarray.
LEMMA ServerPagesAre ==
  ASSUME NEW t, t.cnt \in Nat, t.cnt # 0, t.xa \in Seq(Nat), Len(t.xa) = t.cnt,
         t.sgls = Regions(t.cnt)
  PROVE  ServerPages(t) = t.xa
<1>1. PICK n \in Nat \ {0} : n = t.cnt
  OBVIOUS
<1>2. PICK xa \in Seq(Int) : xa = t.xa /\ Len(xa) = n
  BY <1>1, SeqMonotonic
<1>2a. n \in Nat /\ n # 0
  OBVIOUS
<1>3a. PICK R, last : RegionsAre(n, R, last)
  BY <1>2a, RegionsFit, Zenon
<1>3. /\ R \in Nat \ {0} /\ last \in Nat \ {0}
      /\ R = Regions(n)
      /\ n = MAX_PAGES_IN_SGL * (R - 1) + last
      /\ \A r \in 1 .. R : RegionSize(n, R, r - 1) = IF r = R THEN last ELSE MAX_PAGES_IN_SGL
  BY <1>3a DEF RegionsAre
<1>4. PICK M \in Nat \ {0} : M = MAX_PAGES_IN_SGL
  BY ConstantTypes
<1> DEFINE size(r) == IF r = R THEN last ELSE M
           listed(r) == RegionPages((r - 1) * M, RegionSize(n, R, r - 1))
<1>5. ASSUME NEW r \in 1 .. R
      PROVE  /\ RegionSize(n, R, r - 1) = size(r)
             /\ size(r) \in Nat
             /\ Len(listed(r)) = size(r)
             /\ \A i \in 1 .. size(r) : listed(r)[i] + 1 = M * (r - 1) + i
  <2>1. RegionSize(n, R, r - 1) = size(r) /\ size(r) \in Nat
    BY <1>3, <1>4
  <2>2. PICK m \in Nat : m = M * (r - 1) /\ m = (r - 1) * M
    OBVIOUS
  <2>3. listed(r) = [i \in 1 .. size(r) |-> m + i - 1]
    <3> HIDE DEF size
    <3> QED BY <2>1, <2>2, RegionPagesAre
  <2> HIDE DEF listed, size
  <2>4. listed(r) \in [1 .. size(r) -> Nat]
    BY <2>3
  <2>5. Len(listed(r)) = size(r)
    BY <2>1, <2>4, IntervalSeq
  <2>6. \A i \in 1 .. size(r) : listed(r)[i] + 1 = m + i
    BY <2>3
  <2>7. QED
    BY <2>1, <2>2, <2>5, <2>6
<1> DEFINE read(r) == [i \in 1 .. RegionSize(n, R, r - 1) |->
                         IF i <= Len(listed(r)) THEN xa[listed(r)[i] + 1] ELSE -1]
<1> HIDE DEF listed
<1>6. ASSUME NEW r \in 1 .. R
      PROVE  read(r) = [i \in 1 .. size(r) |-> xa[M * (r - 1) + i]]
  <2> HIDE DEF size
  <2> QED BY <1>5
<1>7. [r \in 1 .. R |-> read(r)] = Cut(xa, M, R, last)
  <2> HIDE DEF read
  <2> QED BY <1>6 DEF Cut
<1>8. ServerPages(t) = FlattenSeq([r \in 1 .. R |-> read(r)])
  BY <1>1, <1>2, <1>3, <1>4 DEF ServerPages, listed
<1>9. FlattenSeq(Cut(xa, M, R, last)) = xa
  BY <1>2, <1>3, <1>4, FlattenCut
<1>10. QED
  BY <1>2, <1>7, <1>8, <1>9
\* The logs of the pages of one region, as do_handle_error reads them: g is the
\* table, by position.
LogsOf(P, pages, g) ==
  FlattenSeq([i \in DOMAIN pages |-> [j \in 1 .. P |-> g[P * pages[i] + (j - 1)]]])

LogsFrom(P, first, n, g) == [k \in 1 .. P * n |-> g[P * first + k - 1]]

IsRegion(P, first, n, pages, g) ==
  /\ P \in Nat \ {0} /\ first \in Nat /\ n \in Nat \ {0}
  /\ pages = RegionPages(first, n)
  /\ \A pos \in Nat : g[pos] \in Int

LEMMA RegionLogs ==
  ASSUME NEW P, NEW first, NEW n, NEW pages, NEW g, IsRegion(P, first, n, pages, g)
  PROVE  LogsOf(P, pages, g) = LogsFrom(P, first, n, g)
<1> USE DEF IsRegion
<1>1. PICK o \in Nat : o = P * first
  OBVIOUS
<1>2. PICK N \in Nat \ {0} : N = P * n /\ N = P * (n - 1) + P
  <2>1. P * n = P * (n - 1) + P /\ P * (n - 1) \in Nat
    OBVIOUS
  <2>2. QED
    BY <2>1
<1> DEFINE f == [k \in 1 .. N |-> g[o + k - 1]]
<1>3. f \in Seq(Int) /\ Len(f) = N
  <2>1. f \in [1 .. N -> Int]
    <3>1. \A k \in 1 .. N : o + k - 1 \in Nat
      OBVIOUS
    <3>2. QED
      BY <3>1
  <2> HIDE DEF f
  <2>2. QED
    BY <2>1, IntervalSeq
<1>4. pages = [i \in 1 .. n |-> first + i - 1]
  BY RegionPagesAre
<1>5. ASSUME NEW i \in 1 .. n, NEW j \in 1 .. P
      PROVE  g[P * (first + i - 1) + (j - 1)] = f[P * (i - 1) + j]
  <2>1. PICK m \in Nat : m = P * (i - 1)
    OBVIOUS
  <2>2. j \in 1 .. (IF i = n THEN P ELSE P)
    OBVIOUS
  <2>3. m + j \in 1 .. N
    BY <1>2, <2>1, <2>2, PlacesFit
  <2>4. P * (first + i - 1) = o + m
    BY <1>1, <2>1
  <2>5. f[m + j] = g[o + (m + j) - 1]
    BY <2>3
  <2>6. o + (m + j) - 1 = (o + m) + (j - 1)
    OBVIOUS
  <2>7. QED
    BY <2>1, <2>4, <2>5, <2>6
<1> HIDE DEF f
<1>6. [i \in DOMAIN pages |-> [j \in 1 .. P |-> g[P * pages[i] + (j - 1)]]] = Cut(f, P, n, P)
  <2>1. DOMAIN pages = 1 .. n
    BY <1>4
  <2>2. ASSUME NEW i \in 1 .. n
        PROVE  [j \in 1 .. P |-> g[P * pages[i] + (j - 1)]]
                 = [j \in 1 .. (IF i = n THEN P ELSE P) |-> f[P * (i - 1) + j]]
    <3>1. pages[i] = first + i - 1
      BY <1>4
    <3>2. QED
      BY <1>5, <3>1
  <2>3. QED
    BY <2>1, <2>2 DEF Cut
<1>7. FlattenSeq(Cut(f, P, n, P)) = f
  BY <1>2, <1>3, FlattenCut
<1>8. QED
  BY <1>1, <1>2, <1>6, <1>7 DEF f, LogsOf, LogsFrom

\* What do_handle_error has of the regions of errors is the registered entries.
LEMMA ServerErrorsAre ==
  ASSUME errtab.registered \in Nat, errtab.sgls = Regions(ErrorPages),
         errors \in Seq(Int), Len(errors) = errtab.registered,
         \A pos \in Nat : At(errtab, MAX_RESULT_TABLE_ENTRIES, pos) \in Int,
         \A pos \in 0 .. errtab.registered - 1 :
           At(errtab, MAX_RESULT_TABLE_ENTRIES, pos) = errors[pos + 1]
  PROVE  ServerErrors = errors
<1>1. PICK n \in Nat : n = errtab.registered
  OBVIOUS
<1>2. PICK P \in Nat \ {0} : P = LogsPerPage
  BY ConstantTypes
<1>3. PICK M \in Nat \ {0} : M = MAX_PAGES_IN_SGL
  BY ConstantTypes
<1>4. PICK E \in Nat : /\ E = ErrorPages /\ n <= P * E
                       /\ n = 0 => E = 0
                       /\ n # 0 => E # 0
  BY <1>1, <1>2, DivUpProps DEF ErrorPages
<1> DEFINE g == [pos \in Nat |-> At(errtab, MAX_RESULT_TABLE_ENTRIES, pos)]
           InRegion(r) ==
             LET pages == RegionPages(r * M, RegionSize(E, errtab.sgls, r))
             IN  FlattenSeq([i \in DOMAIN pages |->
                   [j \in 1 .. P |-> At(errtab, MAX_RESULT_TABLE_ENTRIES, P * pages[i] + (j - 1))]])
           Whole == FlattenSeq([r \in 1 .. errtab.sgls |-> InRegion(r - 1)])
<1>5. ServerErrors = SubSeq(Whole, 1, n)
  BY <1>1, <1>2, <1>3, <1>4, Zenon DEF ServerErrors
<1>6. CASE n = 0
  <2>1. errtab.sgls = 0
    BY <1>3, <1>4, <1>6, DivUpProps DEF Regions
  <2>2. [r \in 1 .. errtab.sgls |-> InRegion(r - 1)] = <<>>
    <3> HIDE DEF InRegion
    <3> QED BY <2>1
  <2>3. Whole = <<>>
    <3>1. FlattenSeq(<<>>) = <<>>
      BY DEF FlattenSeq
    <3>2. QED
      BY <2>2, <3>1
  <2>4. SubSeq(<<>>, 1, 0) = <<>> /\ errors = <<>>
    BY <1>1, <1>6
  <2> HIDE DEF Whole
  <2>5. QED
    BY <1>5, <1>6, <2>3, <2>4
<1>7. CASE n # 0
  <2>1. PICK R, last : RegionsAre(E, R, last)
    BY <1>4, <1>7, RegionsFit
  <2>2. /\ R \in Nat \ {0} /\ last \in Nat \ {0} /\ R = errtab.sgls
        /\ E = M * (R - 1) + last
        /\ \A r \in 1 .. R : RegionSize(E, R, r - 1) = IF r = R THEN last ELSE M
    BY <1>3, <1>4, <2>1 DEF RegionsAre
  <2>3. PICK L \in Nat \ {0} : L = P * M
    OBVIOUS
  <2>4. PICK lastLogs \in Nat \ {0} : lastLogs = P * last
    BY <2>2
  <2>5. PICK N \in Nat : N = P * E /\ N = L * (R - 1) + lastLogs
    <3>1. PICK q \in Nat : q = R - 1
      BY <2>2
    <3>2. P * (M * q + last) = (P * M) * q + P * last
      BY <2>2
    <3>2a. E = M * q + last
      BY <2>2, <3>1
    <3>2b. P * E = L * q + lastLogs
      BY <2>3, <2>4, <3>2, <3>2a, Zenon
    <3>3. P * E = L * q + lastLogs /\ L * q \in Nat
      BY <3>2b
    <3>4. QED
      BY <3>1, <3>3
  <2> DEFINE f == [k \in 1 .. N |-> g[k - 1]]
  <2>6. \A pos \in Nat : g[pos] \in Int /\ g[pos] = At(errtab, MAX_RESULT_TABLE_ENTRIES, pos)
    OBVIOUS
  <2> HIDE DEF g
  <2>7. f \in Seq(Int) /\ Len(f) = N
    <3>1. \A k \in 1 .. N : k - 1 \in Nat
      OBVIOUS
    <3>2. f \in [1 .. N -> Int]
      BY <2>6, <3>1
    <3> HIDE DEF f
    <3>3. QED
      BY <3>2, IntervalSeq
  <2>8. ASSUME NEW r \in 1 .. R
        PROVE  InRegion(r - 1) = [k \in 1 .. (IF r = R THEN lastLogs ELSE L) |-> f[L * (r - 1) + k]]
    <3>1. PICK first \in Nat : first = (r - 1) * M
      OBVIOUS
    <3>2. PICK size \in Nat \ {0} : /\ size = RegionSize(E, R, r - 1)
                                    /\ P * size = IF r = R THEN lastLogs ELSE L
      BY <2>2, <2>3, <2>4
    <3>3. P * first = L * (r - 1)
      BY <2>3, <3>1
    <3>4. PICK pages : pages = RegionPages(first, size)
      OBVIOUS
    <3>5. pages = [i \in 1 .. size |-> first + i - 1]
      BY <3>4, RegionPagesAre
    <3>6. ASSUME NEW i \in DOMAIN pages, NEW j \in 1 .. P
          PROVE  At(errtab, MAX_RESULT_TABLE_ENTRIES, P * pages[i] + (j - 1))
                   = g[P * pages[i] + (j - 1)]
      <4>1. pages[i] \in Nat
        BY <3>5
      <4>2. P * pages[i] \in Nat
        BY <4>1
      <4>3. P * pages[i] + (j - 1) \in Nat
        BY <4>2
      <4>4. QED
        BY <2>6, <4>3
    <3>7. InRegion(r - 1)
            = FlattenSeq([i \in DOMAIN pages |-> [j \in 1 .. P |-> g[P * pages[i] + (j - 1)]]])
      <4>1. pages = RegionPages((r - 1) * M, RegionSize(E, errtab.sgls, r - 1))
        BY <2>2, <3>1, <3>2, <3>4
      <4>2. InRegion(r - 1)
              = FlattenSeq([i \in DOMAIN pages |-> [j \in 1 .. P |->
                  At(errtab, MAX_RESULT_TABLE_ENTRIES, P * pages[i] + (j - 1))]])
        BY <4>1, Zenon
      <4>3. ASSUME NEW i \in DOMAIN pages
            PROVE  [j \in 1 .. P |-> At(errtab, MAX_RESULT_TABLE_ENTRIES, P * pages[i] + (j - 1))]
                     = [j \in 1 .. P |-> g[P * pages[i] + (j - 1)]]
        BY <3>6
      <4> HIDE DEF InRegion
      <4>4. QED
        BY <4>2, <4>3
    <3> HIDE DEF InRegion
    <3>8. InRegion(r - 1) = [k \in 1 .. P * size |-> g[P * first + k - 1]]
      <4>1. \A pos \in Nat : g[pos] \in Int
        BY <2>6
      <4>2. LogsOf(P, pages, g) = LogsFrom(P, first, size, g)
        <5>1. IsRegion(P, first, size, pages, g)
          BY <3>4, <4>1 DEF IsRegion
        <5>2. QED
          BY <5>1, RegionLogs, Zenon
      <4>3. QED
        BY <3>7, <4>2 DEF LogsOf, LogsFrom
    <3>9. ASSUME NEW k \in 1 .. P * size
          PROVE  g[P * first + k - 1] = f[L * (r - 1) + k]
      <4>1. k \in 1 .. (IF r = R THEN lastLogs ELSE L)
        BY <3>2
      <4>2. L * (r - 1) + k \in 1 .. L * (R - 1) + lastLogs
        BY <2>2, <4>1, PlacesFit
      <4>3. L * (r - 1) + k \in 1 .. N
        BY <2>5, <4>2
      <4>4. QED
        BY <3>3, <4>3
    <3> HIDE DEF f
    <3>10. QED
      BY <3>2, <3>8, <3>9
  <2>9. [r \in 1 .. errtab.sgls |-> InRegion(r - 1)] = Cut(f, L, R, lastLogs)
    <3> HIDE DEF InRegion, f
    <3> QED BY <2>2, <2>8 DEF Cut
  <2>10. Whole = f
    <3> HIDE DEF InRegion, f
    <3>1. FlattenSeq(Cut(f, L, R, lastLogs)) = f
      BY <2>2, <2>5, <2>7, FlattenCut
    <3>2. QED
      BY <2>9, <3>1
  <2>11. SubSeq(f, 1, n) = errors
    <3>1. n <= N
      BY <1>4, <2>5
    <3>2. \A k \in 1 .. n : f[k] = errors[k]
      <4>1. ASSUME NEW k \in 1 .. n PROVE f[k] = errors[k]
        <5>1. k \in 1 .. N /\ k - 1 \in Nat /\ k - 1 \in 0 .. n - 1 /\ k - 1 + 1 = k
          BY <3>1
        <5>2. f[k] = At(errtab, MAX_RESULT_TABLE_ENTRIES, k - 1)
          BY <2>6, <5>1
        <5>3. QED
          BY <1>1, <5>1, <5>2
      <4>2. QED
        BY <4>1
    <3> HIDE DEF f
    <3>3. /\ SubSeq(f, 1, n) \in Seq(Int) /\ Len(SubSeq(f, 1, n)) = n
          /\ \A k \in 1 .. n : SubSeq(f, 1, n)[k] = f[k]
      BY <2>7, <3>1
    <3>4. QED
      BY <1>1, <3>2, <3>3, SeqEqual
  <2> HIDE DEF Whole, f
  <2>12. QED
    BY <1>5, <2>10, <2>11
<1>8. QED
  BY <1>6, <1>7
-----------------------------------------------------------------------------
(***************************************************************************)
(* Tables that grow.                                                       *)
(***************************************************************************)

Pow2 == {1, 2, 4, 8, 16, 32, 64, 128, 256, 512, 1024, 2048, 4096, 8192, 16384, 32768,
         65536, 131072, 262144, 524288, 1048576}

\* A full array is a power of two of pages.
IsSize(max, perPage) ==
  /\ max \in Nat \ {0} /\ perPage \in Nat \ {0}
  /\ \E m \in Pow2 : max = perPage * m

LEMMA PowersOfTwo == \A k \in 0 .. 20 : 2 ^ k \in Pow2
<1>1. /\ 2 ^ 0 = 1 /\ 2 ^ 1 = 2 /\ 2 ^ 2 = 4 /\ 2 ^ 3 = 8 /\ 2 ^ 4 = 16 /\ 2 ^ 5 = 32
      /\ 2 ^ 6 = 64 /\ 2 ^ 7 = 128 /\ 2 ^ 8 = 256 /\ 2 ^ 9 = 512 /\ 2 ^ 10 = 1024
  OBVIOUS
<1>2. /\ 2 ^ 11 = 2048 /\ 2 ^ 12 = 4096 /\ 2 ^ 13 = 8192 /\ 2 ^ 14 = 16384 /\ 2 ^ 15 = 32768
      /\ 2 ^ 16 = 65536 /\ 2 ^ 17 = 131072 /\ 2 ^ 18 = 262144 /\ 2 ^ 19 = 524288
      /\ 2 ^ 20 = 1048576
  OBVIOUS
<1>3. /\ 2 ^ 0 \in Pow2 /\ 2 ^ 1 \in Pow2 /\ 2 ^ 2 \in Pow2 /\ 2 ^ 3 \in Pow2 /\ 2 ^ 4 \in Pow2
      /\ 2 ^ 5 \in Pow2 /\ 2 ^ 6 \in Pow2 /\ 2 ^ 7 \in Pow2 /\ 2 ^ 8 \in Pow2 /\ 2 ^ 9 \in Pow2
      /\ 2 ^ 10 \in Pow2 /\ 2 ^ 11 \in Pow2 /\ 2 ^ 12 \in Pow2 /\ 2 ^ 13 \in Pow2
      /\ 2 ^ 14 \in Pow2 /\ 2 ^ 15 \in Pow2 /\ 2 ^ 16 \in Pow2 /\ 2 ^ 17 \in Pow2
      /\ 2 ^ 18 \in Pow2 /\ 2 ^ 19 \in Pow2 /\ 2 ^ 20 \in Pow2
  BY <1>1, <1>2 DEF Pow2
<1>4. ASSUME NEW k \in 0 .. 20
      PROVE  \/ k = 0 \/ k = 1 \/ k = 2 \/ k = 3 \/ k = 4 \/ k = 5 \/ k = 6 \/ k = 7 \/ k = 8
             \/ k = 9 \/ k = 10 \/ k = 11 \/ k = 12 \/ k = 13 \/ k = 14 \/ k = 15 \/ k = 16
             \/ k = 17 \/ k = 18 \/ k = 19 \/ k = 20
  OBVIOUS
<1>5. QED
  BY <1>3, <1>4, Zenon

LEMMA Sizes ==
  /\ IsSize(MAX_CAPACITY_PER_TABLE, EntriesPerPage)
  /\ IsSize(MAX_RESULT_TABLE_ENTRIES, LogsPerPage)
<1>1. PICK m \in Pow2 : MAX_CAPACITY_PER_TABLE = EntriesPerPage * m
  BY TablesAssumption, PowersOfTwo
<1>2. PICK l \in Pow2 : MAX_RESULT_TABLE_ENTRIES = LogsPerPage * l
  BY TablesAssumption, PowersOfTwo
<1>3. m \in Nat \ {0} /\ l \in Nat \ {0}
  BY DEF Pow2
<1>4. EntriesPerPage * m \in Nat \ {0} /\ LogsPerPage * l \in Nat \ {0}
  BY <1>3, ConstantTypes
<1>5. QED
  BY <1>1, <1>2, <1>4, ConstantTypes DEF IsSize

\* Arrays: all n are full, but for the last, which is a power of two of pages.
ArrayShape(A, max, perPage, n, last) ==
  /\ n \in Nat \ {0} /\ last \in 1 .. max
  /\ A \in Seq(Seq(Int)) /\ Len(A) = n
  /\ \A a \in 1 .. n : Len(A[a]) = IF a = n THEN last ELSE max
  /\ \E d \in Pow2 : last = perPage * d

Capacity(max, n, last) == max * (n - 1) + last

Shape(t, max, perPage) ==
  /\ {"arrays", "capacity", "cnt"} \subseteq DOMAIN t
  /\ \E n, last : /\ ArrayShape(t.arrays, max, perPage, n, last)
                  /\ t.capacity = Capacity(max, n, last)
  /\ t.capacity \in Nat /\ t.cnt \in Nat /\ t.cnt <= t.capacity

\* The last array of a table that cannot be doubled is full.
LEMMA Doubling ==
  ASSUME NEW p \in Nat \ {0}, NEW m \in Pow2, NEW d \in Pow2, p * d <= p * m
  PROVE  /\ p * d * 2 > p * m => d = m
         /\ p * d * 2 <= p * m => 2 * d \in Pow2
<1>1. m \in Nat /\ d \in Nat
  BY DEF Pow2
<1>2. ~(m < d)
  <2>1. m < d => p * m + p <= p * d
    BY <1>1, MulGrows
  <2>2. p * m \in Nat /\ p * d \in Nat
    BY <1>1
  <2>3. QED
    BY <2>1, <2>2
<1>3. ASSUME p * d * 2 > p * m
      PROVE  ~(2 * d <= m)
  <2>1. CASE 2 * d = m
    BY <1>1, <1>3, <2>1
  <2>2. CASE 2 * d < m
    <3>1. p * (2 * d) + p <= p * m
      BY <1>1, <2>2, MulGrows
    <3>2. QED
      BY <1>1, <1>3, <3>1
  <2>3. QED
    BY <1>1, <2>1, <2>2
<1>4. ASSUME p * d * 2 <= p * m
      PROVE  ~(m < 2 * d)
  <2>1. m < 2 * d => p * m + p <= p * (2 * d)
    BY <1>1, MulGrows
  <2>2. p * m \in Nat /\ p * (2 * d) = p * d * 2
    BY <1>1
  <2>3. PICK x \in Nat : x = p * m
    BY <2>2
  <2>4. PICK y \in Nat : y = p * (2 * d)
    BY <1>1
  <2>5. y <= x
    BY <1>4, <2>2, <2>3, <2>4
  <2>6. m < 2 * d => x + p <= y
    BY <2>1, <2>3, <2>4
  <2>7. QED
    BY <2>5, <2>6
<1>5. ASSUME ~(m < d), ~(2 * d <= m) PROVE d = m
  BY <1>5 DEF Pow2
<1>6. ASSUME ~(m < 2 * d) PROVE 2 * d \in Pow2
  BY <1>6 DEF Pow2
<1>7. QED
  BY <1>2, <1>3, <1>4, <1>5, <1>6

\* The array of a position and the place in it.
Row(max, pos) == (pos \div max) + 1
Col(max, pos) == (pos % max) + 1

\* Below the capacity a position is in an array, inside it.
LEMMA InArray ==
  ASSUME NEW max \in Nat \ {0}, NEW n \in Nat \ {0}, NEW last \in 1 .. max,
         NEW pos \in Nat, pos < Capacity(max, n, last)
  PROVE  /\ Row(max, pos) \in 1 .. n
         /\ Col(max, pos) \in 1 .. (IF Row(max, pos) = n THEN last ELSE max)
<1>1. PICK q \in Nat, r \in 0 .. max - 1 :
        q = pos \div max /\ r = pos % max /\ pos = max * q + r
  BY DivMod
<1>2. PICK o \in Nat : o = max * (n - 1)
  OBVIOUS
<1>3. PICK m \in Nat : m = max * q
  OBVIOUS
<1>4. pos < o + last /\ pos = m + r
  BY <1>1, <1>2, <1>3 DEF Capacity
<1>5. ~(n - 1 < q)
  <2>1. n - 1 \in Nat
    OBVIOUS
  <2>2. n - 1 < q => o + max <= m
    BY <1>2, <1>3, <2>1, MulGrows
  <2>3. QED
    BY <1>4, <2>2
<1>6. q + 1 \in 1 .. n
  BY <1>5
<1>7. q + 1 = n => m = o
  BY <1>2, <1>3
<1>8. r + 1 \in 1 .. (IF q + 1 = n THEN last ELSE max)
  BY <1>4, <1>7
<1>9. QED
  BY <1>1, <1>6, <1>8 DEF Row, Col

\* Two positions at the same place are the same.
LEMMA SamePlace ==
  ASSUME NEW max \in Nat \ {0}, NEW p \in Nat, NEW q \in Nat,
         Row(max, p) = Row(max, q), Col(max, p) = Col(max, q)
  PROVE  p = q
<1>1. PICK a \in Nat, i \in 0 .. max - 1 : a = p \div max /\ i = p % max /\ p = max * a + i
  BY DivMod
<1>2. PICK b \in Nat, j \in 0 .. max - 1 : b = q \div max /\ j = q % max /\ q = max * b + j
  BY DivMod
<1>3. a = b /\ i = j
  BY <1>1, <1>2 DEF Row, Col
<1>4. QED
  BY <1>1, <1>2, <1>3

LEMMA AtIs ==
  ASSUME NEW t, NEW max, NEW pos
  PROVE  At(t, max, pos) =
           IF Row(max, pos) <= Len(t.arrays) /\ Col(max, pos) <= Len(t.arrays[Row(max, pos)])
           THEN t.arrays[Row(max, pos)][Col(max, pos)] ELSE -1
  BY DEF At, Row, Col

\* Position pos is below the capacity of a table of n arrays; it is at its place.
InTable(t, max, perPage, n, last, pos) ==
  /\ IsSize(max, perPage) /\ ArrayShape(t.arrays, max, perPage, n, last)
  /\ pos \in Nat /\ pos < Capacity(max, n, last)

AtPlace(t, max, n, pos) ==
  /\ Row(max, pos) \in 1 .. n /\ Col(max, pos) \in 1 .. Len(t.arrays[Row(max, pos)])
  /\ At(t, max, pos) = t.arrays[Row(max, pos)][Col(max, pos)]

\* Where position pos of a table is, below the capacity.
LEMMA ArrayPlace ==
  ASSUME NEW t, NEW max, NEW perPage, NEW n, NEW last, NEW pos,
         InTable(t, max, perPage, n, last, pos)
  PROVE  AtPlace(t, max, n, pos)
<1> USE DEF InTable
<1>1. PICK a, i : a = Row(max, pos) /\ i = Col(max, pos)
  OBVIOUS
<1>2. max \in Nat \ {0} /\ n \in Nat \ {0} /\ last \in 1 .. max
  BY DEF IsSize, ArrayShape
<1>3. a \in 1 .. n /\ i \in 1 .. (IF a = n THEN last ELSE max)
  BY <1>1, <1>2, InArray
<1>4. i \in 1 .. Len(t.arrays[a]) /\ a <= Len(t.arrays)
  BY <1>3 DEF ArrayShape
<1>5. i <= Len(t.arrays[a])
  BY <1>2, <1>3, <1>4
<1>6. At(t, max, pos) = t.arrays[a][i]
  BY <1>1, <1>4, <1>5, AtIs
<1>7. QED
  BY <1>1, <1>3, <1>4, <1>6 DEF AtPlace

\* An entry of an array of arrays is replaced.
LEMMA NestedExcept ==
  ASSUME NEW A \in Seq(Seq(Int)), NEW a \in 1 .. Len(A), NEW i \in 1 .. Len(A[a]), NEW e \in Int,
         NEW B, B = [A EXCEPT ![a][i] = e]
  PROVE  /\ B \in Seq(Seq(Int)) /\ Len(B) = Len(A)
         /\ \A b \in 1 .. Len(A) : Len(B[b]) = Len(A[b])
         /\ \A b \in 1 .. Len(A) : \A j \in 1 .. Len(A[b]) :
              B[b][j] = IF b = a /\ j = i THEN e ELSE A[b][j]
<1>1. PICK s \in Seq(Int) : s = A[a]
  OBVIOUS
<1>2. PICK u : u = [s EXCEPT ![i] = e]
  OBVIOUS
<1>3. /\ u \in Seq(Int) /\ Len(u) = Len(s)
      /\ \A j \in 1 .. Len(s) : u[j] = IF j = i THEN e ELSE s[j]
  BY <1>1, <1>2, ExceptSeq
<1>4. B = [A EXCEPT ![a] = u]
  BY <1>1, <1>2
<1>5. DOMAIN A = 1 .. Len(A)
  OBVIOUS
<1>6. \A b \in 1 .. Len(A) : B[b] = IF b = a THEN u ELSE A[b]
  BY <1>4, <1>5
<1>7. B \in Seq(Seq(Int)) /\ Len(B) = Len(A)
  <2>0. Len(A) \in Nat
    BY LenProperties
  <2>1. PICK n \in Nat : n = Len(A)
    BY <2>0
  <2>2. \A b \in 1 .. n : B[b] \in Seq(Int)
    BY <1>3, <1>6, <2>1
  <2>3. B \in [1 .. n -> Seq(Int)]
    BY <1>4, <1>5, <2>1, <2>2
  <2>4. QED
    BY <2>1, <2>3, IntervalSeq
<1>8. QED
  BY <1>1, <1>3, <1>6, <1>7

\* Storing an entry in a table with room: the entry is at the end, all others
\* are as before.
LEMMA StoredTable ==
  ASSUME NEW t, NEW max, NEW perPage, IsSize(max, perPage), Shape(t, max, perPage),
         t.cnt < t.capacity, NEW e \in Int, NEW u, u = Stored(t, max, e)
  PROVE  /\ Shape(u, max, perPage)
         /\ DOMAIN u = DOMAIN t /\ \A x \in DOMAIN t \ {"arrays", "cnt"} : u[x] = t[x]
         /\ u.cnt = t.cnt + 1 /\ Len(u.arrays) = Len(t.arrays)
         /\ At(u, max, t.cnt) = e
         /\ \A pos \in 0 .. t.cnt - 1 : At(u, max, pos) = At(t, max, pos)
<1>1. PICK c \in Nat, cap \in Nat : c = t.cnt /\ cap = t.capacity /\ c < cap
  BY DEF Shape
<1>2. PICK n, last : ArrayShape(t.arrays, max, perPage, n, last) /\ cap = Capacity(max, n, last)
  BY <1>1 DEF Shape
<1>3. PICK A \in Seq(Seq(Int)) : A = t.arrays /\ Len(A) = n
  BY <1>2 DEF ArrayShape
<1>4. PICK a, i : /\ a = Row(max, c) /\ i = Col(max, c)
                  /\ a \in 1 .. Len(A) /\ i \in 1 .. Len(A[a])
  <2>1. InTable(t, max, perPage, n, last, c)
    BY <1>1, <1>2 DEF InTable
  <2>2. AtPlace(t, max, n, c)
    BY <2>1, ArrayPlace, Zenon
  <2>3. QED
    BY <1>3, <2>2 DEF AtPlace
<1>5. PICK B : B = [A EXCEPT ![a][i] = e]
  OBVIOUS
<1>6. u = [t EXCEPT !.arrays = B, !.cnt = c + 1]
  <2>1. ~(t.cnt >= t.capacity)
    BY <1>1
  <2>2. u = [t EXCEPT !.arrays[a][i] = e, !.cnt = t.cnt + 1]
    BY <1>1, <1>4, <2>1 DEF Stored, Row, Col
  <2>3. QED
    BY <1>1, <1>3, <1>5, <2>2
<1>7. /\ DOMAIN u = DOMAIN t /\ \A x \in DOMAIN t \ {"arrays", "cnt"} : u[x] = t[x]
      /\ u.arrays = B /\ u.cnt = c + 1 /\ u.capacity = cap
  BY <1>1, <1>6 DEF Shape
<1>8. /\ B \in Seq(Seq(Int)) /\ Len(B) = Len(A)
      /\ \A b \in 1 .. Len(A) : Len(B[b]) = Len(A[b])
      /\ \A b \in 1 .. Len(A) : \A j \in 1 .. Len(A[b]) :
           B[b][j] = IF b = a /\ j = i THEN e ELSE A[b][j]
  BY <1>4, <1>5, NestedExcept
<1>9. ArrayShape(u.arrays, max, perPage, n, last)
  BY <1>2, <1>3, <1>7, <1>8 DEF ArrayShape
<1>10. Shape(u, max, perPage)
  <2>1. u.cnt \in Nat /\ u.capacity \in Nat /\ u.cnt <= u.capacity
    BY <1>1, <1>7
  <2>2. QED
    BY <1>2, <1>7, <1>9, <2>1 DEF Shape
<1>11. At(u, max, c) = e
  <2>1. At(u, max, c) = B[a][i]
    <3>1. InTable(u, max, perPage, n, last, c)
      BY <1>1, <1>2, <1>9 DEF InTable
    <3>2. AtPlace(u, max, n, c)
      BY <3>1, ArrayPlace, Zenon
    <3>3. QED
      BY <1>4, <1>7, <3>2 DEF AtPlace
  <2>2. QED
    BY <1>4, <1>8, <2>1
<1>12. ASSUME NEW pos \in 0 .. c - 1
       PROVE  At(u, max, pos) = At(t, max, pos)
  <2>1. pos \in Nat /\ pos < cap /\ pos # c
    BY <1>1
  <2>2. PICK b, j : /\ b = Row(max, pos) /\ j = Col(max, pos)
                    /\ b \in 1 .. Len(A) /\ j \in 1 .. Len(A[b])
                    /\ At(t, max, pos) = A[b][j]
    <3>1. InTable(t, max, perPage, n, last, pos)
      BY <1>2, <2>1 DEF InTable
    <3>2. AtPlace(t, max, n, pos)
      BY <3>1, ArrayPlace, Zenon
    <3>3. QED
      BY <1>3, <3>2 DEF AtPlace
  <2>3. At(u, max, pos) = B[b][j]
    <3>1. InTable(u, max, perPage, n, last, pos)
      BY <1>2, <1>9, <2>1 DEF InTable
    <3>2. AtPlace(u, max, n, pos)
      BY <3>1, ArrayPlace, Zenon
    <3>3. QED
      BY <1>7, <2>2, <3>2 DEF AtPlace
  <2>4. ~(b = a /\ j = i)
    <3>1. max \in Nat \ {0}
      BY DEF IsSize
    <3>2. QED
      BY <1>4, <2>1, <2>2, <3>1, SamePlace
  <2>5. QED
    BY <1>8, <2>2, <2>3, <2>4
<1>13. QED
  BY <1>1, <1>3, <1>7, <1>8, <1>10, <1>11, <1>12
\* A size is at least a page.
LEMMA PageInSize ==
  ASSUME NEW max, NEW perPage, IsSize(max, perPage)
  PROVE  perPage \in 1 .. max
<1>1. PICK m \in Pow2 : max = perPage * m
  BY DEF IsSize
<1>2. m \in Nat \ {0} /\ perPage \in Nat \ {0} /\ max \in Nat
  BY DEF Pow2, IsSize
<1>3. m > 1 => perPage * 1 + perPage <= perPage * m
  BY <1>2, MulGrows
<1>4. m = 1 => perPage * m = perPage
  BY <1>2
<1>5. PICK x \in Nat : x = perPage * m
  BY <1>1, <1>2
<1>6. m > 1 => perPage + perPage <= x
  BY <1>2, <1>3, <1>5
<1>7. QED
  BY <1>1, <1>2, <1>4, <1>5, <1>6

LEMMA ZerosSeq ==
  ASSUME NEW n \in Nat
  PROVE  Zeros(n) \in Seq(Int) /\ Len(Zeros(n)) = n
<1>1. Zeros(n) \in [1 .. n -> Int]
  BY DEF Zeros
<1>2. QED
  BY <1>1, IntervalSeq

\* The first n arrays of B extend those of A.
Extends(A, B, n) == \A b \in 1 .. n : \A j \in 1 .. Len(A[b]) : B[b][j] = A[b][j]

\* Arrays B of m, the last of l entries, extend the arrays A and have room for more.
Enlarges(A, max, perPage, n, last, B, m, l, more) ==
  /\ ArrayShape(B, max, perPage, m, l)
  /\ Capacity(max, m, l) = Capacity(max, n, last) + more
  /\ Extends(A, B, n)

\* The arrays of a full table grow by a new one ...
IsNew(A, max, perPage, n, B, k) ==
  /\ IsSize(max, perPage) /\ ArrayShape(A, max, perPage, n, max)
  /\ B = Append(A, Zeros(perPage)) /\ k = n + 1

LEMMA NewArray ==
  ASSUME NEW A, NEW max, NEW perPage, NEW n, NEW B, NEW k, IsNew(A, max, perPage, n, B, k)
  PROVE  Enlarges(A, max, perPage, n, max, B, k, perPage, perPage)
<1> USE DEF IsNew
<1>1. /\ n \in Nat \ {0} /\ A \in Seq(Seq(Int)) /\ Len(A) = n /\ max \in Nat \ {0}
      /\ \A a \in 1 .. n : Len(A[a]) = max
  BY DEF ArrayShape, IsSize
<1>2. perPage \in 1 .. max /\ perPage \in Nat \ {0}
  BY PageInSize DEF IsSize
<1>3. Zeros(perPage) \in Seq(Int) /\ Len(Zeros(perPage)) = perPage
  BY <1>2, ZerosSeq
<1>4. /\ B \in Seq(Seq(Int)) /\ Len(B) = k /\ \A b \in 1 .. n : B[b] = A[b]
      /\ B[k] = Zeros(perPage)
  BY <1>1, <1>3, AppendProperties
<1>5. perPage = perPage * 1 /\ 1 \in Pow2
  BY <1>2 DEF Pow2
<1>6. \A b \in 1 .. k : Len(B[b]) = IF b = k THEN perPage ELSE max
  BY <1>1, <1>3, <1>4
<1>7. ArrayShape(B, max, perPage, k, perPage)
  BY <1>1, <1>2, <1>4, <1>5, <1>6 DEF ArrayShape
<1>8. Capacity(max, k, perPage) = Capacity(max, n, max) + perPage
  <2>1. PICK j \in Nat : j = n - 1
    BY <1>1
  <2>2. max * (j + 1) = max * j + max
    BY <1>1
  <2>3. k - 1 = j + 1
    BY <1>1, <2>1
  <2>4. max * j \in Nat
    BY <1>1, <2>1
  <2>5. QED
    BY <1>1, <1>2, <2>1, <2>2, <2>3, <2>4 DEF Capacity
<1>9. QED
  BY <1>4, <1>7, <1>8 DEF Extends, Enlarges

\* ... or by doubling the last one.
IsDoubled(A, max, perPage, n, last, B, k) ==
  /\ IsSize(max, perPage) /\ ArrayShape(A, max, perPage, n, last) /\ last * 2 <= max
  /\ B = [A EXCEPT ![n] = A[n] \o Zeros(last)] /\ k = last * 2

LEMMA DoubledArray ==
  ASSUME NEW A, NEW max, NEW perPage, NEW n, NEW last, NEW B, NEW k,
         IsDoubled(A, max, perPage, n, last, B, k)
  PROVE  Enlarges(A, max, perPage, n, last, B, n, k, last)
<1> USE DEF IsDoubled
<1>1. /\ n \in Nat \ {0} /\ A \in Seq(Seq(Int)) /\ Len(A) = n /\ max \in Nat \ {0}
      /\ last \in 1 .. max /\ last \in Nat \ {0}
      /\ \A a \in 1 .. n : Len(A[a]) = IF a = n THEN last ELSE max
  BY DEF ArrayShape, IsSize
<1>2. PICK m \in Pow2, d \in Pow2 : max = perPage * m /\ last = perPage * d
  BY DEF ArrayShape, IsSize
<1>3. perPage \in Nat \ {0} /\ d \in Nat
  BY DEF IsSize, Pow2
<1>4. 2 * d \in Pow2
  <2>1. perPage * d <= perPage * m /\ perPage * d * 2 <= perPage * m
    BY <1>1, <1>2
  <2>2. QED
    BY <1>3, <2>1, Doubling
<1>5. k = perPage * (2 * d)
  BY <1>2, <1>3
<1>6. PICK s \in Seq(Int) : s = A[n] /\ Len(s) = last
  BY <1>1
<1>7. PICK z \in Seq(Int) : z = Zeros(last) /\ Len(z) = last
  BY <1>1, ZerosSeq
<1>8. PICK w \in Seq(Int) : w = s \o z /\ Len(w) = k /\ \A j \in 1 .. last : w[j] = s[j]
  <2>1. s \o z \in Seq(Int) /\ Len(s \o z) = last + last
    <3>1. s \o z \in Seq(Int) /\ Len(s \o z) = Len(s) + Len(z)
      BY ConcatProperties
    <3>2. QED
      BY <1>6, <1>7, <3>1
  <2>2. \A j \in 1 .. last : (s \o z)[j] = s[j]
    BY <1>1, <1>6, <1>7, ConcatProperties
  <2>3. last + last = k
    BY <1>1
  <2>4. QED
    BY <2>1, <2>2, <2>3
<1>9. B = [A EXCEPT ![n] = w]
  BY <1>6, <1>7, <1>8
<1>10. n \in 1 .. Len(A)
  BY <1>1
<1>11. /\ B \in Seq(Seq(Int)) /\ Len(B) = n
       /\ \A b \in 1 .. n : B[b] = IF b = n THEN w ELSE A[b]
  <2>1. DOMAIN A = 1 .. n /\ \A b \in 1 .. n : A[b] \in Seq(Int)
    BY <1>1, LenProperties
  <2>2. \A b \in 1 .. n : B[b] = IF b = n THEN w ELSE A[b]
    BY <1>9, <2>1
  <2>3. B \in [1 .. n -> Seq(Int)]
    BY <1>8, <1>9, <2>1, <2>2
  <2>4. QED
    BY <1>1, <2>2, <2>3, IntervalSeq
<1>12. ArrayShape(B, max, perPage, n, k)
  <2>1. k \in 1 .. max
    BY <1>1
  <2>2. \A b \in 1 .. n : Len(B[b]) = IF b = n THEN k ELSE max
    BY <1>1, <1>8, <1>11
  <2>3. QED
    BY <1>1, <1>4, <1>5, <1>11, <2>1, <2>2 DEF ArrayShape
<1>13. Capacity(max, n, k) = Capacity(max, n, last) + last
  <2>1. PICK o \in Nat : o = max * (n - 1)
    BY <1>1
  <2>2. QED
    BY <1>1, <2>1 DEF Capacity
<1>14. \A b \in 1 .. n : \A j \in 1 .. Len(A[b]) : B[b][j] = A[b][j]
  BY <1>6, <1>8, <1>11
<1>15. QED
  BY <1>12, <1>13, <1>14 DEF Extends, Enlarges
\* What growing and storing leave alone.
SameOther(t, u) ==
  /\ DOMAIN u = DOMAIN t
  /\ \A x \in DOMAIN t \ {"arrays", "capacity", "cnt"} : u[x] = t[x]

SamePrefix(t, u, max, n) == \A pos \in Nat : pos < n => At(u, max, pos) = At(t, max, pos)

\* An array is added only when the others are full of entries.
Compact(t, max) == Len(t.arrays) = 1 \/ max * (Len(t.arrays) - 1) < t.cnt

\* Growing a full table makes room and moves nothing.
Growth(t, max, perPage, u) ==
  /\ IsSize(max, perPage) /\ Shape(t, max, perPage)
  /\ t.cnt = t.capacity /\ u = Grown(t, max, perPage)

Grows(t, max, perPage, u) ==
  /\ Shape(u, max, perPage) /\ SameOther(t, u)
  /\ u.cnt = t.cnt /\ u.cnt < u.capacity
  /\ SamePrefix(t, u, max, t.cnt)
  /\ Len(u.arrays) = Len(t.arrays) \/ max * (Len(u.arrays) - 1) = t.cnt

LEMMA GrownTable ==
  ASSUME NEW t, NEW max, NEW perPage, NEW u, Growth(t, max, perPage, u)
  PROVE  Grows(t, max, perPage, u)
<1> USE DEF Growth
<1>1. PICK c \in Nat : c = t.cnt /\ c = t.capacity
  BY DEF Shape
<1>2. PICK n, last : ArrayShape(t.arrays, max, perPage, n, last) /\ c = Capacity(max, n, last)
  BY <1>1 DEF Shape
<1>3. /\ n \in Nat \ {0} /\ last \in 1 .. max /\ last \in Nat \ {0} /\ max \in Nat \ {0}
      /\ perPage \in Nat \ {0} /\ Len(t.arrays) = n
  BY <1>2 DEF ArrayShape, IsSize
<1>4. PICK A : A = t.arrays
  OBVIOUS
<1>5. {"arrays", "capacity", "cnt"} \subseteq DOMAIN t
  BY DEF Shape
<1>6. t.capacity - max * (Len(t.arrays) - 1) = last
  <2>1. PICK o \in Nat : o = max * (n - 1)
    BY <1>3
  <2>2. c = o + last
    BY <1>2, <2>1 DEF Capacity
  <2>3. QED
    BY <1>1, <1>3, <2>1, <2>2
\* It suffices to know the new arrays.
<1>7. ASSUME NEW B, NEW m, NEW l, ArrayShape(B, max, perPage, m, l),
             NEW more \in Nat \ {0}, Capacity(max, m, l) = c + more,
             u = [t EXCEPT !.arrays = B, !.capacity = c + more],
             Extends(A, B, n)
      PROVE  /\ Shape(u, max, perPage) /\ SameOther(t, u)
             /\ u.cnt = t.cnt /\ u.cnt < u.capacity /\ u.arrays = B
             /\ SamePrefix(t, u, max, t.cnt)
  <2>1. u.arrays = B /\ u.capacity = c + more /\ u.cnt = c
    BY <1>1, <1>5, <1>7
  <2>2. SameOther(t, u)
    BY <1>5, <1>7 DEF SameOther
  <2>3. Shape(u, max, perPage)
    <3>1. u.cnt \in Nat /\ u.capacity \in Nat /\ u.cnt <= u.capacity
      BY <2>1
    <3>2. {"arrays", "capacity", "cnt"} \subseteq DOMAIN u
      BY <1>5, <2>2 DEF SameOther
    <3>3. QED
      BY <1>7, <2>1, <3>1, <3>2 DEF Shape
  <2>4. ASSUME NEW pos \in Nat, pos < c
        PROVE  At(u, max, pos) = At(t, max, pos)
    <3>1. InTable(t, max, perPage, n, last, pos)
      BY <1>2, <2>4 DEF InTable
    <3>2. pos < Capacity(max, m, l)
      BY <1>7, <2>4
    <3>3. InTable(u, max, perPage, m, l, pos)
      BY <1>7, <2>1, <3>2 DEF InTable
    <3>4. AtPlace(t, max, n, pos)
      BY <3>1, ArrayPlace, Zenon
    <3>5. AtPlace(u, max, m, pos)
      BY <3>3, ArrayPlace, Zenon
    <3>6. QED
      BY <1>4, <1>7, <2>1, <3>4, <3>5 DEF AtPlace, Extends
  <2>5. QED
    BY <1>1, <2>1, <2>2, <2>3, <2>4 DEF SamePrefix
<1>8. CASE last * 2 > max
  <2>1. last = max
    <3>1. PICK m \in Pow2, d \in Pow2 : max = perPage * m /\ last = perPage * d
      BY <1>2 DEF ArrayShape, IsSize
    <3>2. perPage * d <= perPage * m /\ perPage * d * 2 > perPage * m
      BY <1>3, <1>8, <3>1
    <3>3. d = m
      BY <1>3, <3>2, Doubling
    <3>4. QED
      BY <3>1, <3>3
  <2>2. PICK B, k : B = Append(A, Zeros(perPage)) /\ k = n + 1
    OBVIOUS
  <2>3. /\ ArrayShape(B, max, perPage, k, perPage)
        /\ Capacity(max, k, perPage) = c + perPage
        /\ Extends(A, B, n)
    <3>1. ArrayShape(A, max, perPage, n, max) /\ c = Capacity(max, n, max)
      BY <1>2, <1>4, <2>1
    <3>2. IsNew(A, max, perPage, n, B, k)
      BY <2>2, <3>1 DEF IsNew
    <3>3. Enlarges(A, max, perPage, n, max, B, k, perPage, perPage)
      BY <3>2, NewArray, Zenon
    <3>4. QED
      BY <3>1, <3>3 DEF Enlarges
  <2>4. u = [t EXCEPT !.arrays = B, !.capacity = c + perPage]
    BY <1>1, <1>4, <1>6, <1>8, <2>2 DEF Grown
  <2>5. /\ Shape(u, max, perPage) /\ SameOther(t, u)
        /\ u.cnt = t.cnt /\ u.cnt < u.capacity /\ u.arrays = B
        /\ SamePrefix(t, u, max, t.cnt)
    BY <1>3, <1>7, <2>3, <2>4, Zenon
  <2>6. max * (Len(B) - 1) = c
    <3>1. Len(B) = k
      BY <2>3 DEF ArrayShape
    <3>2. Len(B) - 1 = n
      BY <1>3, <2>2, <3>1
    <3>3. c = max * (n - 1) + max
      BY <1>2, <2>1 DEF Capacity
    <3>4. max * (n - 1) + max = max * n
      BY <1>3
    <3>5. QED
      BY <3>2, <3>3, <3>4
  <2>7. QED
    BY <1>1, <2>5, <2>6 DEF Grows
<1>9. CASE ~(last * 2 > max)
  <2>1. last * 2 <= max
    BY <1>3, <1>9
  <2>2. PICK B, k : B = [A EXCEPT ![n] = A[n] \o Zeros(last)] /\ k = last * 2
    OBVIOUS
  <2>3. /\ ArrayShape(B, max, perPage, n, k)
        /\ Capacity(max, n, k) = c + last
        /\ Extends(A, B, n)
    <3>1. ArrayShape(A, max, perPage, n, last)
      BY <1>2, <1>4
    <3>2. IsDoubled(A, max, perPage, n, last, B, k)
      BY <2>1, <2>2, <3>1 DEF IsDoubled
    <3>3. Enlarges(A, max, perPage, n, last, B, n, k, last)
      BY <3>2, DoubledArray, Zenon
    <3>4. QED
      BY <1>2, <3>3 DEF Enlarges
  <2>4. u = [t EXCEPT !.arrays = B, !.capacity = c + last]
    <3>1. u = [t EXCEPT !.arrays[n] = @ \o Zeros(last), !.capacity = @ + last]
      BY <1>3, <1>6, <1>9 DEF Grown
    <3>2. QED
      BY <1>1, <1>4, <2>2, <3>1
  <2>5. /\ Shape(u, max, perPage) /\ SameOther(t, u)
        /\ u.cnt = t.cnt /\ u.cnt < u.capacity /\ u.arrays = B
        /\ SamePrefix(t, u, max, t.cnt)
    BY <1>3, <1>7, <2>3, <2>4, Zenon
  <2>6. Len(B) = n
    BY <2>3 DEF ArrayShape
  <2>7. QED
    BY <1>3, <2>5, <2>6 DEF Grows
<1>10. QED
  BY <1>8, <1>9
\* Every position of a table reads as a number.
LEMMA AtInt ==
  ASSUME NEW t, NEW max, NEW perPage, IsSize(max, perPage), Shape(t, max, perPage)
  PROVE  \A pos \in Nat : At(t, max, pos) \in Int
<1>1. t.arrays \in Seq(Seq(Int)) /\ max \in Nat \ {0}
  BY DEF Shape, ArrayShape, IsSize
<1>2. ASSUME NEW pos \in Nat PROVE At(t, max, pos) \in Int
  <2>1. PICK q \in Nat, r \in 0 .. max - 1 : q = pos \div max /\ r = pos % max
    BY <1>1, DivMod
  <2>2. PICK a \in Nat \ {0}, i \in Nat \ {0} : a = Row(max, pos) /\ i = Col(max, pos)
    <3>1. q + 1 \in Nat \ {0} /\ r + 1 \in Nat \ {0}
      BY <1>1
    <3>2. Row(max, pos) = q + 1 /\ Col(max, pos) = r + 1
      BY <2>1 DEF Row, Col
    <3>3. QED
      BY <3>1, <3>2, Zenon
  <2>3. CASE a <= Len(t.arrays) /\ i <= Len(t.arrays[a])
    <3>1. a \in 1 .. Len(t.arrays)
      BY <1>1, <2>3
    <3>2. t.arrays[a] \in Seq(Int)
      BY <1>1, <3>1
    <3>3. i \in 1 .. Len(t.arrays[a])
      BY <2>3, <3>2
    <3>4. t.arrays[a][i] \in Int
      BY <3>2, <3>3
    <3>5. QED
      BY <2>2, <2>3, <3>4, AtIs
  <2>4. CASE ~(a <= Len(t.arrays) /\ i <= Len(t.arrays[a]))
    BY <2>2, <2>4, AtIs
  <2>5. QED
    BY <2>3, <2>4
<1>3. QED
  BY <1>2

\* The entry e is inserted in t, making room first if need be.
Insertion(t, max, perPage, r, e, u) ==
  /\ IsSize(max, perPage) /\ Shape(t, max, perPage)
  /\ r \in Roomy(t, max, perPage) /\ e \in Int /\ u = Stored(r, max, e)

Refused(t, u) == u = t

Accepted(t, max, e, u) ==
  /\ u.cnt = t.cnt + 1 /\ At(u, max, t.cnt) = e
  /\ Compact(t, max) => Compact(u, max)

Inserts(t, max, perPage, e, u) ==
  /\ Shape(u, max, perPage) /\ SameOther(t, u) /\ SamePrefix(t, u, max, t.cnt)
  /\ Refused(t, u) \/ Accepted(t, max, e, u)

\* An entry is refused, or goes behind the entries there are, which stay.
LEMMA InsertionInserts ==
  ASSUME NEW t, NEW max, NEW perPage, NEW r, NEW e, NEW u, Insertion(t, max, perPage, r, e, u)
  PROVE  r.cnt = t.cnt /\ Inserts(t, max, perPage, e, u)
<1>1. /\ IsSize(max, perPage) /\ Shape(t, max, perPage) /\ e \in Int /\ u = Stored(r, max, e)
      /\ max \in Nat \ {0}
  BY DEF Insertion, IsSize
<1>2. PICK c \in Nat, cap \in Nat : c = t.cnt /\ cap = t.capacity /\ c <= cap
  BY <1>1 DEF Shape
<1>3. CASE r = t /\ c = cap
  <2>1. u = t
    BY <1>1, <1>2, <1>3 DEF Stored
  <2>2. QED
    BY <1>1, <1>3, <2>1 DEF Inserts, Refused, SameOther, SamePrefix
<1>4. CASE r = t /\ c < cap
  <2>1. /\ Shape(u, max, perPage)
        /\ DOMAIN u = DOMAIN t /\ \A x \in DOMAIN t \ {"arrays", "cnt"} : u[x] = t[x]
        /\ u.cnt = t.cnt + 1 /\ Len(u.arrays) = Len(t.arrays)
        /\ At(u, max, t.cnt) = e
        /\ \A pos \in 0 .. t.cnt - 1 : At(u, max, pos) = At(t, max, pos)
    <3>1. t.cnt < t.capacity /\ u = Stored(t, max, e)
      BY <1>1, <1>2, <1>4
    <3>2. QED
      BY <1>1, <3>1, StoredTable
  <2>2. SameOther(t, u)
    BY <2>1 DEF SameOther
  <2>3. SamePrefix(t, u, max, t.cnt)
    BY <1>2, <2>1 DEF SamePrefix
  <2>4. Compact(t, max) => Compact(u, max)
    <3>1. Len(t.arrays) \in Nat
      BY <1>1 DEF Shape, ArrayShape
    <3>2. PICK o \in Int : o = max * (Len(t.arrays) - 1)
      BY <1>1, <3>1
    <3>3. QED
      BY <1>2, <2>1, <3>2 DEF Compact
  <2>5. QED
    BY <1>4, <2>1, <2>2, <2>3, <2>4 DEF Inserts, Accepted
<1>5. CASE c = cap /\ r = Grown(t, max, perPage)
  <2>1. /\ Shape(r, max, perPage) /\ SameOther(t, r)
        /\ r.cnt = t.cnt /\ r.cnt < r.capacity
        /\ SamePrefix(t, r, max, t.cnt)
        /\ \/ Len(r.arrays) = Len(t.arrays)
           \/ max * (Len(r.arrays) - 1) = t.cnt
    <3>1. t.cnt = t.capacity
      BY <1>2, <1>5
    <3>2. Growth(t, max, perPage, r)
      BY <1>1, <1>5, <3>1 DEF Growth
    <3>3. Grows(t, max, perPage, r)
      BY <3>2, GrownTable, Zenon
    <3>4. QED
      BY <3>3 DEF Grows
  <2>2. /\ Shape(u, max, perPage)
        /\ DOMAIN u = DOMAIN r /\ \A x \in DOMAIN r \ {"arrays", "cnt"} : u[x] = r[x]
        /\ u.cnt = r.cnt + 1 /\ Len(u.arrays) = Len(r.arrays)
        /\ At(u, max, r.cnt) = e
        /\ \A pos \in 0 .. r.cnt - 1 : At(u, max, pos) = At(r, max, pos)
    BY <1>1, <2>1, StoredTable
  <2>3. SameOther(t, u)
    BY <2>1, <2>2 DEF SameOther
  <2>4. SamePrefix(t, u, max, t.cnt)
    BY <1>2, <2>1, <2>2 DEF SamePrefix
  <2>5. Compact(t, max) => Compact(u, max)
    <3>1. Len(t.arrays) \in Nat /\ Len(u.arrays) \in Nat
      BY <1>1, <2>2 DEF Shape, ArrayShape
    <3>2. PICK o \in Int : o = max * (Len(t.arrays) - 1)
      BY <1>1, <3>1
    <3>3. PICK v \in Int : v = max * (Len(u.arrays) - 1)
      BY <1>1, <3>1
    <3>4. Len(u.arrays) = Len(t.arrays) \/ v = c
      BY <1>2, <2>1, <2>2, <3>3
    <3>5. Compact(t, max) <=> (Len(t.arrays) = 1 \/ o < c)
      BY <1>2, <3>2 DEF Compact
    <3>6. Compact(u, max) <=> (Len(u.arrays) = 1 \/ v < c + 1)
      BY <1>2, <2>1, <2>2, <3>3 DEF Compact
    <3>7. CASE v = c
      BY <3>6, <3>7
    <3>8. CASE Len(u.arrays) = Len(t.arrays)
      <4>1. v = o
        BY <3>2, <3>3, <3>8
      <4>2. QED
        BY <3>5, <3>6, <3>8, <4>1
    <3>9. QED
      BY <3>4, <3>7, <3>8
  <2>6. QED
    BY <2>1, <2>2, <2>3, <2>4, <2>5 DEF Inserts, Accepted
<1>6. QED
  BY <1>2, <1>3, <1>4, <1>5 DEF Insertion, Roomy
-----------------------------------------------------------------------------
(***************************************************************************)
(* The region of the map.                                                  *)
(***************************************************************************)

\* Page and array of a position: an array is m pages of E entries.
InPages(E, m, max, pos) ==
  /\ E \in Nat \ {0} /\ m \in Nat \ {0} /\ max = E * m /\ pos \in Nat

LEMMA MapEntry ==
  ASSUME NEW E, NEW m, NEW max, NEW pos, InPages(E, m, max, pos)
  PROVE  /\ Row(max, pos) = ((pos \div E) \div m) + 1
         /\ Col(max, pos) = (((pos \div E) % m) * E) + (pos % E) + 1
<1> USE DEF InPages
<1>1. PICK q \in Nat, r \in 0 .. E - 1 : q = pos \div E /\ r = pos % E /\ pos = E * q + r
  BY DivMod
<1>2. PICK b \in Nat, s \in 0 .. m - 1 : b = q \div m /\ s = q % m /\ q = m * b + s
  BY DivMod
<1>3. max \in Nat \ {0}
  OBVIOUS
<1>4. PICK v \in Nat : v = E * s
  OBVIOUS
<1>5. v + r \in 0 .. max - 1
  <2>1. E * s + E <= E * m
    BY MulGrows
  <2>2. QED
    BY <1>3, <1>4, <2>1
<1>6. pos = max * b + (v + r)
  <2>1. E * (m * b + s) = (E * m) * b + E * s
    BY <1>2
  <2>2. E * q = max * b + v
    BY <1>2, <1>4, <2>1
  <2>3. max * b \in Nat /\ E * q \in Nat
    BY <1>3
  <2>4. QED
    BY <1>1, <2>2, <2>3
<1>7. pos \div max = b /\ pos % max = v + r
  <2>1. PICK w \in 0 .. max - 1 : w = v + r
    BY <1>5
  <2>2. (max * b + w) \div max = b /\ (max * b + w) % max = w
    BY <1>3, DivModUnique
  <2>3. QED
    BY <1>6, <2>1, <2>2
<1>8. s * E = v
  BY <1>4
<1>9. QED
  BY <1>1, <1>2, <1>7, <1>8 DEF Row, Col

\* The pages of the map: page k is page (k - 1) % m of array (k - 1) \div m.
MapOf(m, N) == [k \in 1 .. N |-> <<((k - 1) \div m) + 1, ((k - 1) % m) * EntriesPerPage>>]

IsMap(t, m, N) ==
  /\ m \in Nat \ {0} /\ N \in Nat /\ MAX_CAPACITY_PER_TABLE = EntriesPerPage * m
  /\ MapPages(t) = MapOf(m, N) /\ Len(MapPages(t)) = N
  /\ t.capacity = EntriesPerPage * N

LEMMA MapPagesAre ==
  ASSUME NEW t, Shape(t, MAX_CAPACITY_PER_TABLE, EntriesPerPage)
  PROVE  \E m, N : IsMap(t, m, N)
<1>1. PICK E \in Nat \ {0} : E = EntriesPerPage
  BY ConstantTypes
<1>2. PICK max \in Nat \ {0} : max = MAX_CAPACITY_PER_TABLE
  BY Sizes DEF IsSize
<1>3. PICK m \in Pow2 : max = E * m
  BY <1>1, <1>2, Sizes DEF IsSize
<1>4. PICK n, last : /\ ArrayShape(t.arrays, max, E, n, last)
                     /\ t.capacity = Capacity(max, n, last)
  BY <1>1, <1>2 DEF Shape
<1>5. PICK d \in Pow2 : last = E * d
  BY <1>4 DEF ArrayShape
<1>6. m \in Nat \ {0} /\ d \in Nat \ {0}
  BY DEF Pow2
<1>7. n \in Nat \ {0} /\ last \in 1 .. max /\ Len(t.arrays) = n
  BY <1>4 DEF ArrayShape
<1>8. d <= m
  <2>1. m < d => E * m + E <= E * d
    BY <1>6, MulGrows
  <2>2. E * d <= E * m /\ E * d \in Nat /\ E * m \in Nat
    BY <1>3, <1>5, <1>6, <1>7
  <2>3. PICK x \in Nat, y \in Nat : x = E * d /\ y = E * m
    BY <2>2
  <2>4. QED
    BY <1>6, <2>1, <2>2, <2>3
<1>9. PICK N \in Nat : N = m * (n - 1) + d
  BY <1>6, <1>7
<1>10. t.capacity = E * N
  <2>1. max * (n - 1) + last = E * (m * (n - 1) + d)
    BY <1>3, <1>5, <1>6, <1>7
  <2>2. QED
    BY <1>4, <1>9, <2>1 DEF Capacity
<1> DEFINE size(a) == IF a = n THEN d ELSE m
           pages(a) == (IF a = Len(t.arrays) THEN t.capacity - (a - 1) * MAX_CAPACITY_PER_TABLE
                        ELSE MAX_CAPACITY_PER_TABLE) \div EntriesPerPage
<1>11. ASSUME NEW a \in 1 .. n PROVE pages(a) = size(a)
  <2>1. (E * m) \div E = m /\ (E * d) \div E = d
    <3>1. 0 \in 0 .. E - 1 /\ m \in Nat /\ d \in Nat
      BY <1>6
    <3>2. (E * m + 0) \div E = m /\ (E * d + 0) \div E = d
      BY <3>1, DivModUnique
    <3>3. E * m + 0 = E * m /\ E * d + 0 = E * d
      BY <1>6
    <3>4. QED
      BY <3>2, <3>3
  <2>2. t.capacity - (n - 1) * max = last
    <3>1. PICK o \in Nat : o = max * (n - 1)
      BY <1>7
    <3>2. (n - 1) * max = o
      BY <1>7, <3>1
    <3>3. t.capacity = o + last
      BY <1>4, <3>1 DEF Capacity
    <3>4. QED
      BY <1>7, <3>2, <3>3
  <2>3. QED
    BY <1>1, <1>2, <1>3, <1>5, <1>7, <2>1, <2>2
<1>12. PICK f : f = MapOf(m, N)
  OBVIOUS
<1>13. f \in Seq(Nat \X Nat) /\ Len(f) = N
  <2>1. ASSUME NEW k \in 1 .. N
        PROVE  <<((k - 1) \div m) + 1, ((k - 1) % m) * E>> \in Nat \X Nat
    <3>1. PICK j \in Nat : j = k - 1
      OBVIOUS
    <3>2. PICK q \in Nat, r \in 0 .. m - 1 : q = j \div m /\ r = j % m
      BY <1>6, DivMod
    <3>3. r * E \in Nat /\ q + 1 \in Nat
      BY <1>6
    <3>4. QED
      BY <3>1, <3>2, <3>3
  <2>2. f \in [1 .. N -> Nat \X Nat]
    BY <1>1, <1>12, <2>1 DEF MapOf
  <2>3. QED
    BY <2>2, IntervalSeq
<1>14. ASSUME NEW a \in 1 .. n, NEW p \in 1 .. size(a)
       PROVE  f[m * (a - 1) + p] = <<a, (p - 1) * E>>
  <2>1. m * (a - 1) + p \in 1 .. N
    <3>1. m \in Nat /\ d \in Nat
      BY <1>6
    <3>2. QED
      BY <1>7, <1>9, <3>1, PlacesFit
  <2>2. PICK j \in Nat : j = a - 1
    BY <1>7
  <2>3. p \in Nat /\ p - 1 \in 0 .. m - 1
    BY <1>6, <1>8
  <2>4. PICK i \in 0 .. m - 1 : i = p - 1
    BY <2>3
  <2>5. (m * j + i) \div m = j /\ (m * j + i) % m = i
    BY <1>6, DivModUnique
  <2>6. PICK k \in 1 .. N : k = m * (a - 1) + p
    BY <2>1
  <2>7. k - 1 = m * j + i
    <3>1. PICK o \in Nat : o = m * (a - 1)
      BY <1>6, <1>7
    <3>2. QED
      BY <2>2, <2>3, <2>4, <2>6, <3>1
  <2>8. f[k] = <<((k - 1) \div m) + 1, ((k - 1) % m) * E>>
    BY <1>1, <1>12 DEF MapOf
  <2>9. f[k] = <<j + 1, i * E>>
    BY <2>5, <2>7, <2>8
  <2>10. j + 1 = a
    BY <2>2
  <2>11. QED
    BY <2>4, <2>6, <2>9, <2>10
<1>15. [a \in 1 .. Len(t.arrays) |-> [p \in 1 .. pages(a) |-> <<a, (p - 1) * EntriesPerPage>>]]
         = Cut(f, m, n, d)
  <2>1. ASSUME NEW a \in 1 .. n
        PROVE  [p \in 1 .. pages(a) |-> <<a, (p - 1) * EntriesPerPage>>]
                 = [p \in 1 .. size(a) |-> f[m * (a - 1) + p]]
    <3> HIDE DEF pages, size
    <3>1. QED
      BY <1>1, <1>11, <1>14
  <2> HIDE DEF pages
  <2>2. QED
    BY <1>7, <2>1 DEF Cut
<1>16. MapPages(t) = FlattenSeq(Cut(f, m, n, d))
  BY <1>15 DEF MapPages
<1>17. FlattenSeq(Cut(f, m, n, d)) = f
  <2>1. m \in Nat /\ d \in Nat
    BY <1>6
  <2>2. QED
    BY <1>7, <1>9, <1>13, <2>1, FlattenCut
<1>18. IsMap(t, m, N)
  BY <1>1, <1>2, <1>3, <1>6, <1>10, <1>12, <1>13, <1>16, <1>17 DEF IsMap
<1>19. QED
  BY <1>18, Zenon
\* The table lists s.
Lists(t, max, s) ==
  /\ Len(s) = t.cnt
  /\ \A pos \in Nat : pos < t.cnt => At(t, max, pos) = s[pos + 1]

\* What the server has of the map is the entries of the table.
LEMMA ServerMapIs ==
  ASSUME NEW t, Shape(t, MAX_CAPACITY_PER_TABLE, EntriesPerPage),
         NEW s \in Seq(Nat), Lists(t, MAX_CAPACITY_PER_TABLE, s)
  PROVE  ServerMap(t) = s
<1>1. PICK c \in Nat, cap \in Nat : c = t.cnt /\ cap = t.capacity /\ c <= cap
  BY DEF Shape
<1>2. PICK m, N : IsMap(t, m, N)
  BY MapPagesAre, Zenon
<1>3. PICK E \in Nat \ {0} : E = EntriesPerPage
  BY ConstantTypes
<1>4. PICK max \in Nat \ {0} : max = MAX_CAPACITY_PER_TABLE
  BY Sizes DEF IsSize
<1>5. /\ m \in Nat \ {0} /\ N \in Nat /\ max = E * m
      /\ MapPages(t) = MapOf(m, N) /\ Len(MapPages(t)) = N /\ cap = E * N
  BY <1>1, <1>2, <1>3, <1>4 DEF IsMap
<1>6. PICK n, last : /\ ArrayShape(t.arrays, max, E, n, last) /\ cap = Capacity(max, n, last)
  BY <1>1, <1>3, <1>4 DEF Shape
<1> DEFINE pg(e) == (e - 1) \div EntriesPerPage + 1
           entry(e) == IF pg(e) > Len(MapPages(t)) THEN -1
                       ELSE t.arrays[MapPages(t)[pg(e)][1]]
                                [MapPages(t)[pg(e)][2] + ((e - 1) % EntriesPerPage) + 1]
<1>7. ASSUME NEW e \in 1 .. c PROVE entry(e) = s[e]
  <2>1. PICK pos \in Nat : pos = e - 1 /\ pos < c
    BY <1>1
  <2>2. PICK q \in Nat, r \in 0 .. E - 1 : q = pos \div E /\ r = pos % E /\ pos = E * q + r
    BY DivMod
  <2>3. q < N
    <3>1. N < q => E * N + E <= E * q
      BY <1>5, MulGrows
    <3>2. E * q \in Nat
      OBVIOUS
    <3>3. PICK x \in Nat, y \in Nat : x = E * q /\ y = E * N
      BY <1>5, <3>2
    <3>4. pos < y /\ pos = x + r
      BY <1>1, <1>5, <2>1, <2>2, <3>3
    <3>5. N = q => x = y
      BY <3>3
    <3>6. QED
      BY <1>5, <3>1, <3>3, <3>4, <3>5
  <2>4. PICK k \in 1 .. N : k = q + 1 /\ k = pg(e)
    <3>1. q + 1 \in 1 .. N
      BY <1>5, <2>3
    <3>2. QED
      BY <1>3, <2>1, <2>2, <3>1
  <2>5. MapPages(t)[k] = <<(q \div m) + 1, (q % m) * E>>
    <3>1. k - 1 = q
      BY <2>4
    <3>2. QED
      BY <1>3, <1>5, <3>1 DEF MapOf
  <2>6. ~(pg(e) > Len(MapPages(t)))
    BY <1>5, <2>4
  <2>7. entry(e) = t.arrays[MapPages(t)[k][1]][MapPages(t)[k][2] + r + 1]
    BY <1>3, <2>1, <2>2, <2>4, <2>6
  <2>8. entry(e) = t.arrays[(q \div m) + 1][((q % m) * E) + r + 1]
    BY <2>5, <2>7
  <2>9. /\ Row(max, pos) = ((pos \div E) \div m) + 1
        /\ Col(max, pos) = (((pos \div E) % m) * E) + (pos % E) + 1
    <3>1. InPages(E, m, max, pos)
      BY <1>5 DEF InPages
    <3>2. QED
      BY <3>1, MapEntry, Zenon
  <2>10. entry(e) = t.arrays[Row(max, pos)][Col(max, pos)]
    BY <2>2, <2>8, <2>9
  <2>11. InTable(t, max, E, n, last, pos)
    <3>1. pos < cap /\ IsSize(max, E)
      BY <1>1, <1>3, <1>4, <2>1, Sizes
    <3>2. QED
      BY <1>6, <3>1 DEF InTable
  <2>12. AtPlace(t, max, n, pos)
    BY <2>11, ArrayPlace, Zenon
  <2>13. entry(e) = At(t, max, pos)
    <3> HIDE DEF entry
    <3> QED BY <2>10, <2>12 DEF AtPlace
  <2>14. pos + 1 = e
    BY <2>1
  <2>15. At(t, max, pos) = s[e]
    BY <1>1, <1>4, <2>1, <2>14 DEF Lists
  <2> HIDE DEF entry
  <2>16. QED
    BY <2>13, <2>15
<1>8. ServerMap(t) = [e \in 1 .. c |-> entry(e)]
  BY <1>1 DEF ServerMap
<1>9. s = [e \in 1 .. c |-> s[e]]
  <2>1. Len(s) = c /\ DOMAIN s = 1 .. Len(s)
    BY <1>1, LenProperties DEF Lists
  <2>2. QED
    BY <2>1
<1> HIDE DEF entry
<1>10. QED
  BY <1>7, <1>8, <1>9

\* What the registration insists on.
LEMMA TableRegistrable ==
  ASSUME NEW t, Shape(t, MAX_CAPACITY_PER_TABLE, EntriesPerPage),
         Lists(t, MAX_CAPACITY_PER_TABLE, t.xa), Compact(t, MAX_CAPACITY_PER_TABLE),
         t.cnt <= MAX_VA_ARRAYS * MAX_CAPACITY_PER_TABLE,
         MAX_VA_ARRAYS * MAX_CAPACITY_PER_TABLE < EntriesPerPage * MAX_PAGES_IN_SGL
  PROVE  Registrable(t)
<1>1. PICK c \in Nat, cap \in Nat : c = t.cnt /\ cap = t.capacity /\ c <= cap
  BY DEF Shape
<1>2. PICK m, N : IsMap(t, m, N)
  BY MapPagesAre, Zenon
<1>3. PICK E \in Nat \ {0} : E = EntriesPerPage
  BY ConstantTypes
<1>4. PICK max \in Nat \ {0} : max = MAX_CAPACITY_PER_TABLE
  BY Sizes DEF IsSize
<1>5. N \in Nat /\ Len(MapPages(t)) = N /\ cap = E * N
  BY <1>1, <1>2, <1>3, <1>4 DEF IsMap
<1>6. PICK n, last : /\ ArrayShape(t.arrays, max, E, n, last) /\ cap = Capacity(max, n, last)
  BY <1>1, <1>3, <1>4 DEF Shape
<1>7. n \in Nat \ {0} /\ last \in 1 .. max /\ Len(t.arrays) = n
  BY <1>6 DEF ArrayShape
<1>8. PICK A \in Nat \ {0}, M \in Nat \ {0} : A = MAX_VA_ARRAYS /\ M = MAX_PAGES_IN_SGL
  BY ConstantTypes
<1>9. PICK x \in Nat : x = max * A
  OBVIOUS
<1>10. PICK o \in Nat : o = max * (n - 1)
  BY <1>7
<1>11. c <= x /\ x < E * M
  <2>1. A * max = max * A
    OBVIOUS
  <2>2. QED
    BY <1>1, <1>3, <1>4, <1>8, <1>9, <2>1
<1>12. n <= A
  <2>1. n = 1 \/ o < c
    BY <1>1, <1>4, <1>7, <1>10 DEF Compact
  <2>2. PICK k \in Nat : k = n - 1
    BY <1>7
  <2>3. A < k => x + max <= o
    BY <1>9, <1>10, <2>2, MulGrows
  <2>4. A = k => x = o
    BY <1>9, <1>10, <2>2
  <2>5. o < c => k < A
    BY <1>11, <2>2, <2>3, <2>4
  <2>6. QED
    BY <1>7, <2>1, <2>2, <2>5
<1>13. cap <= x
  <2>1. PICK k \in Nat : k = n - 1
    BY <1>7
  <2>2. k < A
    BY <1>7, <1>12, <2>1
  <2>3. o + max <= x
    BY <1>9, <1>10, <2>1, <2>2, MulGrows
  <2>4. cap = o + last
    BY <1>6, <1>10 DEF Capacity
  <2>5. QED
    BY <1>7, <2>3, <2>4
<1>14. N < M
  <2>1. M < N => E * M + E <= E * N
    BY <1>5, MulGrows
  <2>2. PICK y \in Nat, z \in Nat : y = E * M /\ z = E * N
    BY <1>5
  <2>3. M = N => y = z
    BY <2>2
  <2>4. z <= x /\ x < y
    BY <1>5, <1>11, <1>13, <2>2
  <2>5. QED
    BY <1>5, <2>1, <2>2, <2>3, <2>4
<1>15. N * E = cap
  BY <1>5
<1>16. ASSUME NEW idx \in 0 .. c - 1 PROVE t.xa[idx + 1] = get_va_at(t, idx)
  <2>1. idx \in Nat /\ idx < c
    BY <1>1
  <2>2. QED
    BY <1>1, <2>1 DEF Lists, get_va_at
<1>17. Len(t.xa) >= t.cnt
  BY <1>1 DEF Lists
<1>18. QED
  BY <1>1, <1>3, <1>5, <1>7, <1>8, <1>12, <1>14, <1>15, <1>16, <1>17 DEF Registrable
-----------------------------------------------------------------------------
(***************************************************************************)
(* The clean-up frees what the registration allocated.                     *)
(***************************************************************************)

\* The freeing loop finds every chain entry.
LEMMA FreedAll ==
  ASSUME NEW n
  PROVE  FreedChunks(n) = 0 .. ChunkCount(n) - 1
<1>1. SG_CHUNK_SIZE = (SG_CHUNK_SIZE - 1) + 1
  BY ConstantTypes
<1>2. ASSUME NEW d
      PROVE  IF d = ChunkCount(n) - 1 THEN FreedSize(n, d) = ChunkPages(n, d)
                                      ELSE FreedSize(n, d) = ChunkPages(n, d) + 1
  BY <1>1 DEF FreedSize, ChunkPages
<1>3. QED
  BY <1>2 DEF FreedChunks

LEMMA ReleasedAllocated ==
  ASSUME NEW name, NEW pages, NEW num, num = Regions(pages)
  PROVE  Released(name, pages, num) = Allocated(name, pages)
<1> DEFINE S(r) == {<<name, r, c>> : c \in FreedChunks(RegionSize(pages, num, r))}
           T(r) == {<<name, r, c>> : c \in 0 .. ChunkCount(RegionSize(pages, num, r)) - 1}
<1>1. \A r : S(r) = T(r)
  BY FreedAll
<1>2. Released(name, pages, num) = UNION {S(r) : r \in 0 .. num - 1}
  BY DEF Released
<1>3. Allocated(name, pages) = UNION {T(r) : r \in 0 .. num - 1}
  BY DEF Allocated
<1> HIDE DEF S, T
<1>4. QED
  BY <1>1, <1>2, <1>3

LEMMA AllocatedNames ==
  ASSUME NEW name, NEW pages, NEW x \in Allocated(name, pages)
  PROVE  x[1] = name
  BY DEF Allocated

\* The tables at their creation.
LEMMA NewTableShape ==
  ASSUME NEW max, NEW perPage, IsSize(max, perPage), NEW t,
         {"arrays", "capacity", "cnt"} \subseteq DOMAIN t,
         t.arrays = <<Zeros(perPage)>>, t.capacity = perPage, t.cnt = 0
  PROVE  Shape(t, max, perPage) /\ Len(t.arrays) = 1
<1>2. perPage \in 1 .. max /\ perPage \in Nat \ {0} /\ max \in Nat \ {0}
  BY PageInSize DEF IsSize
<1>3. Zeros(perPage) \in Seq(Int) /\ Len(Zeros(perPage)) = perPage
  BY <1>2, ZerosSeq
<1>4. PICK A : A = <<Zeros(perPage)>>
  OBVIOUS
<1>5. A \in Seq(Seq(Int)) /\ Len(A) = 1 /\ A[1] = Zeros(perPage)
  BY <1>3, <1>4
<1>6. perPage = perPage * 1 /\ 1 \in Pow2
  BY <1>2 DEF Pow2
<1>7. ArrayShape(A, max, perPage, 1, perPage)
  BY <1>2, <1>3, <1>5, <1>6 DEF ArrayShape
<1>8. Capacity(max, 1, perPage) = perPage
  <2>1. max * (1 - 1) = 0
    BY <1>2
  <2>2. QED
    BY <1>2, <2>1 DEF Capacity
<1>9. Shape(t, max, perPage)
  BY <1>2, <1>4, <1>7, <1>8 DEF Shape
<1>10. QED
  BY <1>4, <1>5, <1>9
-----------------------------------------------------------------------------
(***************************************************************************)
(* The inductive invariant.                                                *)
(***************************************************************************)

Phases == {"walk", "offload", "apply", "lost", "alone", "stopped", "undefined"}

PhaseOK == phase \in Phases /\ iter \in 0 .. MaxIterations /\ va \in 0 .. MaxPages

\* A shadow page table: its map and its xarray list the same pages.
ShadowOK(t) ==
  /\ DOMAIN t = {"arrays", "capacity", "cnt", "xa", "sgls"}
  /\ Shape(t, MAX_CAPACITY_PER_TABLE, EntriesPerPage) /\ t.xa \in Seq(Nat)
  /\ Lists(t, MAX_CAPACITY_PER_TABLE, t.xa) /\ Compact(t, MAX_CAPACITY_PER_TABLE)

\* The table in hand is there in the walk only, and where the walk lost its pointers.
WalkOK == shadow # NoTable => phase \in {"walk", "undefined"} /\ ShadowOK(shadow) /\ shadow.cnt <= va

IsSeq(s) == \E S : s \in Seq(S)

\* The tables of the list, none of them empty, and what the walk listed.
ListedOK(t, w) == ShadowOK(t) /\ t.cnt \in 1 .. MaxPages /\ w = t.xa

ListOK ==
  /\ IsSeq(pts) /\ walked \in Seq(Seq(Nat))
  /\ shadow = NoTable => Len(walked) = Len(pts)
  /\ shadow # NoTable => Len(walked) = Len(pts) + 1 /\ walked[Len(walked)] = shadow.xa
  /\ \A k \in 1 .. Len(pts) : ListedOK(pts[k], walked[k])

\* The table of errors lists the errors logged since it was cleared.
ErrorsOK ==
  /\ DOMAIN errtab = {"arrays", "capacity", "cnt", "registered", "sgls"}
  /\ Shape(errtab, MAX_RESULT_TABLE_ENTRIES, LogsPerPage) /\ errors \in Seq(Int)
  /\ Lists(errtab, MAX_RESULT_TABLE_ENTRIES, errors)

\* The scatter lists there are: those of the tables, and of the errors before the result.
ChunksOf(s) == UNION {Allocated(k, s[k].cnt) : k \in 1 .. Len(s)}

ListsBuilt(s) == \A k \in 1 .. Len(s) : s[k].sgls = Regions(s[k].cnt)

ErrorsBuilt ==
  errtab.registered = errtab.cnt /\ errtab.sgls = Regions(ErrorPages)

ChunksOK ==
  /\ phase \in {"walk", "alone"} => chunks = {}
  /\ phase \in {"offload", "apply", "lost"} => ListsBuilt(pts)
  /\ phase = "offload" => ErrorsBuilt /\ chunks = ChunksOf(pts) \cup Allocated(0, ErrorPages)
  /\ phase \in {"apply", "lost"} => chunks = ChunksOf(pts)

TablesInv == PhaseOK /\ WalkOK /\ ListOK /\ ErrorsOK /\ ChunksOK
\* At, Lists and Compact look at the arrays and the count only, Shape at the capacity too.
LEMMA SameView ==
  ASSUME NEW t, NEW u, u.arrays = t.arrays, u.cnt = t.cnt, u.capacity = t.capacity,
         {"arrays", "capacity", "cnt"} \subseteq DOMAIN u, NEW max, NEW perPage
  PROVE  /\ Shape(t, max, perPage) => Shape(u, max, perPage)
         /\ \A s : Lists(t, max, s) => Lists(u, max, s)
         /\ Compact(t, max) => Compact(u, max)
<1>1. Shape(t, max, perPage) => Shape(u, max, perPage)
  BY DEF Shape
<1>2. \A pos : At(u, max, pos) = At(t, max, pos)
  BY DEF At
<1>3. \A s : Lists(t, max, s) => Lists(u, max, s)
  BY <1>2 DEF Lists
<1>4. Compact(t, max) => Compact(u, max)
  BY DEF Compact
<1>5. QED
  BY <1>1, <1>3, <1>4

\* A list that grows with its table.
LEMMA InsertLists ==
  ASSUME NEW t, NEW max, NEW perPage, NEW e, NEW u, Inserts(t, max, perPage, e, u),
         t.cnt \in Nat, NEW V, e \in V, NEW s \in Seq(V), Lists(t, max, s)
  PROVE  /\ Refused(t, u) => Lists(u, max, s)
         /\ Accepted(t, max, e, u) => Lists(u, max, Append(s, e)) /\ Append(s, e) \in Seq(V)
<1>1. Refused(t, u) => Lists(u, max, s)
  BY DEF Refused
<1>2. ASSUME Accepted(t, max, e, u)
      PROVE  Lists(u, max, Append(s, e)) /\ Append(s, e) \in Seq(V)
  <2>1. PICK c \in Nat : c = t.cnt /\ u.cnt = c + 1 /\ At(u, max, c) = e /\ Len(s) = c
    BY <1>2 DEF Accepted, Lists
  <2>2. PICK w \in Seq(V) : /\ w = Append(s, e) /\ Len(w) = c + 1 /\ w[c + 1] = e
                            /\ \A i \in 1 .. c : w[i] = s[i]
    <3>1. /\ Append(s, e) \in Seq(V) /\ Len(Append(s, e)) = Len(s) + 1
          /\ \A i \in 1 .. Len(s) : Append(s, e)[i] = s[i]
          /\ Append(s, e)[Len(s) + 1] = e
      BY AppendProperties
    <3>2. QED
      BY <2>1, <3>1
  <2>3. ASSUME NEW pos \in Nat, pos < c + 1
        PROVE  At(u, max, pos) = w[pos + 1]
    <3>1. CASE pos = c
      BY <2>1, <2>2, <3>1
    <3>2. CASE pos < c
      <4>1. At(u, max, pos) = At(t, max, pos)
        BY <2>1, <3>2 DEF Inserts, SamePrefix
      <4>2. At(t, max, pos) = s[pos + 1]
        BY <2>1, <3>2 DEF Lists
      <4>3. w[pos + 1] = s[pos + 1]
        BY <2>2, <3>2
      <4>4. QED
        BY <4>1, <4>2, <4>3
    <3>3. QED
      BY <2>3, <3>1, <3>2
  <2>4. QED
    BY <2>1, <2>2, <2>3 DEF Lists
<1>3. QED
  BY <1>1, <1>2

\* insert_entry_to_shadow_mm on a table.
IsListing(t, r, e, u, v) ==
  /\ ShadowOK(t) /\ r \in Roomy(t, MAX_CAPACITY_PER_TABLE, EntriesPerPage) /\ e \in Nat
  /\ u = Stored(r, MAX_CAPACITY_PER_TABLE, e)
  /\ v = IF u.cnt > r.cnt THEN [u EXCEPT !.xa = Append(@, e)] ELSE u

LEMMA ListingOK ==
  ASSUME NEW t, NEW r, NEW e, NEW u, NEW v, IsListing(t, r, e, u, v)
  PROVE  /\ ShadowOK(v) /\ v.cnt \in Nat /\ t.cnt \in Nat /\ v.cnt <= t.cnt + 1
         /\ v.xa = IF u.cnt > r.cnt THEN Append(t.xa, e) ELSE t.xa
<1>1. PICK max, pp : max = MAX_CAPACITY_PER_TABLE /\ pp = EntriesPerPage
  OBVIOUS
<1>2. IsSize(max, pp)
  BY <1>1, Sizes
<1>3. /\ Shape(t, max, pp) /\ DOMAIN t = {"arrays", "capacity", "cnt", "xa", "sgls"}
      /\ t.xa \in Seq(Nat) /\ Lists(t, max, t.xa) /\ Compact(t, max) /\ t.cnt \in Nat
  BY <1>1 DEF IsListing, ShadowOK, Shape
<1>4. Insertion(t, max, pp, r, e, u)
  <2>1. e \in Int
    BY DEF IsListing
  <2>2. QED
    BY <1>1, <1>2, <1>3, <2>1 DEF Insertion, IsListing
<1>5. r.cnt = t.cnt /\ Inserts(t, max, pp, e, u)
  BY <1>4, InsertionInserts, Zenon
<1>6. /\ Shape(u, max, pp) /\ DOMAIN u = {"arrays", "capacity", "cnt", "xa", "sgls"}
      /\ u.xa = t.xa
  BY <1>3, <1>5 DEF Inserts, SameOther
<1>7. /\ Refused(t, u) => Lists(u, max, t.xa)
      /\ Accepted(t, max, e, u) => /\ Lists(u, max, Append(t.xa, e))
                                   /\ Append(t.xa, e) \in Seq(Nat)
  <2>1. e \in Nat
    BY DEF IsListing
  <2>2. QED
    BY <1>3, <1>5, <2>1, InsertLists
<1>8. CASE Refused(t, u)
  <2>1. v = t
    BY <1>3, <1>5, <1>8 DEF Refused, IsListing
  <2>2. ~(u.cnt > r.cnt)
    BY <1>3, <1>5, <1>8 DEF Refused
  <2>3. QED
    BY <1>3, <2>1, <2>2 DEF IsListing
<1>9. CASE Accepted(t, max, e, u)
  <2>1. u.cnt = t.cnt + 1 /\ u.cnt > r.cnt
    BY <1>3, <1>5, <1>9 DEF Accepted
  <2>2. v = [u EXCEPT !.xa = Append(t.xa, e)]
    BY <1>6, <2>1 DEF IsListing
  <2>3. /\ v.arrays = u.arrays /\ v.cnt = u.cnt /\ v.capacity = u.capacity
        /\ v.xa = Append(t.xa, e) /\ DOMAIN v = {"arrays", "capacity", "cnt", "xa", "sgls"}
    BY <1>6, <2>2
  <2>4. Compact(u, max)
    BY <1>3, <1>9 DEF Accepted
  <2>5. Shape(v, max, pp) /\ Lists(v, max, v.xa) /\ Compact(v, max)
    <3>1. {"arrays", "capacity", "cnt"} \subseteq DOMAIN v
      BY <2>3
    <3>2. /\ Shape(u, max, pp) => Shape(v, max, pp)
          /\ \A s : Lists(u, max, s) => Lists(v, max, s)
          /\ Compact(u, max) => Compact(v, max)
      BY <2>3, <3>1, SameView
    <3>3. QED
      BY <1>6, <1>7, <1>9, <2>3, <2>4, <3>2
  <2>6. ShadowOK(v)
    BY <1>1, <1>7, <1>9, <2>3, <2>5 DEF ShadowOK
  <2>7. QED
    BY <1>3, <2>1, <2>3, <2>6
<1>10. QED
  BY <1>5, <1>8, <1>9 DEF Inserts
-----------------------------------------------------------------------------
(***************************************************************************)
(* Every step preserves the invariant.                                     *)
(***************************************************************************)

LEMMA NoneSeq == IsSeq(<<>>) /\ Len(<<>>) = 0 /\ \A S : <<>> \in Seq(S)
<1>1. ASSUME NEW S PROVE <<>> \in Seq(S) /\ Len(<<>>) = 0
  OBVIOUS
<1>2. QED
  BY <1>1 DEF IsSeq

LEMMA SeqFacts ==
  ASSUME NEW s, IsSeq(s)
  PROVE  Len(s) \in Nat /\ DOMAIN s = 1 .. Len(s)
  BY LenProperties DEF IsSeq

LEMMA AppendFacts ==
  ASSUME NEW s, IsSeq(s), NEW e
  PROVE  /\ IsSeq(Append(s, e)) /\ Len(Append(s, e)) = Len(s) + 1
         /\ \A i \in 1 .. Len(s) : Append(s, e)[i] = s[i]
         /\ Append(s, e)[Len(s) + 1] = e
<1>1. PICK S : s \in Seq(S)
  BY DEF IsSeq
<1>2. PICK T : T = S \cup {e}
  OBVIOUS
<1>3. s \in Seq(T) /\ e \in T
  BY <1>1, <1>2, SeqMonotonic
<1>4. QED
  BY <1>3, AppendProperties DEF IsSeq

LEMMA ShadowThere ==
  ASSUME NEW t, ShadowOK(t)
  PROVE  t # NoTable /\ t.cnt \in Nat
<1>1. t.cnt \in Nat
  BY DEF ShadowOK, Shape
<1>2. NoTable.cnt = -1
  BY DEF NoTable
<1>3. QED
  BY <1>1, <1>2

LEMMA TablesInit == Init => TablesInv
<1> SUFFICES ASSUME Init PROVE TablesInv
  OBVIOUS
<1> USE DEF Init
<1>1. PhaseOK
  BY ConstantTypes DEF PhaseOK, Phases
<1>2. WalkOK
  BY DEF WalkOK
<1>3. ListOK
  <2>1. \A k \in 1 .. 0 : FALSE
    OBVIOUS
  <2>2. pts = <<>> /\ Len(pts) = 0 /\ IsSeq(pts)
    BY NoneSeq
  <2>3. walked \in Seq(Seq(Nat)) /\ Len(walked) = 0 /\ shadow = NoTable
    BY NoneSeq
  <2> HIDE DEF Init
  <2>4. QED
    BY <2>1, <2>2, <2>3 DEF ListOK
<1>4. ErrorsOK
  <2>1. /\ DOMAIN errtab = {"arrays", "capacity", "cnt", "registered", "sgls"}
        /\ errtab.arrays = <<Zeros(LogsPerPage)>> /\ errtab.capacity = LogsPerPage
        /\ errtab.cnt = 0
    OBVIOUS
  <2>2. Shape(errtab, MAX_RESULT_TABLE_ENTRIES, LogsPerPage)
    <3>1. {"arrays", "capacity", "cnt"} \subseteq DOMAIN errtab
      BY <2>1
    <3> HIDE DEF Init
    <3>2. QED
      BY <2>1, <3>1, Sizes, NewTableShape
  <2>3. Lists(errtab, MAX_RESULT_TABLE_ENTRIES, errors)
    <3>1. errors = <<>>
      OBVIOUS
    <3> HIDE DEF Init
    <3>2. Len(errors) = errtab.cnt
      BY <2>1, <3>1, NoneSeq
    <3>3. \A pos \in Nat : ~(pos < errtab.cnt)
      BY <2>1
    <3>4. QED
      BY <3>2, <3>3 DEF Lists
  <2>4. errors \in Seq(Int)
    BY NoneSeq
  <2> HIDE DEF Init
  <2>5. QED
    BY <2>1, <2>2, <2>3, <2>4 DEF ErrorsOK
<1>5. ChunksOK
  BY DEF ChunksOK
<1>6. QED
  BY <1>1, <1>2, <1>3, <1>4, <1>5 DEF TablesInv

LEMMA CreateEmpty == TablesInv /\ create_empty => TablesInv'
<1> SUFFICES ASSUME TablesInv, create_empty PROVE TablesInv'
  OBVIOUS
<1>1. PICK garbage \in {0, 1} :
        shadow' = [arrays |-> <<Zeros(EntriesPerPage)>>, capacity |-> EntriesPerPage,
                   cnt |-> 0, xa |-> <<>>, sgls |-> garbage]
  BY DEF create_empty
<1>2. /\ phase = "walk" /\ shadow = NoTable /\ va' = 0 /\ walked' = Append(walked, <<>>)
      /\ UNCHANGED <<phase, iter, pts, errtab, errors, chunks>>
  BY DEF create_empty
<1>3. PhaseOK'
  BY <1>2, ConstantTypes DEF TablesInv, PhaseOK
<1>4. ShadowOK(shadow') /\ shadow'.cnt = 0 /\ shadow'.xa = <<>>
  <2>1. PICK t : t = shadow'
    OBVIOUS
  <2>2. /\ DOMAIN t = {"arrays", "capacity", "cnt", "xa", "sgls"}
        /\ t.arrays = <<Zeros(EntriesPerPage)>> /\ t.capacity = EntriesPerPage
        /\ t.cnt = 0 /\ t.xa = <<>>
    BY <1>1, <2>1
  <2>3. Shape(t, MAX_CAPACITY_PER_TABLE, EntriesPerPage) /\ Len(t.arrays) = 1
    <3>1. {"arrays", "capacity", "cnt"} \subseteq DOMAIN t
      BY <2>2
    <3>2. QED
      BY <2>2, <3>1, Sizes, NewTableShape
  <2>4. Lists(t, MAX_CAPACITY_PER_TABLE, t.xa)
    <3>1. Len(t.xa) = t.cnt
      BY <2>2, NoneSeq
    <3>2. \A pos \in Nat : ~(pos < t.cnt)
      BY <2>2
    <3>3. QED
      BY <3>1, <3>2 DEF Lists
  <2>5. t.xa \in Seq(Nat)
    BY <2>2, NoneSeq
  <2>6. QED
    BY <2>1, <2>2, <2>3, <2>4, <2>5 DEF ShadowOK, Compact
<1>5. shadow' # NoTable
  BY <1>4, ShadowThere
<1>6. WalkOK'
  BY <1>2, <1>4 DEF WalkOK
<1>7. ListOK'
  <2>1. IsSeq(pts) /\ walked \in Seq(Seq(Nat)) /\ Len(walked) = Len(pts)
    BY <1>2 DEF TablesInv, ListOK
  <2>2. /\ walked' \in Seq(Seq(Nat)) /\ Len(walked') = Len(walked) + 1
        /\ \A i \in 1 .. Len(walked) : walked'[i] = walked[i]
        /\ walked'[Len(walked) + 1] = <<>>
    <3>1. <<>> \in Seq(Nat)
      BY NoneSeq
    <3>2. QED
      BY <1>2, <2>1, <3>1, AppendProperties
  <2>3. \A k \in 1 .. Len(pts) : ListedOK(pts[k], walked'[k])
    BY <2>1, <2>2 DEF TablesInv, ListOK
  <2>4. QED
    BY <1>2, <1>4, <1>5, <2>1, <2>2, <2>3 DEF ListOK
<1>8. ErrorsOK' /\ ChunksOK'
  <2>1. ErrorsOK'
    BY <1>2 DEF TablesInv, ErrorsOK
  <2>2. ChunksOK'
    BY <1>2 DEF TablesInv, ChunksOK
  <2>3. QED
    BY <2>1, <2>2
<1>9. QED
  BY <1>3, <1>6, <1>7, <1>8 DEF TablesInv

LEMMA InsertEntry == TablesInv /\ insert_entry_to_shadow_mm => TablesInv'
<1> SUFFICES ASSUME TablesInv, insert_entry_to_shadow_mm PROVE TablesInv'
  OBVIOUS
<1>1. /\ phase = "walk" /\ shadow # NoTable /\ va < MaxPages /\ va' = va + 1
      /\ UNCHANGED <<phase, iter, pts, errtab, errors, chunks>>
  BY DEF insert_entry_to_shadow_mm
<1>2. PICK r, u :
        /\ r \in Roomy(shadow, MAX_CAPACITY_PER_TABLE, EntriesPerPage)
        /\ u = Stored(r, MAX_CAPACITY_PER_TABLE, va')
        /\ shadow' = IF u.cnt > r.cnt THEN [u EXCEPT !.xa = Append(@, va')] ELSE u
        /\ walked' = IF u.cnt > r.cnt THEN [walked EXCEPT ![Len(walked)] = Append(@, va')]
                     ELSE walked
  BY DEF insert_entry_to_shadow_mm
<1>3. va \in Nat /\ va' \in Nat /\ va' \in 0 .. MaxPages
  BY <1>1, ConstantTypes DEF TablesInv, PhaseOK
<1>4. PhaseOK'
  BY <1>1, <1>3 DEF TablesInv, PhaseOK
<1>5. ShadowOK(shadow) /\ shadow.cnt <= va
  BY <1>1 DEF TablesInv, WalkOK
<1>6. /\ ShadowOK(shadow') /\ shadow'.cnt \in Nat /\ shadow.cnt \in Nat
      /\ shadow'.cnt <= shadow.cnt + 1
      /\ shadow'.xa = IF u.cnt > r.cnt THEN Append(shadow.xa, va') ELSE shadow.xa
  <2>1. PICK v, e : v = shadow' /\ e = va'
    OBVIOUS
  <2>2. IsListing(shadow, r, e, u, v)
    BY <1>2, <1>3, <1>5, <2>1 DEF IsListing
  <2>3. /\ ShadowOK(v) /\ v.cnt \in Nat /\ shadow.cnt \in Nat /\ v.cnt <= shadow.cnt + 1
        /\ v.xa = IF u.cnt > r.cnt THEN Append(shadow.xa, e) ELSE shadow.xa
    BY <2>2, ListingOK, Zenon
  <2>4. QED
    BY <2>1, <2>3
<1>7. WalkOK'
  <2>1. shadow'.cnt <= va'
    BY <1>1, <1>3, <1>5, <1>6
  <2>2. QED
    BY <1>1, <1>6, <2>1 DEF WalkOK
<1>8. ListOK'
  <2>1. /\ IsSeq(pts) /\ walked \in Seq(Seq(Nat)) /\ Len(walked) = Len(pts) + 1
        /\ walked[Len(walked)] = shadow.xa
        /\ \A k \in 1 .. Len(pts) : ListedOK(pts[k], walked[k])
    BY <1>1 DEF TablesInv, ListOK
  <2>2. Len(pts) \in Nat
    BY <2>1, SeqFacts
  <2>3. shadow.xa \in Seq(Nat) /\ shadow'.xa \in Seq(Nat)
    BY <1>5, <1>6 DEF ShadowOK
  <2>4. PICK n \in Nat : n = Len(walked) /\ n \in 1 .. Len(walked)
    BY <2>1, <2>2
  <2>5. walked' = [walked EXCEPT ![n] = shadow'.xa]
    <3>1. CASE u.cnt > r.cnt
      BY <1>2, <1>6, <2>1, <2>4, <3>1
    <3>2. CASE ~(u.cnt > r.cnt)
      <4>1. walked = [walked EXCEPT ![n] = walked[n]]
        BY <2>1, <2>4
      <4>2. QED
        BY <1>2, <1>6, <2>1, <2>4, <3>2, <4>1
    <3>3. QED
      BY <3>1, <3>2
  <2>6. /\ walked' \in Seq(Seq(Nat)) /\ Len(walked') = n
        /\ \A k \in 1 .. n : walked'[k] = IF k = n THEN shadow'.xa ELSE walked[k]
    BY <2>1, <2>3, <2>4, <2>5, ExceptSeq
  <2>7. shadow' # NoTable
    BY <1>6, ShadowThere
  <2>8. \A k \in 1 .. Len(pts) : walked'[k] = walked[k]
    BY <2>1, <2>2, <2>4, <2>6
  <2>9. walked'[Len(walked')] = shadow'.xa
    BY <2>4, <2>6
  <2>10. QED
    BY <1>1, <2>1, <2>4, <2>6, <2>7, <2>8, <2>9 DEF ListOK
<1>9. ErrorsOK' /\ ChunksOK'
  <2>1. ErrorsOK'
    BY <1>1 DEF TablesInv, ErrorsOK
  <2>2. ChunksOK'
    BY <1>1 DEF TablesInv, ChunksOK
  <2>3. QED
    BY <2>1, <2>2
<1>10. QED
  BY <1>4, <1>7, <1>8, <1>9 DEF TablesInv
LEMMA EndOfTable == TablesInv /\ init_shadow_for_mm => TablesInv'
<1> SUFFICES ASSUME TablesInv, init_shadow_for_mm PROVE TablesInv'
  OBVIOUS
<1>1. /\ phase = "walk" /\ shadow # NoTable /\ shadow' = NoTable
      /\ UNCHANGED <<iter, va, errtab, errors, chunks>>
  BY DEF init_shadow_for_mm
<1>2. ShadowOK(shadow) /\ shadow.cnt <= va /\ shadow.cnt \in Nat /\ shadow.xa \in Seq(Nat)
  BY <1>1, ShadowThere DEF TablesInv, WalkOK, ShadowOK
<1>3. /\ IsSeq(pts) /\ walked \in Seq(Seq(Nat)) /\ Len(walked) = Len(pts) + 1
      /\ walked[Len(walked)] = shadow.xa
      /\ \A k \in 1 .. Len(pts) : ListedOK(pts[k], walked[k])
  BY <1>1 DEF TablesInv, ListOK
<1>4. PICK n \in Nat : n = Len(pts) /\ Len(walked) = n + 1
  BY <1>3, SeqFacts
<1>5. phase' \in {"walk", "undefined"}
  BY <1>1 DEF init_shadow_for_mm
<1>6. PhaseOK'
  BY <1>1, <1>5 DEF TablesInv, PhaseOK, Phases
<1>7. WalkOK'
  BY <1>1 DEF WalkOK
<1>8. ListOK'
  <2>1. CASE shadow.cnt > 0
    <3>1. pts' = Append(pts, shadow) /\ walked' = walked
      BY <2>1 DEF init_shadow_for_mm
    <3>2. /\ IsSeq(pts') /\ Len(pts') = n + 1 /\ pts'[n + 1] = shadow
          /\ \A k \in 1 .. n : pts'[k] = pts[k]
      BY <1>3, <1>4, <3>1, AppendFacts
    <3>3. ListedOK(shadow, walked[n + 1])
      <4>1. shadow.cnt \in 1 .. MaxPages
        BY <1>2, <2>1, ConstantTypes DEF TablesInv, PhaseOK
      <4>2. QED
        BY <1>2, <1>3, <1>4, <4>1 DEF ListedOK
    <3>4. ASSUME NEW k \in 1 .. n + 1 PROVE ListedOK(pts'[k], walked'[k])
      <4>1. CASE k = n + 1
        BY <3>1, <3>2, <3>3, <4>1
      <4>2. CASE k \in 1 .. n
        BY <1>3, <1>4, <3>1, <3>2, <4>2
      <4>3. QED
        BY <4>1, <4>2
    <3>5. QED
      BY <1>1, <1>3, <1>4, <3>1, <3>2, <3>4 DEF ListOK
  <2>2. CASE ~(shadow.cnt > 0)
    <3>1. pts' = pts /\ walked' = SubSeq(walked, 1, (n + 1) - 1)
      BY <1>4, <2>2 DEF init_shadow_for_mm, Front
    <3>2. walked' = SubSeq(walked, 1, n)
      BY <3>1
    <3>3. \A i \in 1 .. n : walked[i] \in Seq(Nat)
      BY <1>3, <1>4, ElementOfSeq
    <3>4. /\ walked' \in Seq(Seq(Nat)) /\ Len(walked') = n
          /\ \A i \in 1 .. n : walked'[i] = walked[i]
      BY <3>2, <3>3, SubSeqProperties
    <3>5. QED
      BY <1>1, <1>3, <1>4, <3>1, <3>4 DEF ListOK
  <2>3. QED
    BY <2>1, <2>2
<1>9. ErrorsOK'
  BY <1>1 DEF TablesInv, ErrorsOK
<1>10. ChunksOK'
  BY <1>1, <1>5 DEF TablesInv, ChunksOK
<1>11. QED
  BY <1>6, <1>7, <1>8, <1>9, <1>10 DEF TablesInv

LEMMA InsertError == TablesInv /\ insert_error_log => TablesInv'
<1> SUFFICES ASSUME TablesInv, insert_error_log PROVE TablesInv'
  OBVIOUS
<1>1. /\ phase = "apply"
      /\ UNCHANGED <<phase, iter, va, shadow, pts, walked, chunks>>
  BY DEF insert_error_log
<1>2. PICK r, e, u :
        /\ r \in Roomy(errtab, MAX_RESULT_TABLE_ENTRIES, LogsPerPage)
        /\ e = Len(errors) + 1 /\ u = Stored(r, MAX_RESULT_TABLE_ENTRIES, e)
        /\ errtab' = u /\ errors' = IF u.cnt > r.cnt THEN Append(errors, e) ELSE errors
  BY DEF insert_error_log
<1>3. PICK max, pp : max = MAX_RESULT_TABLE_ENTRIES /\ pp = LogsPerPage
  OBVIOUS
<1>4. /\ DOMAIN errtab = {"arrays", "capacity", "cnt", "registered", "sgls"}
      /\ Shape(errtab, max, pp) /\ errors \in Seq(Int) /\ Lists(errtab, max, errors)
      /\ errtab.cnt \in Nat /\ Len(errors) = errtab.cnt
  BY <1>3 DEF TablesInv, ErrorsOK, Shape, Lists
<1>5. Insertion(errtab, max, pp, r, e, u)
  <2>1. e \in Int
    BY <1>2, <1>4
  <2>2. QED
    BY <1>2, <1>3, <1>4, <2>1, Sizes DEF Insertion
<1>6. r.cnt = errtab.cnt /\ Inserts(errtab, max, pp, e, u)
  BY <1>5, InsertionInserts, Zenon
<1>7. /\ Shape(u, max, pp)
      /\ DOMAIN u = {"arrays", "capacity", "cnt", "registered", "sgls"}
  BY <1>4, <1>6 DEF Inserts, SameOther
<1>8. /\ Refused(errtab, u) => Lists(u, max, errors)
      /\ Accepted(errtab, max, e, u) =>
           Lists(u, max, Append(errors, e)) /\ Append(errors, e) \in Seq(Int)
  <2>1. e \in Int
    BY <1>2, <1>4
  <2>2. QED
    BY <1>4, <1>6, <2>1, InsertLists
<1>9. Lists(u, max, errors') /\ errors' \in Seq(Int)
  <2>1. CASE Refused(errtab, u)
    <3>1. ~(u.cnt > r.cnt)
      BY <1>4, <1>6, <2>1 DEF Refused
    <3>2. QED
      BY <1>2, <1>4, <1>8, <2>1, <3>1
  <2>2. CASE Accepted(errtab, max, e, u)
    <3>1. u.cnt > r.cnt
      BY <1>4, <1>6, <2>2 DEF Accepted
    <3>2. QED
      BY <1>2, <1>8, <2>2, <3>1
  <2>3. QED
    BY <1>6, <2>1, <2>2 DEF Inserts
<1>10. ErrorsOK'
  BY <1>2, <1>3, <1>7, <1>9 DEF ErrorsOK
<1>11. PhaseOK' /\ WalkOK'
  BY <1>1 DEF TablesInv, PhaseOK, WalkOK
<1>12. ListOK'
  BY <1>1 DEF TablesInv, ListOK
<1>13. ChunksOK'
  BY <1>1 DEF TablesInv, ChunksOK
<1>14. QED
  BY <1>10, <1>11, <1>12, <1>13 DEF TablesInv

LEMMA IterationEnds == TablesInv /\ NothingRegistered => TablesInv'
<1> SUFFICES ASSUME TablesInv, NothingRegistered PROVE TablesInv'
  OBVIOUS
<1>1. /\ phase = "walk" /\ shadow = NoTable /\ iter < MaxIterations /\ iter' = iter + 1
      /\ UNCHANGED <<phase, va, shadow, pts, walked, errtab, errors, chunks>>
  BY DEF NothingRegistered
<1>2. PhaseOK'
  BY <1>1, ConstantTypes DEF TablesInv, PhaseOK
<1>3. WalkOK' /\ ErrorsOK'
  BY <1>1 DEF TablesInv, WalkOK, ErrorsOK
<1>4. ListOK'
  BY <1>1 DEF TablesInv, ListOK
<1>5. ChunksOK'
  BY <1>1 DEF TablesInv, ChunksOK
<1>6. QED
  BY <1>2, <1>3, <1>4, <1>5 DEF TablesInv
\* Nothing is said of what follows after the pointers are lost.
LEMMA PointersAreLost == TablesInv /\ PointersLost => TablesInv'
<1> SUFFICES ASSUME TablesInv, PointersLost PROVE TablesInv'
  OBVIOUS
<1>1. /\ phase' = "undefined"
      /\ UNCHANGED <<iter, va, shadow, pts, walked, errtab, errors, chunks>>
  BY DEF PointersLost
<1>2. PhaseOK'
  BY <1>1 DEF TablesInv, PhaseOK, Phases
<1>3. WalkOK' /\ ErrorsOK'
  BY <1>1 DEF TablesInv, WalkOK, ErrorsOK
<1>4. ListOK'
  BY <1>1 DEF TablesInv, ListOK
<1>5. ChunksOK'
  BY <1>1 DEF ChunksOK
<1>6. QED
  BY <1>2, <1>3, <1>4, <1>5 DEF TablesInv

\* The scatter lists of the tables are none of the error table's.
LEMMA ChunksApart ==
  ASSUME NEW s, NEW pages
  PROVE  (ChunksOf(s) \cup Allocated(0, pages)) \ Allocated(0, pages) = ChunksOf(s)
<1>1. ASSUME NEW x \in ChunksOf(s) PROVE x \notin Allocated(0, pages)
  <2>1. PICK k \in 1 .. Len(s) : x \in Allocated(k, s[k].cnt)
    BY DEF ChunksOf
  <2>2. x[1] = k
    BY <2>1, AllocatedNames
  <2>3. x \in Allocated(0, pages) => x[1] = 0
    BY AllocatedNames
  <2>4. k # 0
    OBVIOUS
  <2>5. QED
    BY <2>2, <2>3, <2>4
<1>2. QED
  BY <1>1

LEMMA Registration == TablesInv /\ RegisterAll => TablesInv'
<1> SUFFICES ASSUME TablesInv, RegisterAll PROVE TablesInv'
  OBVIOUS
<1>1. /\ phase = "walk" /\ shadow = NoTable /\ phase' \in {"offload", "stopped"}
      /\ UNCHANGED <<iter, va, shadow, walked, errors>>
  BY DEF RegisterAll
<1>2. /\ IsSeq(pts) /\ walked \in Seq(Seq(Nat)) /\ Len(walked) = Len(pts)
      /\ \A k \in 1 .. Len(pts) : ListedOK(pts[k], walked[k])
  BY <1>1 DEF TablesInv, ListOK
<1>3. PICK n \in Nat : n = Len(pts) /\ DOMAIN pts = 1 .. n
  BY <1>2, SeqFacts
<1>4. pts' = [k \in 1 .. n |-> [pts[k] EXCEPT !.sgls = Regions(pts[k].cnt)]]
  BY <1>3 DEF RegisterAll
<1>5. IsSeq(pts') /\ Len(pts') = n
  <2>1. PICK S : S = {pts'[k] : k \in 1 .. n}
    OBVIOUS
  <2>2. pts' \in [1 .. n -> S]
    BY <1>4, <2>1
  <2>3. pts' \in Seq(S) /\ Len(pts') = n
    BY <2>2, IntervalSeq
  <2>4. QED
    BY <2>3 DEF IsSeq
<1>6. ASSUME NEW k \in 1 .. n
      PROVE  /\ pts'[k].cnt = pts[k].cnt /\ pts'[k].sgls = Regions(pts[k].cnt)
             /\ ListedOK(pts'[k], walked[k])
  <2>1. PICK t, u : t = pts[k] /\ u = pts'[k]
    OBVIOUS
  <2>2. u = [t EXCEPT !.sgls = Regions(t.cnt)]
    BY <1>4, <2>1
  <2>3. ShadowOK(t) /\ t.cnt \in 1 .. MaxPages /\ walked[k] = t.xa
    BY <1>2, <1>3, <2>1 DEF ListedOK
  <2>4. DOMAIN t = {"arrays", "capacity", "cnt", "xa", "sgls"}
    BY <2>3 DEF ShadowOK
  <2>5. /\ u.arrays = t.arrays /\ u.cnt = t.cnt /\ u.capacity = t.capacity /\ u.xa = t.xa
        /\ DOMAIN u = DOMAIN t /\ u.sgls = Regions(t.cnt)
    BY <2>2, <2>4
  <2>6. /\ Shape(t, MAX_CAPACITY_PER_TABLE, EntriesPerPage)
             => Shape(u, MAX_CAPACITY_PER_TABLE, EntriesPerPage)
        /\ \A s : Lists(t, MAX_CAPACITY_PER_TABLE, s) => Lists(u, MAX_CAPACITY_PER_TABLE, s)
        /\ Compact(t, MAX_CAPACITY_PER_TABLE) => Compact(u, MAX_CAPACITY_PER_TABLE)
    <3>1. {"arrays", "capacity", "cnt"} \subseteq DOMAIN u
      BY <2>4, <2>5
    <3>2. QED
      BY <2>5, <3>1, SameView
  <2>7. ShadowOK(u)
    BY <2>3, <2>5, <2>6 DEF ShadowOK
  <2>8. QED
    BY <2>1, <2>3, <2>5, <2>7 DEF ListedOK
<1>7. PhaseOK' /\ WalkOK'
  BY <1>1 DEF TablesInv, PhaseOK, Phases, WalkOK
<1>8. ListOK'
  BY <1>1, <1>2, <1>3, <1>5, <1>6 DEF ListOK
<1>9. /\ errtab' = [errtab EXCEPT !.registered = errtab.cnt,
                                  !.sgls = Regions(DivUp(errtab.cnt, LogsPerPage))]
      /\ chunks' = (UNION {Allocated(k, pts[k].cnt) : k \in 1 .. n})
                     \cup Allocated(0, DivUp(errtab.cnt, LogsPerPage))
  BY <1>3 DEF RegisterAll, RegisteredErrors
<1>10. DOMAIN errtab = {"arrays", "capacity", "cnt", "registered", "sgls"}
  BY DEF TablesInv, ErrorsOK
<1>11. /\ errtab'.arrays = errtab.arrays /\ errtab'.cnt = errtab.cnt
       /\ errtab'.capacity = errtab.capacity /\ errtab'.registered = errtab.cnt
       /\ errtab'.sgls = Regions(DivUp(errtab.cnt, LogsPerPage))
       /\ DOMAIN errtab' = {"arrays", "capacity", "cnt", "registered", "sgls"}
  BY <1>9, <1>10
<1>12. ErrorsOK'
  <2>1. /\ Shape(errtab, MAX_RESULT_TABLE_ENTRIES, LogsPerPage)
             => Shape(errtab', MAX_RESULT_TABLE_ENTRIES, LogsPerPage)
        /\ \A s : Lists(errtab, MAX_RESULT_TABLE_ENTRIES, s)
                    => Lists(errtab', MAX_RESULT_TABLE_ENTRIES, s)
    <3>1. {"arrays", "capacity", "cnt"} \subseteq DOMAIN errtab'
      BY <1>11
    <3>2. QED
      BY <1>11, <3>1, SameView
  <2>2. QED
    BY <1>1, <1>11, <2>1 DEF TablesInv, ErrorsOK
<1>13. ErrorPages' = DivUp(errtab.cnt, LogsPerPage)
  BY <1>11 DEF ErrorPages
<1>14. ErrorsBuilt'
  BY <1>11, <1>13 DEF ErrorsBuilt
<1>15. ListsBuilt(pts)'
  BY <1>5, <1>6 DEF ListsBuilt
<1>16. chunks' = (ChunksOf(pts) \cup Allocated(0, ErrorPages))'
  <2>1. PICK X, Y : /\ X = UNION {Allocated(k, pts[k].cnt) : k \in 1 .. n}
                    /\ Y = Allocated(0, DivUp(errtab.cnt, LogsPerPage))
    OBVIOUS
  <2>2. chunks' = X \cup Y
    BY <1>9, <2>1
  <2>3. ChunksOf(pts)' = X
    BY <1>5, <1>6, <2>1 DEF ChunksOf
  <2>4. Allocated(0, ErrorPages)' = Y
    BY <1>13, <2>1
  <2>5. QED
    BY <2>2, <2>3, <2>4
<1>17. ChunksOK'
  BY <1>1, <1>14, <1>15, <1>16 DEF ChunksOK
<1>18. QED
  BY <1>7, <1>8, <1>12, <1>17 DEF TablesInv

\* rdma_unregister_error_table frees every list of the errors, no other.
LEMMA ErrorsFreed ==
  ASSUME TablesInv, phase = "offload"
  PROVE  /\ ErrorsReleased = Allocated(0, ErrorPages)
         /\ chunks \ ErrorsReleased = ChunksOf(pts)
         /\ {c \in chunks : c[1] = 0} \subseteq ErrorsReleased
         /\ errtab.registered = errtab.cnt
<1>1. ErrorsBuilt /\ chunks = ChunksOf(pts) \cup Allocated(0, ErrorPages)
  BY DEF TablesInv, ChunksOK
<1>2. ErrorsReleased = Allocated(0, ErrorPages)
  BY <1>1, ReleasedAllocated DEF ErrorsReleased, ErrorsBuilt
<1>3. chunks \ ErrorsReleased = ChunksOf(pts)
  BY <1>1, <1>2, ChunksApart
<1>4. ASSUME NEW c \in chunks, c[1] = 0 PROVE c \in ErrorsReleased
  <2>1. ASSUME c \in ChunksOf(pts) PROVE FALSE
    <3>1. PICK k \in 1 .. Len(pts) : c \in Allocated(k, pts[k].cnt)
      BY <2>1 DEF ChunksOf
    <3>2. c[1] = k
      BY <3>1, AllocatedNames
    <3>3. QED
      BY <1>4, <3>2
  <2>2. QED
    BY <1>1, <1>2, <2>1
<1>5. QED
  BY <1>1, <1>2, <1>3, <1>4 DEF ErrorsBuilt

LEMMA ResultReceived == TablesInv /\ recv_offload_result => TablesInv' /\ phase' # "stopped"
<1> SUFFICES ASSUME TablesInv, recv_offload_result PROVE TablesInv' /\ phase' # "stopped"
  OBVIOUS
<1>1. phase = "offload" /\ UNCHANGED <<iter, va, shadow, pts, walked>>
  BY DEF recv_offload_result
<1>2. /\ chunks' = chunks \ ErrorsReleased /\ errtab' = Cleared(errtab) /\ errors' = <<>>
      /\ phase' \in {"apply", "lost"}
  BY <1>1, ErrorsFreed DEF recv_offload_result
<1>3. chunks' = ChunksOf(pts)
  BY <1>1, <1>2, ErrorsFreed
<1>4. PhaseOK' /\ WalkOK'
  BY <1>1, <1>2 DEF TablesInv, PhaseOK, Phases, WalkOK
<1>5. ListOK'
  BY <1>1 DEF TablesInv, ListOK
<1>6. /\ DOMAIN errtab = {"arrays", "capacity", "cnt", "registered", "sgls"}
      /\ Shape(errtab, MAX_RESULT_TABLE_ENTRIES, LogsPerPage)
  BY DEF TablesInv, ErrorsOK
<1>7. /\ DOMAIN errtab' = {"arrays", "capacity", "cnt", "registered", "sgls"}
      /\ errtab'.arrays = errtab.arrays /\ errtab'.capacity = errtab.capacity
      /\ errtab'.cnt = 0
  BY <1>2, <1>6 DEF Cleared
<1>8. Shape(errtab', MAX_RESULT_TABLE_ENTRIES, LogsPerPage)
  <2>1. 0 \in Nat /\ 0 <= errtab.capacity
    BY <1>6 DEF Shape
  <2>2. QED
    BY <1>6, <1>7, <2>1 DEF Shape
<1>9. Lists(errtab', MAX_RESULT_TABLE_ENTRIES, errors')
  <2>1. Len(errors') = errtab'.cnt
    BY <1>2, <1>7, NoneSeq
  <2>2. \A pos \in Nat : ~(pos < errtab'.cnt)
    BY <1>7
  <2>3. QED
    BY <2>1, <2>2 DEF Lists
<1>10. ErrorsOK'
  <2>1. errors' \in Seq(Int)
    BY <1>2, NoneSeq
  <2>2. QED
    BY <1>7, <1>8, <1>9, <2>1 DEF ErrorsOK
<1>11. ChunksOK'
  <2>1. ListsBuilt(pts)'
    BY <1>1 DEF TablesInv, ChunksOK, ListsBuilt
  <2>2. chunks' = ChunksOf(pts)'
    BY <1>1, <1>3 DEF ChunksOf
  <2>3. QED
    BY <1>2, <2>1, <2>2 DEF ChunksOK
<1>12. QED
  BY <1>2, <1>4, <1>5, <1>10, <1>11 DEF TablesInv

LEMMA TablesDestroyed == TablesInv /\ destroy_metadata => TablesInv'
<1> SUFFICES ASSUME TablesInv, destroy_metadata PROVE TablesInv'
  OBVIOUS
<1>1. /\ phase \in {"apply", "lost"} /\ phase' \in {"walk", "alone"} /\ iter < MaxIterations
      /\ pts' = <<>> /\ walked' = <<>> /\ iter' = iter + 1
      /\ chunks' = chunks \ UNION {Released(k, pts[k].cnt, pts[k].sgls) : k \in DOMAIN pts}
      /\ UNCHANGED <<va, shadow, errtab, errors>>
  BY DEF destroy_metadata
<1>2. shadow = NoTable /\ chunks = ChunksOf(pts) /\ ListsBuilt(pts)
  BY <1>1 DEF TablesInv, WalkOK, ChunksOK
<1>3. chunks' = {}
  <2>1. DOMAIN pts = 1 .. Len(pts)
    BY SeqFacts DEF TablesInv, ListOK
  <2>2. ASSUME NEW k \in 1 .. Len(pts)
        PROVE  Released(k, pts[k].cnt, pts[k].sgls) = Allocated(k, pts[k].cnt)
    BY <1>2, ReleasedAllocated DEF ListsBuilt
  <2>3. UNION {Released(k, pts[k].cnt, pts[k].sgls) : k \in DOMAIN pts} = ChunksOf(pts)
    BY <2>1, <2>2 DEF ChunksOf
  <2>4. QED
    BY <1>1, <1>2, <2>3
<1>4. PhaseOK'
  BY <1>1, ConstantTypes DEF TablesInv, PhaseOK, Phases
<1>5. WalkOK' /\ ErrorsOK'
  BY <1>1, <1>2 DEF TablesInv, WalkOK, ErrorsOK
<1>6. ListOK'
  <2>1. \A k \in 1 .. 0 : FALSE
    OBVIOUS
  <2>2. IsSeq(pts') /\ Len(pts') = 0 /\ walked' \in Seq(Seq(Nat)) /\ Len(walked') = 0
    BY <1>1, NoneSeq
  <2>3. shadow' = NoTable
    BY <1>1, <1>2
  <2>4. QED
    BY <2>1, <2>2, <2>3 DEF ListOK
<1>7. ChunksOK'
  BY <1>1, <1>3 DEF ChunksOK
<1>8. QED
  BY <1>4, <1>5, <1>6, <1>7 DEF TablesInv

LEMMA TablesStutter == TablesInv /\ UNCHANGED vars => TablesInv'
<1> SUFFICES ASSUME TablesInv, UNCHANGED vars PROVE TablesInv'
  OBVIOUS
<1> USE DEF vars
<1>1. PhaseOK' /\ WalkOK' /\ ErrorsOK'
  BY DEF TablesInv, PhaseOK, WalkOK, ErrorsOK
<1>2. ListOK'
  BY DEF TablesInv, ListOK
<1>3. ChunksOK'
  BY DEF TablesInv, ChunksOK, ErrorsBuilt, ErrorPages
<1>4. QED
  BY <1>1, <1>2, <1>3 DEF TablesInv

LEMMA TablesNext == TablesInv /\ [Next]_vars => TablesInv'
  BY CreateEmpty, InsertEntry, EndOfTable, Registration, IterationEnds, PointersAreLost, ResultReceived,
     InsertError, TablesDestroyed, TablesStutter DEF Next
-----------------------------------------------------------------------------
(***************************************************************************)
(* The theorems.                                                           *)
(***************************************************************************)

\* The tables have the shape their growth gives them, list what was walked and logged, and
\* the scatter lists there are belong to them: ksm_shadow.c and the registration of
\* ksm_rdma.c, whatever the sizes, the walks and the failed allocations.
THEOREM TablesInvariant == Spec => []TablesInv
  BY TablesInit, TablesNext, PTL DEF Spec

LEMMA ShapeTable ==
  ASSUME NEW t, NEW max, NEW perPage, IsSize(max, perPage), Shape(t, max, perPage)
  PROVE  TableOK(t, max)
<1>1. PICK n, last : ArrayShape(t.arrays, max, perPage, n, last)
  BY DEF Shape
<1>2. /\ n \in Nat \ {0} /\ last \in 1 .. max /\ max \in Nat /\ t.arrays \in Seq(Seq(Int))
      /\ Len(t.arrays) = n
      /\ \A a \in 1 .. n : Len(t.arrays[a]) = IF a = n THEN last ELSE max
  BY <1>1 DEF ArrayShape, IsSize
<1>3. DOMAIN t.arrays = 1 .. n
  BY <1>2, LenProperties
<1>4. \A a \in DOMAIN t.arrays : Len(t.arrays[a]) <= max
  BY <1>2, <1>3
<1>5. t.cnt \in 0 .. t.capacity
  BY DEF Shape
<1>6. QED
  BY <1>4, <1>5 DEF TableOK

\* TablesTypeOK: no count passes its capacity and no array of insert_entry_to_shadow_mm or
\* insert_error_log outgrows one allocation, for every size of the arrays.
THEOREM TablesTypes == Spec => []TablesTypeOK
<1>1. TablesInv => TablesTypeOK
  <2> SUFFICES ASSUME TablesInv PROVE TablesTypeOK
    OBVIOUS
  <2>1. shadow # NoTable => TableOK(shadow, MAX_CAPACITY_PER_TABLE)
    BY Sizes, ShapeTable DEF TablesInv, WalkOK, ShadowOK
  <2>2. \A k \in DOMAIN pts : TableOK(pts[k], MAX_CAPACITY_PER_TABLE)
    <3>1. DOMAIN pts = 1 .. Len(pts)
      BY SeqFacts DEF TablesInv, ListOK
    <3>2. QED
      BY <3>1, Sizes, ShapeTable DEF TablesInv, ListOK, ListedOK, ShadowOK
  <2>3. TableOK(errtab, MAX_RESULT_TABLE_ENTRIES)
    BY Sizes, ShapeTable DEF TablesInv, ErrorsOK
  <2>4. QED
    BY <2>1, <2>2, <2>3 DEF TablesInv, PhaseOK, Phases, TablesTypeOK
<1>2. QED
  BY <1>1, TablesInvariant, PTL

\* ServerReadsWalk: through the map's region (pt_map) and through the regions of pages the
\* server reads exactly the pages that scan_pte_entry listed, each with its address and in
\* order, for every size of array, page, region and chunk.
THEOREM WalkRead == Spec => []ServerReadsWalk
<1>1. TablesInv => ServerReadsWalk
  <2> SUFFICES ASSUME TablesInv, phase = "offload", NEW k \in DOMAIN pts
               PROVE  ServerMap(pts[k]) = walked[k] /\ ServerPages(pts[k]) = walked[k]
    BY DEF ServerReadsWalk
  <2>1. k \in 1 .. Len(pts)
    BY SeqFacts DEF TablesInv, ListOK
  <2>2. PICK t : t = pts[k]
    OBVIOUS
  <2>3. ShadowOK(t) /\ t.cnt \in 1 .. MaxPages /\ walked[k] = t.xa
    BY <2>1, <2>2 DEF TablesInv, ListOK, ListedOK
  <2>4. /\ Shape(t, MAX_CAPACITY_PER_TABLE, EntriesPerPage) /\ t.xa \in Seq(Nat)
        /\ Lists(t, MAX_CAPACITY_PER_TABLE, t.xa)
    BY <2>3 DEF ShadowOK
  <2>5. ServerMap(t) = t.xa
    BY <2>4, ServerMapIs
  <2>6. t.cnt \in Nat /\ t.cnt # 0 /\ Len(t.xa) = t.cnt
    BY <2>3, <2>4 DEF Lists
  <2>7. t.sgls = Regions(t.cnt)
    BY <2>1, <2>2 DEF TablesInv, ChunksOK, ListsBuilt
  <2>8. ServerPages(t) = t.xa
    BY <2>4, <2>6, <2>7, ServerPagesAre
  <2>9. QED
    BY <2>2, <2>3, <2>5, <2>8
<1>2. QED
  BY <1>1, TablesInvariant, PTL

\* ServerReadsErrors: do_handle_error sees exactly the errors that insert_error_log kept
\* in the iteration before, in order, over however many pages, regions and chunks.
THEOREM ErrorsRead == Spec => []ServerReadsErrors
<1>1. TablesInv => ServerReadsErrors
  <2> SUFFICES ASSUME TablesInv, phase = "offload" PROVE ServerErrors = errors
    BY DEF ServerReadsErrors
  <2>1. /\ Shape(errtab, MAX_RESULT_TABLE_ENTRIES, LogsPerPage) /\ errors \in Seq(Int)
        /\ Lists(errtab, MAX_RESULT_TABLE_ENTRIES, errors) /\ ErrorsBuilt
    BY DEF TablesInv, ErrorsOK, ChunksOK
  <2>2. errtab.registered \in Nat /\ errtab.registered = errtab.cnt
    BY <2>1 DEF Shape, ErrorsBuilt
  <2>3. errtab.sgls = Regions(ErrorPages) /\ Len(errors) = errtab.registered
    BY <2>1, <2>2 DEF ErrorsBuilt, Lists
  <2>4. \A pos \in Nat : At(errtab, MAX_RESULT_TABLE_ENTRIES, pos) \in Int
    BY <2>1, Sizes, AtInt
  <2>5. \A pos \in 0 .. errtab.registered - 1 :
          At(errtab, MAX_RESULT_TABLE_ENTRIES, pos) = errors[pos + 1]
    BY <2>1, <2>2 DEF Lists
  <2>6. QED
    BY <2>1, <2>2, <2>3, <2>4, <2>5, ServerErrorsAre
<1>2. QED
  BY <1>1, TablesInvariant, PTL

\* ListsFreed: rdma_unregister_error_table and rdma_unregister_shadow_mms free every chunk
\* the registration allocated, whatever the sizes.
THEOREM ChunksFreed == Spec => []ListsFreed
<1>1. TablesInv => ListsFreed
  BY DEF TablesInv, ChunksOK, ListsFreed
<1>2. QED
  BY <1>1, TablesInvariant, PTL

\* The registration passes its checks as long as an address space is not larger than what
\* MAX_VA_ARRAYS arrays list, the limit rdma_register_shadow_mms insists on.
LEMMA NotStopped ==
  ASSUME MaxPages <= MAX_VA_ARRAYS * MAX_CAPACITY_PER_TABLE
  PROVE  TablesInv /\ NeverStopped /\ [Next]_vars => NeverStopped'
<1> SUFFICES ASSUME TablesInv, NeverStopped, [Next]_vars PROVE NeverStopped'
  OBVIOUS
<1> USE DEF NeverStopped
<1>1. CASE RegisterAll
  <2>1. ASSUME NEW k \in DOMAIN pts PROVE Registrable(pts[k])
    <3>1. k \in 1 .. Len(pts)
      BY SeqFacts DEF TablesInv, ListOK
    <3>2. PICK t : t = pts[k]
      OBVIOUS
    <3>3. ShadowOK(t) /\ t.cnt \in 1 .. MaxPages
      BY <3>1, <3>2 DEF TablesInv, ListOK, ListedOK
    <3>4. t.cnt <= MAX_VA_ARRAYS * MAX_CAPACITY_PER_TABLE
      <4>1. MAX_VA_ARRAYS \in Nat /\ MAX_CAPACITY_PER_TABLE \in Nat /\ MaxPages \in Nat
        BY ConstantTypes, Sizes DEF IsSize
      <4>2. PICK x \in Nat : x = MAX_VA_ARRAYS * MAX_CAPACITY_PER_TABLE
        BY <4>1
      <4>3. QED
        BY <3>3, <4>1, <4>2
    <3>5. Registrable(t)
      BY <3>3, <3>4, MapAssumption, TableRegistrable DEF ShadowOK
    <3>6. QED
      BY <3>2, <3>5
  <2>2. QED
    BY <1>1, <2>1 DEF RegisterAll
<1>2. CASE recv_offload_result
  BY <1>2, ResultReceived
<1>3. CASE create_empty
  BY <1>3 DEF create_empty
<1>4. CASE insert_entry_to_shadow_mm
  BY <1>4 DEF insert_entry_to_shadow_mm
<1>5. CASE init_shadow_for_mm
  BY <1>5 DEF init_shadow_for_mm
<1>6. CASE NothingRegistered
  BY <1>6 DEF NothingRegistered
<1>7. CASE insert_error_log
  BY <1>7 DEF insert_error_log
<1>8. CASE destroy_metadata
  BY <1>8 DEF destroy_metadata
<1>9. CASE UNCHANGED vars
  BY <1>9 DEF vars
<1>10. CASE PointersLost
  BY <1>10 DEF PointersLost
<1>11. QED
  BY <1>1, <1>2, <1>3, <1>4, <1>5, <1>6, <1>7, <1>8, <1>9, <1>10 DEF Next

\* CleanUpComplete: no check of the registration or of the clean-up stops ksmd, and no chunk
\* of a scatter list is left over, when no address space has more pages than MAX_VA_ARRAYS
\* arrays can list.
THEOREM CleanUp ==
  ASSUME MaxPages <= MAX_VA_ARRAYS * MAX_CAPACITY_PER_TABLE
  PROVE  Spec => []CleanUpComplete
<1>1. Init => NeverStopped
  BY DEF Init, NeverStopped
<1>2. TablesInv /\ NeverStopped /\ [Next]_vars => NeverStopped'
  BY NotStopped
<1>3. TablesInv /\ NeverStopped => CleanUpComplete
  BY DEF TablesInv, ChunksOK, CleanUpComplete, ListsFreed
<1>4. QED
  BY <1>1, <1>2, <1>3, TablesInvariant, PTL DEF Spec
============================================================================
