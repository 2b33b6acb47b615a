------------------------------ MODULE Flattening ------------------------------
(***************************************************************************)
(* What FlattenSeq computes, for sequences of any length: every element of *)
(* every row, each once, row by row.  The requests' loops are written with *)
(* it, and the proofs about them rest on these lemmas.                     *)
(*                                                                         *)
(* FlattenSeq is recursive over a number; the induction is a fact about    *)
(* sets of numbers, obtained from their least elements.                    *)
(***************************************************************************)
EXTENDS Naturals, FiniteSets, Sequences, SequencesExt,
        FiniteSetTheorems, WellFoundedInduction, TLAPS

-----------------------------------------------------------------------------
(* Induction *)

LEMMA LeastNumber ==
  ASSUME NEW K \in SUBSET Nat, K # {}
  PROVE  \E k \in K : \A j \in K : k <= j
<1>1. \E k \in K : \A j \in K : ~(<<j, k>> \in OpToRel(<, Nat))
  BY NatLessThanWellFounded, WFMin
<1>2. \A j \in Nat, k \in Nat : <<j, k>> \in OpToRel(<, Nat) <=> j < k
  BY DEF OpToRel
<1>3. \A j \in Nat, k \in Nat : ~(j < k) <=> k <= j
  OBVIOUS
<1> QED
  BY <1>1, <1>2, <1>3

\* A set that holds 0, and with a number below m the next one, holds all up to m.
LEMMA UpTo ==
  ASSUME NEW m \in Nat, NEW K, 0 \in K, \A n \in 0..m : n \in K /\ n < m => n + 1 \in K
  PROVE  0..m \subseteq K
<1> DEFINE Missing == {n \in 0..m : n \notin K}
<1>1. Missing \in SUBSET Nat
  OBVIOUS
<1>2. SUFFICES ASSUME Missing # {} PROVE FALSE
  OBVIOUS
<1>3. PICK n \in Missing : \A j \in Missing : n <= j
  BY <1>1, <1>2, LeastNumber
<1>4. n \in 0..m /\ n \notin K /\ n # 0
  BY <1>3
<1>5. n - 1 \in 0..m /\ n - 1 < m /\ ~(n <= n - 1) /\ (n - 1) + 1 = n
  BY <1>4
<1>6. n - 1 \in K
  BY <1>3, <1>5
<1> QED
  BY <1>4, <1>5, <1>6

-----------------------------------------------------------------------------
(* The recursion of FlattenSeq *)

IsFlatten(rows, m, g) ==
  g = [i \in 1..m |-> IF i = 1 THEN rows[i] ELSE g[i-1] \o rows[i]]

LEMMA FlattenExists ==
  ASSUME NEW m \in Nat, NEW rows
  PROVE  \E g : IsFlatten(rows, m, g)
<1> DEFINE K == {n \in 0..m : \E g : IsFlatten(rows, n, g)}
<1>1. 0 \in K
  <2> DEFINE g == [i \in 1..0 |-> 0]
  <2>1. IsFlatten(rows, 0, g)
    BY DEF IsFlatten
  <2> QED
    BY <2>1
<1>2. ASSUME NEW n \in 0..m, n \in K, n < m PROVE n + 1 \in K
  <2>1. PICK g : IsFlatten(rows, n, g)
    BY <1>2
  <2> DEFINE h == [i \in 1..(n+1) |-> IF i <= n THEN g[i]
                                      ELSE IF i = 1 THEN rows[i] ELSE g[n] \o rows[i]]
  <2>2. \A i \in 1..n : g[i] = IF i = 1 THEN rows[i] ELSE g[i-1] \o rows[i]
    BY <2>1, Zenon DEF IsFlatten
  <2>3. ASSUME NEW i \in 1..(n+1)
        PROVE  h[i] = IF i = 1 THEN rows[i] ELSE h[i-1] \o rows[i]
    <3>1. CASE i <= n
      <4>1. i \in 1..n /\ (i # 1 => i - 1 \in 1..(n+1) /\ i - 1 <= n)
        BY <3>1
      <4>2. h[i] = g[i] /\ (i # 1 => h[i-1] = g[i-1])
        BY <4>1, <3>1
      <4> QED
        BY <4>1, <4>2, <2>2
    <3>2. CASE ~(i <= n)
      <4>1. i = n + 1 /\ i - 1 = n /\ (i # 1 => n \in 1..(n+1) /\ n <= n)
        BY <3>2
      <4>2. h[i] = IF i = 1 THEN rows[i] ELSE g[n] \o rows[i]
        BY <3>2
      <4>3. i # 1 => h[n] = g[n]
        BY <4>1
      <4> QED
        BY <4>1, <4>2, <4>3
    <3> QED
      BY <3>1, <3>2
  <2>4. h = [i \in 1..(n+1) |-> h[i]]
    OBVIOUS
  <2> HIDE DEF h
  <2>5. IsFlatten(rows, n + 1, h)
    BY <2>3, <2>4 DEF IsFlatten
  <2>6. n + 1 \in 0..m
    BY <1>2
  <2> QED
    BY <2>5, <2>6
<1> HIDE DEF K
<1>3. 0..m \subseteq K
  BY <1>1, <1>2, UpTo
<1> QED
  BY <1>3 DEF K

\* FlattenSeq is the last of the sequences h[0], h[1], ... that append row by row.
IsSteps(S, rows, h) ==
  /\ h \in [0..Len(rows) -> Seq(S)]
  /\ h[0] = <<>>
  /\ \A i \in 1..Len(rows) : h[i] = h[i-1] \o rows[i]
  /\ FlattenSeq(rows) = h[Len(rows)]

LEMMA FlattenSteps ==
  ASSUME NEW S, NEW rows \in Seq(Seq(S))
  PROVE  \E h : IsSteps(S, rows, h)
<1> DEFINE N == Len(rows)
           g == CHOOSE f : IsFlatten(rows, N, f)
           h == [i \in 0..N |-> IF i = 0 THEN <<>> ELSE g[i]]
<1>0. N \in Nat /\ \A i \in 1..N : rows[i] \in Seq(S)
  OBVIOUS
<1>1. FlattenSeq(rows) = IF N = 0 THEN rows ELSE g[N]
  BY DEF FlattenSeq, IsFlatten
<1>2. IsFlatten(rows, N, g)
  BY <1>0, FlattenExists
<1> HIDE DEF g
<1>3. \A i \in 1..N : g[i] = IF i = 1 THEN rows[i] ELSE g[i-1] \o rows[i]
  BY <1>2, Zenon DEF IsFlatten
<1>4. \A s \in Seq(S) : <<>> \o s = s
  OBVIOUS
<1>5. <<>> \in Seq(S) /\ \A s \in Seq(S), t \in Seq(S) : s \o t \in Seq(S)
  OBVIOUS
<1> DEFINE n == N
<1> HIDE DEF n
<1>6. n \in Nat /\ n = N
  BY <1>0 DEF n
<1>7. h[0] = <<>>
  BY <1>6 DEF n
<1>8. \A i \in 1..n : h[i] = h[i-1] \o rows[i]
  <2> SUFFICES ASSUME NEW i \in 1..n PROVE h[i] = h[i-1] \o rows[i]
    OBVIOUS
  <2>1. h[i] = g[i]
    BY <1>6
  <2>2. CASE i = 1
    BY <1>0, <1>3, <1>4, <1>6, <1>7, <2>1, <2>2
  <2>3. CASE i # 1
    <3>1. i - 1 \in 1..n /\ i - 1 # 0
      BY <1>6, <2>3
    <3>2. h[i-1] = g[i-1]
      BY <1>6, <3>1
    <3> QED
      BY <1>3, <1>6, <2>1, <2>3, <3>2
  <2> QED
    BY <2>2, <2>3
<1> DEFINE Q == Seq(S)
           K == {i \in 0..n : h[i] \in Q}
<1> HIDE DEF h
<1>9. 0..n \subseteq K
  <2>1. <<>> \in Q /\ \A a \in Q, b \in Q : a \o b \in Q
    BY <1>5
  <2>2. \A i \in 1..n : rows[i] \in Q
    BY <1>0, <1>6
  <2> HIDE DEF Q
  <2>3. 0 \in K
    BY <1>6, <1>7, <2>1
  <2>4. ASSUME NEW i \in 0..n, i \in K, i < n PROVE i + 1 \in K
    <3>1. i + 1 \in 1..n /\ i + 1 \in 0..n /\ (i + 1) - 1 = i
      BY <1>6, <2>4
    <3>2. h[i+1] = h[i] \o rows[i+1]
      BY <1>8, <3>1
    <3> QED
      BY <2>1, <2>2, <2>4, <3>1, <3>2
  <2> HIDE DEF K
  <2> QED
    BY <1>6, <2>3, <2>4, UpTo
<1>10. h \in [0..N -> Seq(S)]
  <2>1. \A i \in 0..N : h[i] \in Q
    BY <1>6, <1>9
  <2> HIDE DEF Q
  <2>2. h \in [0..N -> Q]
    BY <2>1 DEF h
  <2> QED
    BY <2>2 DEF Q
<1>11. FlattenSeq(rows) = h[N]
  <2>1. CASE N = 0
    <3>1. rows = <<>>
      BY <2>1
    <3> QED
      BY <1>1, <1>7, <2>1, <3>1
  <2>2. CASE N # 0
    BY <1>0, <1>1, <2>2 DEF h
  <2> QED
    BY <2>1, <2>2
<1>12. IsSteps(S, rows, h)
  BY <1>6, <1>7, <1>8, <1>10, <1>11 DEF IsSteps
<1> QED
  BY <1>12

-----------------------------------------------------------------------------
(* Where each element of each row goes.                                    *)

\* A place after the first a of a + b places is one of the b that follow.
LEMMA PastTheEnd ==
  \A a, b \in Nat : \A p \in 1..(a + b) :
    p \notin 1..a => p - a \in 1..b /\ p = a + (p - a)
  OBVIOUS

\* Rows of lengths R[1], R[2], ... end at L[1], L[2], ...: up to row m, every
\* element of a row has a place, and every place is one of such an element's.
LEMMA RowPlaces ==
  ASSUME NEW m \in Nat, NEW R \in [1..m -> Nat], NEW L \in [0..m -> Nat],
         L[0] = 0, \A i \in 1..m : L[i] = L[i-1] + R[i]
  PROVE  /\ \A n \in 0..m : \A i \in 0..n : L[i] <= L[n]
         /\ \A p \in 1..L[m] : \E i \in 1..m : \E k \in 1..R[i] : p = L[i-1] + k
<1> DEFINE All(n) == \A p \in 1..L[n] : \E i \in 1..n : \E k \in 1..R[i] : p = L[i-1] + k
           Grows(n) == \A i \in 0..n : L[i] <= L[n]
           K == {n \in 0..m : All(n) /\ Grows(n)}
<1>1. 0 \in K
  OBVIOUS
<1>2. ASSUME NEW n \in 0..m, n \in K, n < m PROVE n + 1 \in K
  <2>1. n + 1 \in 1..m /\ n + 1 \in 0..m /\ (n + 1) - 1 = n
    BY <1>2
  <2>2. L[n+1] = L[n] + R[n+1]
    BY <2>1
  <2>3. L[n] \in Nat /\ R[n+1] \in Nat /\ L[n+1] \in Nat
    BY <2>1
  <2>4. All(n) /\ Grows(n)
    BY <1>2
  <2>5. All(n+1)
    <3> SUFFICES ASSUME NEW p \in 1..L[n+1]
                 PROVE  \E i \in 1..(n+1) : \E k \in 1..R[i] : p = L[i-1] + k
      OBVIOUS
    <3>1. CASE p \in 1..L[n]
      <4>1. PICK i \in 1..n : \E k \in 1..R[i] : p = L[i-1] + k
        BY <2>4, <3>1
      <4> QED
        BY <2>1, <4>1
    <3>2. CASE p \notin 1..L[n]
      <4>1. p \in 1..(L[n] + R[n+1])
        BY <2>2
      <4>2. p - L[n] \in 1..R[n+1] /\ p = L[n] + (p - L[n])
        BY ONLY <2>3, <3>2, <4>1, PastTheEnd
      <4> QED
        BY <2>1, <4>2
    <3> QED
      BY <3>1, <3>2
  <2>6. Grows(n+1)
    <3> SUFFICES ASSUME NEW i \in 0..(n+1) PROVE L[i] <= L[n+1]
      OBVIOUS
    <3>1. CASE i = n + 1
      BY <2>3, <3>1
    <3>2. CASE i # n + 1
      <4>1. i \in 0..n /\ i \in 0..m
        BY <2>1, <3>2
      <4> QED
        BY <2>2, <2>3, <2>4, <4>1
    <3> QED
      BY <3>1, <3>2
  <2> HIDE DEF All, Grows
  <2> QED
    BY <2>1, <2>5, <2>6
<1> HIDE DEF K
<1>3. 0..m \subseteq K
  BY <1>1, <1>2, UpTo
<1> QED
  BY <1>3 DEF K

\* The same in lengths and elements: row i has length R[i] and ends at L[i].
IsLayout(rows, h, N, R, L) ==
  /\ N \in Nat /\ R \in [1..N -> Nat] /\ L \in [0..N -> Nat]
  /\ L[0] = 0
  /\ \A i \in 1..N :
       /\ L[i] = L[i-1] + R[i]
       /\ \A k \in 1..L[i-1] : h[i][k] = h[i-1][k]
       /\ \A k \in 1..R[i] : h[i][L[i-1] + k] = rows[i][k]

\* c has the elements of a and then those of b.
Joins(c, a, b) ==
  /\ Len(a) \in Nat /\ Len(b) \in Nat /\ Len(c) = Len(a) + Len(b)
  /\ \A k \in 1..Len(a) : c[k] = a[k]
  /\ \A k \in 1..Len(b) : c[Len(a) + k] = b[k]

LEMMA ConcatJoins ==
  ASSUME NEW S, NEW a \in Seq(S), NEW b \in Seq(S)
  PROVE  Joins(a \o b, a, b)
BY DEF Joins

LEMMA JoinsLayout ==
  ASSUME NEW N \in Nat, NEW rows, NEW h, Len(h[0]) = 0,
         \A i \in 1..N : Joins(h[i], h[i-1], rows[i])
  PROVE  \E R, L :
           /\ R = [i \in 1..N |-> Len(rows[i])] /\ L = [i \in 0..N |-> Len(h[i])]
           /\ IsLayout(rows, h, N, R, L)
<1> DEFINE R == [i \in 1..N |-> Len(rows[i])]
           L == [i \in 0..N |-> Len(h[i])]
<1>1. ASSUME NEW i \in 1..N
      PROVE  /\ R[i] \in Nat /\ L[i-1] \in Nat /\ L[i] \in Nat
             /\ L[i] = L[i-1] + R[i]
             /\ \A k \in 1..L[i-1] : h[i][k] = h[i-1][k]
             /\ \A k \in 1..R[i] : h[i][L[i-1] + k] = rows[i][k]
  <2>1. i - 1 \in 0..N /\ i \in 0..N
    OBVIOUS
  <2>2. L[i] = Len(h[i]) /\ L[i-1] = Len(h[i-1]) /\ R[i] = Len(rows[i])
    BY <2>1
  <2> DEFINE a == h[i-1]
             b == rows[i]
             c == h[i]
             l == L[i-1]
  <2>3. Joins(c, a, b) /\ L[i] = Len(c) /\ l = Len(a) /\ R[i] = Len(b)
    BY <2>2
  <2> SUFFICES /\ R[i] \in Nat /\ l \in Nat /\ L[i] \in Nat /\ L[i] = l + R[i]
               /\ \A k \in 1..l : c[k] = a[k]
               /\ \A k \in 1..R[i] : c[l + k] = b[k]
    OBVIOUS
  <2> HIDE DEF L, R, a, b, c, l
  <2> QED
    BY <2>3 DEF Joins
<1>2. L[0] = 0 /\ \A i \in 0..N : L[i] \in Nat
  <2>1. L[0] = 0
    OBVIOUS
  <2>2. \A i \in 0..N : i # 0 => i \in 1..N
    OBVIOUS
  <2>3. \A i \in 1..N : L[i] \in Nat
    BY <1>1
  <2> HIDE DEF L
  <2> QED
    BY <2>1, <2>2, <2>3
<1>3. R = [i \in 1..N |-> R[i]] /\ L = [i \in 0..N |-> L[i]]
  OBVIOUS
<1>4. R = [i \in 1..N |-> Len(rows[i])] /\ L = [i \in 0..N |-> Len(h[i])]
  OBVIOUS
<1> HIDE DEF L, R
<1>5. IsLayout(rows, h, N, R, L)
  BY <1>1, <1>2, <1>3 DEF IsLayout
<1> QED
  BY <1>4, <1>5

LEMMA StepsLayout ==
  ASSUME NEW S, NEW rows \in Seq(Seq(S)), NEW h, IsSteps(S, rows, h)
  PROVE  \E R, L : /\ R = [i \in 1..Len(rows) |-> Len(rows[i])]
                   /\ L = [i \in 0..Len(rows) |-> Len(h[i])]
                   /\ IsLayout(rows, h, Len(rows), R, L)
<1>1. Len(rows) \in Nat /\ \A i \in 1..Len(rows) : rows[i] \in Seq(S)
  OBVIOUS
<1>2. /\ h \in [0..Len(rows) -> Seq(S)] /\ h[0] = <<>>
      /\ \A i \in 1..Len(rows) : h[i] = h[i-1] \o rows[i]
  BY DEF IsSteps
<1>3. ASSUME NEW i \in 1..Len(rows) PROVE Joins(h[i], h[i-1], rows[i])
  <2> DEFINE a == h[i-1]
             b == rows[i]
  <2>1. a \in Seq(S)
    <3>1. i - 1 \in 0..Len(rows)
      BY <1>1
    <3> QED
      BY <1>2, <3>1
  <2>2. b \in Seq(S) /\ h[i] = a \o b
    BY <1>1, <1>2
  <2> HIDE DEF a, b
  <2>3. Joins(a \o b, a, b)
    BY <2>1, <2>2, ConcatJoins
  <2>4. Joins(h[i], a, b)
    BY <2>2, <2>3, Zenon
  <2> QED
    BY <2>4 DEF a, b
<1>4. Len(h[0]) = 0
  BY <1>2
<1> QED
  BY <1>1, <1>3, <1>4, JoinsLayout

\* An element, once appended, stays where it is.
LEMMA LayoutKeeps ==
  ASSUME NEW rows, NEW h, NEW N, NEW R, NEW L, IsLayout(rows, h, N, R, L),
         NEW i \in 1..N, NEW k \in 1..R[i]
  PROVE  L[i-1] + k \in 1..L[N] /\ h[N][L[i-1] + k] = rows[i][k]
<1> DEFINE c == L[i-1] + k
           At(n) == c \in 1..L[n] /\ h[n][c] = rows[i][k]
           K == {n \in 0..N : i <= n => At(n)}
<1>1. /\ N \in Nat /\ R \in [1..N -> Nat] /\ L \in [0..N -> Nat]
      /\ \A n \in 1..N : /\ L[n] = L[n-1] + R[n]
                         /\ \A j \in 1..L[n-1] : h[n][j] = h[n-1][j]
  BY DEF IsLayout
<1>2. i - 1 \in 0..N /\ R[i] \in Nat /\ L[i-1] \in Nat /\ L[i] = L[i-1] + R[i]
  BY <1>1
<1>3. At(i)
  BY <1>2 DEF IsLayout
<1>4. 0 \in K
  BY <1>1
<1>5. ASSUME NEW n \in 0..N, n \in K, n < N PROVE n + 1 \in K
  <2>1. n + 1 \in 1..N /\ n + 1 \in 0..N /\ (n + 1) - 1 = n
    BY <1>1, <1>5
  <2>2. L[n+1] = L[n] + R[n+1] /\ L[n] \in Nat /\ R[n+1] \in Nat
    BY <1>1, <2>1
  <2>3. CASE i <= n
    <3>1. At(n)
      BY <1>5, <2>3
    <3>2. h[n+1][c] = h[n][c]
      BY <1>1, <2>1, <3>1
    <3> HIDE DEF c
    <3>3. c \in 1..L[n+1]
      BY <2>2, <3>1
    <3> QED
      BY <2>1, <3>1, <3>2, <3>3
  <2>4. CASE i = n + 1
    BY <1>3, <2>1, <2>4
  <2>5. CASE i > n + 1
    BY <2>1, <2>5
  <2> QED
    BY <1>1, <2>1, <2>3, <2>4, <2>5
<1> HIDE DEF K
<1>6. 0..N \subseteq K
  BY <1>1, <1>4, <1>5, UpTo
<1>7. N \in 0..N /\ i <= N
  BY <1>1
<1> QED
  BY <1>6, <1>7 DEF K

\* The elements of the rows, as pairs of a row and an index, in reading order.
Entries(rows) == UNION {{i} \X (1..Len(rows[i])) : i \in 1..Len(rows)}
Earlier(d, e) == d[1] < e[1] \/ (d[1] = e[1] /\ d[2] < e[2])

IsEntries(E, N, R) == \A e : e \in E <=> \E i \in 1..N : \E k \in 1..R[i] : e = <<i, k>>

\* Where each element goes: everywhere, to itself, and in order.
PlacesEach(rows, flat, len, E, w) ==
  /\ w \in [E -> 1..len]
  /\ \A p \in 1..len : \E e \in E : w[e] = p
  /\ \A e \in E : flat[w[e]] = rows[e[1]][e[2]]
  /\ \A d, e \in E : Earlier(d, e) => w[d] < w[e]
IsPlacing(rows, w) ==
  PlacesEach(rows, FlattenSeq(rows), Len(FlattenSeq(rows)), Entries(rows), w)

\* The places a layout gives the elements.
LEMMA LayoutPlaces ==
  ASSUME NEW rows, NEW h, NEW N, NEW R, NEW L, IsLayout(rows, h, N, R, L),
         NEW E, IsEntries(E, N, R)
  PROVE  \E w : PlacesEach(rows, h[N], L[N], E, w)
<1> DEFINE w == [e \in E |-> L[e[1]-1] + e[2]]
<1>1. /\ N \in Nat /\ R \in [1..N -> Nat] /\ L \in [0..N -> Nat] /\ L[0] = 0
      /\ \A i \in 1..N : L[i] = L[i-1] + R[i]
  BY DEF IsLayout
<1>2. /\ \A n \in 0..N : \A i \in 0..n : L[i] <= L[n]
      /\ \A p \in 1..L[N] : \E i \in 1..N : \E k \in 1..R[i] : p = L[i-1] + k
  BY <1>1, RowPlaces
<1>3. \A i \in 1..N : \A k \in 1..R[i] :
        L[i-1] + k \in 1..L[N] /\ h[N][L[i-1] + k] = rows[i][k]
  BY LayoutKeeps
<1>4. \A e \in E : e[1] \in 1..N /\ e[2] \in 1..R[e[1]]
  BY DEF IsEntries
<1>5. w \in [E -> 1..L[N]]
  BY <1>3, <1>4
<1>6. \A p \in 1..L[N] : \E e \in E : w[e] = p
  <2> SUFFICES ASSUME NEW p \in 1..L[N] PROVE \E e \in E : w[e] = p
    OBVIOUS
  <2>1. PICK i \in 1..N : \E k \in 1..R[i] : p = L[i-1] + k
    BY <1>2
  <2>2. PICK k \in 1..R[i] : p = L[i-1] + k
    BY <2>1
  <2>3. <<i, k>> \in E /\ w[<<i, k>>] = p
    BY <2>2 DEF IsEntries
  <2> QED
    BY <2>3
<1>7. \A e \in E : h[N][w[e]] = rows[e[1]][e[2]]
  BY <1>3, <1>4
<1>8. ASSUME NEW d \in E, NEW e \in E, Earlier(d, e) PROVE w[d] < w[e]
  <2> DEFINE i == d[1]
             j == e[1]
             k == d[2]
             l == e[2]
  <2>1. i \in 1..N /\ j \in 1..N /\ k \in 1..R[i] /\ l \in 1..R[j]
    BY <1>4
  <2>2. w[d] = L[i-1] + k /\ w[e] = L[j-1] + l
    OBVIOUS
  <2>3. i < j \/ (i = j /\ k < l)
    BY <1>8 DEF Earlier
  <2> HIDE DEF i, j, k, l, w
  <2>4. i \in 0..N /\ i - 1 \in 0..N /\ j - 1 \in 0..N
    BY <1>1, <2>1
  <2>5. L[i-1] \in Nat /\ L[j-1] \in Nat /\ L[i] \in Nat /\ R[i] \in Nat /\ R[j] \in Nat
    BY <1>1, <2>1, <2>4
  <2>6. CASE i = j /\ k < l
    BY <2>1, <2>2, <2>5, <2>6
  <2>7. CASE i < j
    <3>1. i \in 0..(j-1)
      BY <1>1, <2>1, <2>7
    <3>2. L[i] <= L[j-1]
      BY <1>2, <2>4, <3>1
    <3>3. L[i] = L[i-1] + R[i]
      BY <1>1, <2>1
    <3> QED
      BY <2>1, <2>2, <2>5, <3>2, <3>3
  <2> QED
    BY <2>3, <2>6, <2>7
<1> HIDE DEF w
<1>9. PlacesEach(rows, h[N], L[N], E, w)
  BY <1>5, <1>6, <1>7, <1>8 DEF PlacesEach
<1> QED
  BY <1>9

LEMMA FlattenPlaces ==
  ASSUME NEW S, NEW rows \in Seq(Seq(S))
  PROVE  /\ FlattenSeq(rows) \in Seq(S)
         /\ \E w : IsPlacing(rows, w)
<1>1. PICK h : IsSteps(S, rows, h)
  BY FlattenSteps
<1> DEFINE flat == FlattenSeq(rows)
           N == Len(rows)
           E == Entries(rows)
<1>2. PICK R, L : /\ R = [i \in 1..N |-> Len(rows[i])] /\ L = [i \in 0..N |-> Len(h[i])]
                  /\ IsLayout(rows, h, N, R, L)
  BY <1>1, StepsLayout
<1>3. flat = h[N] /\ flat \in Seq(S) /\ Len(flat) = L[N]
  <2>1. N \in 0..N
    OBVIOUS
  <2> QED
    BY <1>1, <1>2, <2>1 DEF IsSteps
<1>4. IsEntries(E, N, R)
  BY <1>2 DEF Entries, IsEntries
<1> HIDE DEF flat, N, E
<1>5. PICK w : PlacesEach(rows, h[N], L[N], E, w)
  BY <1>2, <1>4, LayoutPlaces
<1>6. IsPlacing(rows, w)
  BY <1>3, <1>5, Zenon DEF IsPlacing, flat, E
<1> QED
  BY <1>3, <1>6 DEF flat

-----------------------------------------------------------------------------
(* Rows of at most one element: what a filter keeps, in order.             *)

Kept(rows) == {i \in 1..Len(rows) : Len(rows[i]) = 1}

\* Where each kept element goes: everywhere, to itself, and in order.
PlacesKept(rows, flat, len, K, w) ==
  /\ w \in [K -> 1..len]
  /\ \A p \in 1..len : \E i \in K : w[i] = p
  /\ \A i \in K : flat[w[i]] = rows[i][1]
  /\ \A i, j \in K : i < j => w[i] < w[j]
IsFiltering(rows, w) ==
  PlacesKept(rows, FlattenSeq(rows), Len(FlattenSeq(rows)), Kept(rows), w)

LEMMA FilterPlaces ==
  ASSUME NEW S, NEW rows \in Seq(Seq(S)), \A i \in 1..Len(rows) : Len(rows[i]) \in {0, 1}
  PROVE  /\ FlattenSeq(rows) \in Seq(S)
         /\ \E w : IsFiltering(rows, w)
<1> DEFINE flat == FlattenSeq(rows)
           len == Len(flat)
           N == Len(rows)
           K == Kept(rows)
           E == Entries(rows)
<1>1. flat \in Seq(S) /\ \E v : PlacesEach(rows, flat, len, E, v)
  BY FlattenPlaces DEF IsPlacing
<1>2. PICK v : PlacesEach(rows, flat, len, E, v)
  BY <1>1
<1>3. N \in Nat /\ len \in Nat /\ K \subseteq 1..N
  BY <1>1 DEF Kept
<1>4. \A e : e \in E <=> \E i \in K : e = <<i, 1>>
  <2>1. \A i \in 1..N : Len(rows[i]) = 0 \/ Len(rows[i]) = 1
    OBVIOUS
  <2>2. \A e : e \in E <=> \E i \in 1..N : \E k \in 1..Len(rows[i]) : e = <<i, k>>
    BY DEF Entries
  <2>3. \A i : i \in K <=> i \in 1..N /\ Len(rows[i]) = 1
    BY DEF Kept
  <2> DEFINE R(i) == Len(rows[i])
  <2> HIDE DEF N, E, K, R
  <2>4. /\ \A i \in 1..N : R(i) = 0 \/ R(i) = 1
        /\ \A e : e \in E <=> \E i \in 1..N : \E k \in 1..R(i) : e = <<i, k>>
        /\ \A i : i \in K <=> i \in 1..N /\ R(i) = 1
    BY <2>1, <2>2, <2>3 DEF R
  <2>5. 1 \in 1..1 /\ 1..0 = {} /\ \A k \in 1..1 : k = 1
    OBVIOUS
  <2> QED
    BY <2>4, <2>5
<1> DEFINE w == [i \in K |-> v[<<i, 1>>]]
<1> HIDE DEF flat, len, N, K, E
<1>5. w \in [K -> 1..len]
  BY <1>2, <1>4 DEF PlacesEach
<1>6. \A p \in 1..len : \E i \in K : w[i] = p
  <2> SUFFICES ASSUME NEW p \in 1..len PROVE \E i \in K : w[i] = p
    OBVIOUS
  <2>1. PICK e \in E : v[e] = p
    BY <1>2 DEF PlacesEach
  <2>2. PICK i \in K : e = <<i, 1>>
    BY <1>4
  <2> QED
    BY <2>1, <2>2
<1>7. \A i \in K : flat[w[i]] = rows[i][1]
  <2> SUFFICES ASSUME NEW i \in K PROVE flat[w[i]] = rows[i][1]
    OBVIOUS
  <2>1. <<i, 1>> \in E
    BY <1>4
  <2> QED
    BY <1>2, <2>1 DEF PlacesEach
<1>8. \A i, j \in K : i < j => w[i] < w[j]
  <2> SUFFICES ASSUME NEW i \in K, NEW j \in K, i < j PROVE w[i] < w[j]
    OBVIOUS
  <2>1. <<i, 1>> \in E /\ <<j, 1>> \in E /\ Earlier(<<i, 1>>, <<j, 1>>)
    BY <1>4 DEF Earlier
  <2> QED
    BY <1>2, <2>1 DEF PlacesEach
<1> HIDE DEF w
<1>9. IsFiltering(rows, w)
  BY <1>5, <1>6, <1>7, <1>8 DEF IsFiltering, PlacesKept, flat, len, K
<1> QED
  BY <1>1, <1>9 DEF flat

-----------------------------------------------------------------------------
(* Counting: a place is one more than the number of those before it.       *)

Reached(S, w, a) == {s \in S : w[s] <= a}

LEMMA CountPlaces ==
  ASSUME NEW n \in Nat, NEW S, NEW w \in [S -> 1..n],
         \A p \in 1..n : \E s \in S : w[s] = p,
         \A s, t \in S : w[s] = w[t] => s = t
  PROVE  /\ IsFiniteSet(S) /\ Cardinality(S) = n
         /\ \A a \in 0..n : Cardinality(Reached(S, w, a)) = a
<1>1. ASSUME NEW a \in 0..n
      PROVE  IsFiniteSet(Reached(S, w, a)) /\ Cardinality(Reached(S, w, a)) = a
  <2> DEFINE T == {s \in S : w[s] <= a}
             v == [p \in 1..a |-> CHOOSE s \in S : w[s] = p]
  <2>1. \A p \in 1..a : p \in 1..n
    OBVIOUS
  <2>2. \A p \in 1..a : v[p] \in S /\ w[v[p]] = p
    BY <2>1
  <2>3. v \in [1..a -> T]
    BY <2>2
  <2>4. \A p, q \in 1..a : v[p] = v[q] => p = q
    BY <2>2
  <2>5. \A t \in T : \E p \in 1..a : v[p] = t
    <3> SUFFICES ASSUME NEW t \in T PROVE \E p \in 1..a : v[p] = t
      OBVIOUS
    <3>1. w[t] \in 1..a
      OBVIOUS
    <3>2. v[w[t]] = t
      BY <2>2, <3>1
    <3> QED
      BY <3>1, <3>2
  <2> HIDE DEF v, T
  <2>6. v \in Bijection(1..a, T)
    BY <2>3, <2>4, <2>5 DEF Bijection, Injection, Surjection, IsInjective
  <2>7. a \in Nat /\ IsFiniteSet(1..a) /\ Cardinality(1..a) = a
    BY FS_Interval
  <2>8. IsFiniteSet(T) /\ Cardinality(T) = a
    BY <2>6, <2>7, FS_Bijection DEF ExistsBijection
  <2> QED
    BY <2>8 DEF T, Reached
<1>2. S = Reached(S, w, n) /\ n \in 0..n
  BY DEF Reached
<1>3. IsFiniteSet(Reached(S, w, n)) /\ Cardinality(Reached(S, w, n)) = n
  BY <1>1, <1>2
<1> QED
  BY <1>1, <1>2, <1>3

\* What is kept is found at its rank.
Rank(i, K) == Cardinality({j \in K : j <= i})

LEMMA FilterRanks ==
  ASSUME NEW S, NEW rows \in Seq(Seq(S)), \A i \in 1..Len(rows) : Len(rows[i]) \in {0, 1}
  PROVE  LET flat == FlattenSeq(rows)
             K == Kept(rows)
         IN  /\ flat \in Seq(S) /\ Len(flat) = Cardinality(K)
             /\ \A i \in K : Rank(i, K) \in 1..Len(flat) /\ flat[Rank(i, K)] = rows[i][1]
             /\ \A p \in 1..Len(flat) : \E i \in K : Rank(i, K) = p
             /\ \A i, j \in K : Rank(i, K) = Rank(j, K) => i = j
             /\ \A i, j \in K : i < j => Rank(i, K) < Rank(j, K)
<1> DEFINE flat == FlattenSeq(rows)
           len == Len(flat)
           K == Kept(rows)
<1>1. flat \in Seq(S) /\ \E w : PlacesKept(rows, flat, len, K, w)
  BY FilterPlaces DEF IsFiltering
<1>2. PICK w : PlacesKept(rows, flat, len, K, w)
  BY <1>1
<1>3. len \in Nat /\ K \subseteq Nat
  BY <1>1 DEF Kept
<1> HIDE DEF flat, len, K
<1>4. /\ w \in [K -> 1..len]
      /\ \A p \in 1..len : \E i \in K : w[i] = p
      /\ \A i \in K : flat[w[i]] = rows[i][1]
      /\ \A i, j \in K : i < j => w[i] < w[j]
  BY <1>2 DEF PlacesKept
<1>5. \A i, j \in K : w[i] = w[j] => i = j
  <2> SUFFICES ASSUME NEW i \in K, NEW j \in K, w[i] = w[j] PROVE i = j
    OBVIOUS
  <2>1. i \in Nat /\ j \in Nat /\ w[i] \in Nat /\ w[j] \in Nat
    BY <1>3, <1>4
  <2> QED
    BY <1>4, <2>1
<1>6. /\ Cardinality(K) = len
      /\ \A a \in 0..len : Cardinality(Reached(K, w, a)) = a
  BY <1>3, <1>4, <1>5, CountPlaces
<1>7. ASSUME NEW i \in K PROVE Rank(i, K) = w[i]
  <2>1. \A j \in K : w[j] <= w[i] <=> j <= i
    <3> SUFFICES ASSUME NEW j \in K PROVE w[j] <= w[i] <=> j <= i
      OBVIOUS
    <3>1. i \in Nat /\ j \in Nat /\ w[i] \in Nat /\ w[j] \in Nat
      BY <1>3, <1>4
    <3> QED
      BY <1>4, <3>1
  <2>2. Reached(K, w, w[i]) = {j \in K : j <= i}
    BY <2>1 DEF Reached
  <2>3. w[i] \in 0..len
    BY <1>3, <1>4
  <2> QED
    BY <1>6, <2>2, <2>3 DEF Rank
<1>8. /\ len = Cardinality(K)
      /\ \A i \in K : Rank(i, K) \in 1..len /\ flat[Rank(i, K)] = rows[i][1]
      /\ \A p \in 1..len : \E i \in K : Rank(i, K) = p
      /\ \A i, j \in K : Rank(i, K) = Rank(j, K) => i = j
      /\ \A i, j \in K : i < j => Rank(i, K) < Rank(j, K)
  BY <1>4, <1>5, <1>6, <1>7
<1> QED
  BY <1>1, <1>8 DEF flat, len, K

-----------------------------------------------------------------------------
(* Selecting elements, and what a loop over the selected ones appends.     *)

\* The elements of s at the indices K, in order.
Singles(s, K) == [i \in DOMAIN s |-> IF i \in K THEN <<s[i]>> ELSE <<>>]
Selected(s, K) == FlattenSeq(Singles(s, K))

LEMMA SinglesFacts ==
  ASSUME NEW T, NEW s \in Seq(T), NEW K \in SUBSET DOMAIN s
  PROVE  LET rows == Singles(s, K)
         IN  /\ rows \in Seq(Seq(T)) /\ Len(rows) = Len(s)
             /\ \A i \in 1..Len(rows) : Len(rows[i]) \in {0, 1}
             /\ Kept(rows) = K
             /\ \A i \in K : rows[i][1] = s[i]
<1> DEFINE N == Len(s)
           row(i) == IF i \in K THEN <<s[i]>> ELSE <<>>
           rows == [i \in 1..N |-> row(i)]
<1>1. DOMAIN s = 1..N /\ N \in Nat /\ \A i \in 1..N : s[i] \in T
  OBVIOUS
<1>2. \A x \in T : <<x>> \in Seq(T) /\ Len(<<x>>) = 1 /\ <<x>>[1] = x
  OBVIOUS
<1>3. <<>> \in Seq(T) /\ Len(<<>>) = 0
  OBVIOUS
<1>4. \A i \in 1..N : /\ row(i) \in Seq(T)
                      /\ Len(row(i)) = IF i \in K THEN 1 ELSE 0
                      /\ i \in K => row(i)[1] = s[i]
  BY <1>1, <1>2, <1>3
<1> DEFINE Q == Seq(T)
<1> HIDE DEF N, row
<1>5. rows \in Seq(Q) /\ Len(rows) = N
  <2>1. \A i \in 1..N : row(i) \in Q
    BY <1>4
  <2> HIDE DEF Q
  <2> QED
    BY <1>1, <2>1
<1>6. \A i \in 1..N : rows[i] = row(i)
  OBVIOUS
<1> HIDE DEF rows
<1>7. Kept(rows) = K
  <2>1. \A i : i \in Kept(rows) <=> i \in 1..N /\ Len(rows[i]) = 1
    BY <1>5 DEF Kept
  <2>2. \A i : i \in K => i \in 1..N
    BY <1>1
  <2>3. \A i : i \in Kept(rows) <=> i \in K
    BY <1>4, <1>6, <2>1, <2>2
  <2> QED
    BY <2>3, Zenon
<1>8. \A i \in 1..Len(rows) : Len(rows[i]) \in {0, 1}
  BY <1>4, <1>5, <1>6
<1>9. \A i \in K : rows[i][1] = s[i]
  BY <1>1, <1>4, <1>6
<1>10. rows = Singles(s, K)
  BY <1>1 DEF rows, row, N, Singles
<1> QED
  BY <1>5, <1>7, <1>8, <1>9, <1>10 DEF N, Q

\* What is selected is every element at an index of K, at the index's rank.
LEMMA SelectRanks ==
  ASSUME NEW T, NEW s \in Seq(T), NEW K \in SUBSET DOMAIN s
  PROVE  LET sel == Selected(s, K)
         IN  /\ sel \in Seq(T) /\ Len(sel) = Cardinality(K)
             /\ \A i \in K : Rank(i, K) \in 1..Len(sel) /\ sel[Rank(i, K)] = s[i]
             /\ \A p \in 1..Len(sel) : \E i \in K : Rank(i, K) = p
             /\ \A i, j \in K : Rank(i, K) = Rank(j, K) => i = j
             /\ \A i, j \in K : i < j => Rank(i, K) < Rank(j, K)
<1> DEFINE rows == Singles(s, K)
<1>1. /\ rows \in Seq(Seq(T)) /\ \A i \in 1..Len(rows) : Len(rows[i]) \in {0, 1}
      /\ Kept(rows) = K /\ \A i \in K : rows[i][1] = s[i]
  BY SinglesFacts
<1>2. Selected(s, K) = FlattenSeq(rows)
  BY DEF Selected
<1> HIDE DEF rows
<1>3. LET flat == FlattenSeq(rows)
      IN  /\ flat \in Seq(T) /\ Len(flat) = Cardinality(K)
          /\ \A i \in K : Rank(i, K) \in 1..Len(flat) /\ flat[Rank(i, K)] = rows[i][1]
          /\ \A p \in 1..Len(flat) : \E i \in K : Rank(i, K) = p
          /\ \A i, j \in K : Rank(i, K) = Rank(j, K) => i = j
          /\ \A i, j \in K : i < j => Rank(i, K) < Rank(j, K)
  <2>1. Kept(rows) = K
    BY <1>1
  <2> QED
    BY <1>1, <2>1, FilterRanks
<1> QED
  BY <1>1, <1>2, <1>3

LEMMA SelectedAt ==
  ASSUME NEW T, NEW s \in Seq(T), NEW K \in SUBSET DOMAIN s, NEW p \in 1..Cardinality(K)
  PROVE  LET k == CHOOSE j \in K : Rank(j, K) = p
         IN  k \in K /\ Selected(s, K)[p] = s[k]
<1> DEFINE sel == Selected(s, K)
           k == CHOOSE j \in K : Rank(j, K) = p
<1>1. /\ Len(sel) = Cardinality(K) /\ \A i \in K : sel[Rank(i, K)] = s[i]
      /\ \A q \in 1..Len(sel) : \E i \in K : Rank(i, K) = q
  BY SelectRanks
<1>2. k \in K /\ Rank(k, K) = p
  BY <1>1
<1> HIDE DEF sel, k
<1>3. sel[p] = s[k]
  BY <1>1, <1>2
<1> QED
  BY <1>2, <1>3 DEF sel, k

\* A loop over the selected elements that appends at most one thing for each.
Giving(K, given) == {i \in K : Len(given[i]) = 1}

LEMMA LoopPlaces ==
  ASSUME NEW T, NEW s \in Seq(T), NEW K \in SUBSET DOMAIN s,
         NEW U, NEW rows \in Seq(Seq(U)), NEW given,
         Len(rows) = Len(Selected(s, K)),
         \A i \in K : rows[Rank(i, K)] = given[i],
         \A i \in K : Len(given[i]) \in {0, 1}
  PROVE  LET flat == FlattenSeq(rows)
         IN  /\ flat \in Seq(U)
             /\ \E w : PlacesKept(given, flat, Len(flat), Giving(K, given), w)
<1> DEFINE flat == FlattenSeq(rows)
           len == Len(flat)
           N == Len(rows)
           J == Kept(rows)
           I == Giving(K, given)
<1>1. /\ \A i \in K : Rank(i, K) \in 1..N
      /\ \A p \in 1..N : \E i \in K : Rank(i, K) = p
      /\ \A i, j \in K : i < j => Rank(i, K) < Rank(j, K)
  BY SelectRanks
<1>2. \A p \in 1..N : Len(rows[p]) \in {0, 1}
  BY <1>1
<1>3. flat \in Seq(U) /\ \E v : PlacesKept(rows, flat, len, J, v)
  BY <1>2, FilterPlaces DEF IsFiltering
<1>4. PICK v : PlacesKept(rows, flat, len, J, v)
  BY <1>3
<1>5. \A p : p \in J <=> p \in 1..N /\ Len(rows[p]) = 1
  BY DEF Kept
<1> HIDE DEF flat, len, N, J
<1>6. /\ v \in [J -> 1..len]
      /\ \A p \in 1..len : \E i \in J : v[i] = p
      /\ \A i \in J : flat[v[i]] = rows[i][1]
      /\ \A i, j \in J : i < j => v[i] < v[j]
  BY <1>4 DEF PlacesKept
<1>7. \A i \in I : i \in K /\ Rank(i, K) \in J /\ rows[Rank(i, K)] = given[i]
  BY <1>1, <1>5 DEF Giving
<1>8. \A p \in J : \E i \in I : Rank(i, K) = p
  BY <1>1, <1>5 DEF Giving
<1> DEFINE w == [i \in I |-> v[Rank(i, K)]]
<1> HIDE DEF I
<1>9. w \in [I -> 1..len]
  BY <1>6, <1>7
<1>10. \A p \in 1..len : \E i \in I : w[i] = p
  BY <1>6, <1>8
<1>11. \A i \in I : flat[w[i]] = given[i][1]
  BY <1>6, <1>7
<1>12. \A i, j \in I : i < j => w[i] < w[j]
  BY <1>1, <1>6, <1>7
<1> HIDE DEF w
<1>13. PlacesKept(given, flat, len, I, w)
  BY <1>9, <1>10, <1>11, <1>12 DEF PlacesKept
<1> QED
  BY <1>3, <1>13 DEF flat, len, I

\* Two loops after one another, over different elements: the first one's places
\* come first.
PlacesJoined(given, flat, len, A, B, u) ==
  /\ u \in [A \cup B -> 1..len]
  /\ \A p \in 1..len : \E i \in A \cup B : u[i] = p
  /\ \A i \in A \cup B : flat[u[i]] = given[i][1]
  /\ \A i, j \in A : i < j => u[i] < u[j]
  /\ \A i, j \in B : i < j => u[i] < u[j]
  /\ \A i \in A, j \in B : u[i] < u[j]

LEMMA JoinPlaces ==
  ASSUME NEW given, NEW a, NEW b, NEW c, Joins(c, a, b),
         NEW A, NEW B, \A i \in A : i \notin B,
         NEW v, PlacesKept(given, a, Len(a), A, v),
         NEW w, PlacesKept(given, b, Len(b), B, w)
  PROVE  \E u : PlacesJoined(given, c, Len(c), A, B, u)
<1> DEFINE m == Len(a)
           n == Len(b)
           l == Len(c)
           C == A \cup B
           u == [i \in C |-> IF i \in A THEN v[i] ELSE m + w[i]]
<1>1. /\ m \in Nat /\ n \in Nat /\ l = m + n
      /\ \A k \in 1..m : c[k] = a[k]
      /\ \A k \in 1..n : c[m + k] = b[k]
  BY DEF Joins
<1>2. /\ v \in [A -> 1..m] /\ \A p \in 1..m : \E i \in A : v[i] = p
      /\ \A i \in A : a[v[i]] = given[i][1]
      /\ \A i, j \in A : i < j => v[i] < v[j]
  BY DEF PlacesKept
<1>3. /\ w \in [B -> 1..n] /\ \A p \in 1..n : \E i \in B : w[i] = p
      /\ \A i \in B : b[w[i]] = given[i][1]
      /\ \A i, j \in B : i < j => w[i] < w[j]
  BY DEF PlacesKept
<1> HIDE DEF m, n, l
<1>4. /\ \A i \in A : i \in C /\ u[i] = v[i]
      /\ \A i \in B : i \in C /\ u[i] = m + w[i]
      /\ \A i \in C : i \in A \/ i \in B
  OBVIOUS
<1>5. u = [i \in C |-> u[i]]
  OBVIOUS
<1> HIDE DEF u, C
<1>6. /\ \A i \in A : u[i] \in 1..m /\ u[i] \in 1..l
      /\ \A i \in B : u[i] \in (m+1)..l /\ u[i] \in 1..l
  BY <1>1, <1>2, <1>3, <1>4
<1>7. u \in [C -> 1..l]
  BY <1>4, <1>5, <1>6
<1>8. ASSUME NEW p \in 1..l PROVE \E i \in C : u[i] = p
  <2>1. CASE p \in 1..m
    BY <1>2, <1>4, <2>1
  <2>2. CASE p \notin 1..m
    <3>1. p - m \in 1..n /\ m + (p - m) = p
      BY <1>1, <2>2
    <3>2. PICK i \in B : w[i] = p - m
      BY <1>3, <3>1
    <3>3. i \in C /\ u[i] = p
      BY <1>4, <3>1, <3>2
    <3> QED
      BY <3>3
  <2> QED
    BY <2>1, <2>2
<1>9. \A i \in C : c[u[i]] = given[i][1]
  <2>1. \A i \in A : c[u[i]] = given[i][1]
    BY <1>1, <1>2, <1>4
  <2>2. \A i \in B : c[u[i]] = given[i][1]
    BY <1>1, <1>3, <1>4
  <2> QED
    BY <1>4, <2>1, <2>2
<1>10. /\ \A i, j \in A : i < j => u[i] < u[j]
       /\ \A i \in A, j \in B : u[i] < u[j]
  BY <1>1, <1>2, <1>4, <1>6
<1>11. \A i, j \in B : i < j => u[i] < u[j]
  <2> SUFFICES ASSUME NEW i \in B, NEW j \in B, i < j PROVE u[i] < u[j]
    OBVIOUS
  <2>1. w[i] \in Nat /\ w[j] \in Nat /\ w[i] < w[j]
    BY <1>1, <1>3
  <2> QED
    BY <1>1, <1>4, <2>1
<1>12. PlacesJoined(given, c, l, A, B, u)
  BY <1>7, <1>8, <1>9, <1>10, <1>11 DEF C, PlacesJoined
<1> QED
  BY <1>12 DEF l

\* Rows that are loops themselves, row i over the elements C[i], which go to u[i].
Pairs(N, C) == UNION {{i} \X C[i] : i \in 1..N}
IsNested(rows, C, u) ==
  \A i \in 1..Len(rows) :
    /\ u[i] \in [C[i] -> 1..Len(rows[i])]
    /\ \A p \in 1..Len(rows[i]) : \E k \in C[i] : u[i][k] = p

NestedEarlier(u, d, e) ==
  \/ d[1] < e[1]
  \/ d[1] = e[1] /\ u[d[1]][d[2]] < u[e[1]][e[2]]
PlacesNested(rows, P, u, flat, len, w) ==
  /\ w \in [P -> 1..len]
  /\ \A p \in 1..len : \E e \in P : w[e] = p
  /\ \A e \in P : flat[w[e]] = rows[e[1]][u[e[1]][e[2]]]
  /\ \A d, e \in P : NestedEarlier(u, d, e) => w[d] < w[e]

LEMMA NestedPlaces ==
  ASSUME NEW S, NEW rows \in Seq(Seq(S)), NEW C, NEW u, IsNested(rows, C, u)
  PROVE  LET flat == FlattenSeq(rows)
         IN  /\ flat \in Seq(S)
             /\ \E w : PlacesNested(rows, Pairs(Len(rows), C), u, flat, Len(flat), w)
<1> DEFINE flat == FlattenSeq(rows)
           len == Len(flat)
           N == Len(rows)
           R(i) == Len(rows[i])
           P == Pairs(N, C)
           E == Entries(rows)
           at(e) == <<e[1], u[e[1]][e[2]]>>
<1>1. flat \in Seq(S) /\ \E v : PlacesEach(rows, flat, len, E, v)
  BY FlattenPlaces DEF IsPlacing
<1>2. PICK v : PlacesEach(rows, flat, len, E, v)
  BY <1>1
<1>3. \A e : e \in E <=> \E i \in 1..N : \E p \in 1..R(i) : e = <<i, p>>
  BY DEF Entries
<1>4. \A e : e \in P <=> \E i \in 1..N : \E k \in C[i] : e = <<i, k>>
  BY DEF Pairs
<1>5. \A i \in 1..N : /\ u[i] \in [C[i] -> 1..R(i)]
                      /\ \A p \in 1..R(i) : \E k \in C[i] : u[i][k] = p
  BY DEF IsNested
<1> HIDE DEF flat, len, N, R, P, E
<1>6. /\ v \in [E -> 1..len]
      /\ \A p \in 1..len : \E e \in E : v[e] = p
      /\ \A e \in E : flat[v[e]] = rows[e[1]][e[2]]
      /\ \A d, e \in E : Earlier(d, e) => v[d] < v[e]
  BY <1>2 DEF PlacesEach
<1>7. \A e \in P : at(e) \in E
  <2> SUFFICES ASSUME NEW e \in P PROVE at(e) \in E
    OBVIOUS
  <2>1. PICK i \in 1..N : \E k \in C[i] : e = <<i, k>>
    BY <1>4
  <2>2. PICK k \in C[i] : e = <<i, k>>
    BY <2>1
  <2>3. u[i][k] \in 1..R(i)
    BY <1>5
  <2>4. at(e) = <<i, u[i][k]>>
    BY <2>2
  <2> HIDE DEF at
  <2> QED
    BY <1>3, <2>3, <2>4
<1>8. \A e \in E : \E d \in P : at(d) = e
  <2> SUFFICES ASSUME NEW e \in E PROVE \E d \in P : at(d) = e
    OBVIOUS
  <2>1. PICK i \in 1..N : \E p \in 1..R(i) : e = <<i, p>>
    BY <1>3
  <2>2. PICK p \in 1..R(i) : e = <<i, p>>
    BY <2>1
  <2>3. PICK k \in C[i] : u[i][k] = p
    BY <1>5, <2>2
  <2>4. <<i, k>> \in P /\ at(<<i, k>>) = e
    BY <1>4, <2>2, <2>3
  <2> QED
    BY <2>4
<1>9. \A e : at(e)[1] = e[1] /\ at(e)[2] = u[e[1]][e[2]]
  OBVIOUS
<1> DEFINE w == [e \in P |-> v[at(e)]]
<1> HIDE DEF at
<1>10. w \in [P -> 1..len]
  BY <1>6, <1>7
<1>11. \A p \in 1..len : \E e \in P : w[e] = p
  BY <1>6, <1>8
<1>12. \A e \in P : flat[w[e]] = rows[e[1]][u[e[1]][e[2]]]
  <2> SUFFICES ASSUME NEW e \in P PROVE flat[w[e]] = rows[e[1]][u[e[1]][e[2]]]
    OBVIOUS
  <2>1. w[e] = v[at(e)] /\ at(e) \in E
    BY <1>7
  <2>2. flat[v[at(e)]] = rows[at(e)[1]][at(e)[2]]
    BY <1>6, <2>1
  <2>3. at(e)[1] = e[1] /\ at(e)[2] = u[e[1]][e[2]]
    BY <1>9
  <2> HIDE DEF w
  <2> QED
    BY <2>1, <2>2, <2>3, Zenon
<1>13. \A d, e \in P : NestedEarlier(u, d, e) => w[d] < w[e]
  BY <1>6, <1>7, <1>9 DEF Earlier, NestedEarlier
<1> HIDE DEF w
<1>14. PlacesNested(rows, P, u, flat, len, w)
  BY <1>10, <1>11, <1>12, <1>13 DEF PlacesNested
<1> QED
  BY <1>1, <1>14 DEF flat, len, N, P

=============================================================================
