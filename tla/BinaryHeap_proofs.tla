-------------------------- MODULE BinaryHeap_proofs --------------------------
(***************************************************************************)
(* Proofs about BinaryHeap, for every set of records of one size, number   *)
(* of records and number of restarts.                                      *)
(***************************************************************************)
EXTENDS BinaryHeap, FiniteSetTheorems, SequenceTheorems, WellFoundedInduction, TLAPS

Bytes == 0..255

-----------------------------------------------------------------------------
(* Recursive functions of a number.                                         *)

LEMMA LessIsWellFounded ==
    \E R : IsWellFoundedOn(R, Nat) /\ \A x, y \in Nat : x < y => <<x, y>> \in R
<1> DEFINE R == OpToRel(<, Nat)
<1>1. IsWellFoundedOn(R, Nat)
  BY NatLessThanWellFounded
<1>2. \A x, y \in Nat : x < y => <<x, y>> \in R
  BY DEF OpToRel
<1> HIDE DEF R
<1>3. QED
  BY <1>1, <1>2

LEMMA LeastNatural ==
    ASSUME NEW S, S \subseteq Nat, S # {}
    PROVE  \E m \in S : \A x \in S : m <= x
<1>1. PICK R : IsWellFoundedOn(R, Nat) /\ \A x, y \in Nat : x < y => <<x, y>> \in R
  BY LessIsWellFounded
<1>2. PICK m \in S : \A y \in S : ~ (<<y, m>> \in R)
  <2>1. IsWellFoundedOn(R, Nat)
    BY <1>1
  <2>2. \E x \in S : \A y \in S : ~ (<<y, x>> \in R)
    BY <2>1, WFMin
  <2>3. QED
    BY <2>2
<1>3. \A x \in S : ~ (x < m)
  BY <1>1, <1>2
<1>4. QED
  BY <1>3

\* What holds of 0 and goes from n - 1 to n holds up to N; P is a set of numbers.
LEMMA UpTo ==
    ASSUME NEW N \in Nat, NEW P, 0 \in P, \A n \in 1..N : n - 1 \in P => n \in P
    PROVE  \A n \in 0..N : n \in P
<1> DEFINE Bad == {n \in 0..N : n \notin P}
<1>1. SUFFICES ASSUME Bad # {} PROVE FALSE
  OBVIOUS
<1>2. PICK m \in Bad : \A n \in Bad : m <= n
  <2>1. Bad \subseteq Nat
    OBVIOUS
  <2> HIDE DEF Bad
  <2>2. QED
    BY <1>1, <2>1, LeastNatural
<1>3. m \in 1..N /\ m - 1 \in 0..N /\ m - 1 \notin Bad
  BY <1>2
<1>4. QED
  BY <1>2, <1>3

\* step, a function of n and of the value before, gives values in S; g is what a recursion
\* with it yields from a on.
StepOn(S, N, step) == \A n \in 1..N, x \in S : step[<<n, x>>] \in S
Yields(S, N, a, step, g) ==
    g \in [0..N -> S] /\ g[0] = a /\ \A n \in 1..N : g[n] = step[<<n, g[n - 1]>>]

\* A function defined by recursion exists.
LEMMA RecursionExists ==
    ASSUME NEW S, NEW N \in Nat, NEW a \in S, NEW step, StepOn(S, N, step)
    PROVE  \E g : Yields(S, N, a, step, g)
<1> USE DEF StepOn
<1> DEFINE P == {n \in 0..N : \E g \in [0..n -> S] :
                    g[0] = a /\ \A i \in 1..n : g[i] = step[<<i, g[i - 1]>>]}
<1>1. 0 \in P
  <2> DEFINE g == [i \in 0..0 |-> a]
  <2>1. g \in [0..0 -> S] /\ g[0] = a
    OBVIOUS
  <2>2. \A i \in 1..0 : FALSE
    OBVIOUS
  <2> HIDE DEF g
  <2>3. QED
    BY <2>1, <2>2
<1>2. ASSUME NEW n \in 1..N, n - 1 \in P PROVE n \in P
  <2>1. PICK g \in [0..(n - 1) -> S] :
            g[0] = a /\ \A i \in 1..(n - 1) : g[i] = step[<<i, g[i - 1]>>]
    BY <1>2
  <2> DEFINE h == [i \in 0..n |-> IF i = n THEN step[<<n, g[n - 1]>>] ELSE g[i]]
  <2>2. g[n - 1] \in S
    BY <2>1
  <2>3. step[<<n, g[n - 1]>>] \in S
    BY <2>2
  <2>4. h \in [0..n -> S]
    <3>1. ASSUME NEW i \in 0..n, i # n PROVE g[i] \in S
      BY <3>1, <2>1
    <3>2. QED
      BY <2>3, <3>1
  <2>5. h[0] = a
    BY <2>1
  <2>6. ASSUME NEW i \in 1..n PROVE h[i] = step[<<i, h[i - 1]>>]
    <3>1. h[i - 1] = g[i - 1]
      OBVIOUS
    <3>2. CASE i = n
      <4>1. h[n] = step[<<n, g[n - 1]>>]
        OBVIOUS
      <4> HIDE DEF h
      <4>2. QED
        BY <3>1, <3>2, <4>1
    <3>3. CASE i # n
      <4>1. i \in 1..(n - 1)
        BY <3>3
      <4>2. g[i] = step[<<i, g[i - 1]>>]
        BY <4>1, <2>1
      <4>3. h[i] = g[i]
        BY <3>3
      <4>4. QED
        BY <3>1, <4>2, <4>3
    <3>4. QED
      BY <3>2, <3>3
  <2> HIDE DEF h
  <2>7. QED
    BY <2>4, <2>5, <2>6
<1> HIDE DEF P
<1>3. \A n \in 0..N : n \in P
  BY <1>1, <1>2, UpTo
<1>4. QED
  BY <1>3 DEF P, Yields

\* The pointwise equation of a function defined by recursion determines it.
GoesAlong(N, g, h) ==
    g[0] = h[0] /\ \A n \in 1..N : g[n - 1] = h[n - 1] => g[n] = h[n]

LEMMA RecursionUnique ==
    ASSUME NEW N \in Nat, NEW g, NEW h, GoesAlong(N, g, h)
    PROVE  \A n \in 0..N : g[n] = h[n]
<1> USE DEF GoesAlong
<1> DEFINE P == {n \in 0..N : g[n] = h[n]}
<1>1. 0 \in P
  OBVIOUS
<1>2. \A n \in 1..N : n - 1 \in P => n \in P
  OBVIOUS
<1> HIDE DEF P
<1>3. \A n \in 0..N : n \in P
  BY <1>1, <1>2, UpTo
<1>4. QED
  BY <1>3 DEF P

-----------------------------------------------------------------------------
(* The order of records.                                                    *)

Blob(n) == {b \in Seq(Bytes) : Len(b) = n}

LEMMA BlobBytes ==
    ASSUME NEW n \in Nat, NEW a \in Blob(n)
    PROVE  DOMAIN a = 1..n /\ a \in Seq(Bytes) /\ \A i \in 1..n : a[i] \in Nat
<1>1. a \in Seq(Bytes) /\ Len(a) = n
  BY DEF Blob
<1>2. DOMAIN a = 1..n
  BY <1>1, LenProperties
<1>3. \A i \in 1..n : a[i] \in Bytes
  BY <1>1, ElementOfSeq
<1>4. \A x \in Bytes : x \in Nat
  BY DEF Bytes
<1>5. QED
  BY <1>1, <1>2, <1>3, <1>4

\* Two blobs that are not equal differ at some byte for the first time.
LEMMA FirstDifference ==
    ASSUME NEW n \in Nat, NEW a \in Blob(n), NEW b \in Blob(n), a # b
    PROVE  \E i \in 1..n : a[i] # b[i] /\ \A j \in 1..(i - 1) : a[j] = b[j]
<1> DEFINE D == {i \in 1..n : a[i] # b[i]}
<1>1. D # {}
  <2>1. a \in Seq(Bytes) /\ b \in Seq(Bytes) /\ Len(a) = n /\ Len(b) = n
    BY DEF Blob
  <2>2. SUFFICES ASSUME \A i \in 1..n : a[i] = b[i] PROVE FALSE
    OBVIOUS
  <2>3. QED
    BY <2>1, <2>2, SeqEqual
<1>2. D \subseteq Nat
  OBVIOUS
<1>3. PICK i \in D : \A x \in D : i <= x
  <2> HIDE DEF D
  <2>1. QED
    BY <1>1, <1>2, LeastNatural
<1>4. \A j \in 1..(i - 1) : a[j] = b[j]
  <2>1. ASSUME NEW j \in 1..(i - 1) PROVE a[j] = b[j]
    <3>1. j \in 1..n /\ ~(i <= j)
      BY <1>3
    <3>2. QED
      BY <1>3, <3>1
  <2>2. QED
    BY <2>1
<1>5. QED
  BY <1>3, <1>4

LEMMA LessIsTotal ==
    ASSUME NEW n \in Nat, NEW a \in Blob(n), NEW b \in Blob(n), a # b
    PROVE  Less(a, b) \/ Less(b, a)
<1>1. PICK i \in 1..n : a[i] # b[i] /\ \A j \in 1..(i - 1) : a[j] = b[j]
  BY FirstDifference
<1>2. DOMAIN a = 1..n /\ DOMAIN b = 1..n /\ a[i] \in Nat /\ b[i] \in Nat
  BY BlobBytes
<1>3. a[i] < b[i] \/ b[i] < a[i]
  BY <1>1, <1>2
<1>4. QED
  BY <1>1, <1>2, <1>3 DEF Less

LEMMA LessIsTransitive ==
    ASSUME NEW n \in Nat, NEW a \in Blob(n), NEW b \in Blob(n), NEW c \in Blob(n),
           Less(a, b), Less(b, c)
    PROVE  Less(a, c)
<1>1. /\ DOMAIN a = 1..n /\ DOMAIN b = 1..n
      /\ \A i \in 1..n : a[i] \in Nat /\ b[i] \in Nat /\ c[i] \in Nat
  BY BlobBytes
<1>2. PICK i \in 1..n : a[i] < b[i] /\ \A j \in 1..(i - 1) : a[j] = b[j]
  BY <1>1 DEF Less
<1>3. PICK k \in 1..n : b[k] < c[k] /\ \A j \in 1..(k - 1) : b[j] = c[j]
  BY <1>1 DEF Less
<1>4. CASE i <= k
  <2>1. a[i] < c[i]
    <3>1. CASE i = k
      BY <1>1, <1>2, <1>3, <3>1
    <3>2. CASE i < k
      <4>1. i \in 1..(k - 1)
        BY <3>2
      <4>2. QED
        BY <1>2, <1>3, <4>1
    <3>3. QED
      BY <1>4, <3>1, <3>2
  <2>2. ASSUME NEW j \in 1..(i - 1) PROVE a[j] = c[j]
    <3>1. j \in 1..(k - 1)
      BY <1>4
    <3>2. QED
      BY <1>2, <1>3, <3>1
  <2>3. QED
    BY <1>1, <2>1, <2>2 DEF Less
<1>5. CASE k < i
  <2>1. k \in 1..(i - 1)
    BY <1>5
  <2>2. a[k] < c[k]
    BY <1>2, <1>3, <2>1
  <2>3. ASSUME NEW j \in 1..(k - 1) PROVE a[j] = c[j]
    <3>1. j \in 1..(i - 1)
      BY <1>5
    <3>2. QED
      BY <1>2, <1>3, <3>1
  <2>4. QED
    BY <1>1, <2>2, <2>3 DEF Less
<1>6. QED
  BY <1>4, <1>5

LEMMA LessIsIrreflexive ==
    ASSUME NEW n \in Nat, NEW a \in Blob(n)
    PROVE  ~Less(a, a)
<1>1. DOMAIN a = 1..n /\ \A i \in 1..n : a[i] \in Nat
  BY BlobBytes
<1>2. QED
  BY <1>1 DEF Less

\* "not below" is a total order.
AtMost(a, b) == ~Less(b, a)

LEMMA AtMostOrders ==
    ASSUME NEW n \in Nat, NEW a \in Blob(n), NEW b \in Blob(n)
    PROVE  /\ AtMost(a, a)
           /\ Less(a, b) => AtMost(a, b)
           /\ AtMost(a, b) /\ AtMost(b, a) => a = b
<1>1. ~(Less(a, b) /\ Less(b, a))
  BY LessIsTransitive, LessIsIrreflexive
<1>2. QED
  BY <1>1, LessIsIrreflexive, LessIsTotal DEF AtMost

LEMMA AtMostIsTransitive ==
    ASSUME NEW n \in Nat, NEW a \in Blob(n), NEW b \in Blob(n), NEW c \in Blob(n),
           AtMost(a, b), AtMost(b, c)
    PROVE  AtMost(a, c)
<1>1. SUFFICES ASSUME Less(c, a) PROVE FALSE
  BY DEF AtMost
<1>2. CASE a = b
  BY <1>1, <1>2 DEF AtMost
<1>3. CASE a # b
  <2>1. Less(a, b)
    BY <1>3, LessIsTotal DEF AtMost
  <2>2. Less(c, b)
    BY <1>1, <2>1, LessIsTransitive
  <2>3. QED
    BY <2>2 DEF AtMost
<1>4. QED
  BY <1>2, <1>3

\* A prefix as long as n bytes of a longer blob.
LEMMA PrefixIsBlob ==
    ASSUME NEW n \in Nat, NEW a \in Blob(n), NEW p \in Seq(Bytes), Len(p) <= n
    PROVE  /\ PrefixOf(p, a) \in Blob(Len(p)) /\ p \in Blob(Len(p)) /\ Len(p) \in Nat
           /\ \A i \in 1..Len(p) : PrefixOf(p, a)[i] = a[i]
<1> DEFINE m == Len(p)
           q == SubSeq(a, 1, m)
<1>1. m \in Nat
  BY LenProperties
<1>2. a \in Seq(Bytes) /\ Len(a) = n /\ \A i \in 1..n : a[i] \in Bytes
  BY ElementOfSeq DEF Blob
<1> HIDE DEF m
<1>3. \A i \in 1..m : a[i] \in Bytes
  BY <1>1, <1>2 DEF m
<1>4. /\ q \in Seq(Bytes) /\ Len(q) = (IF 1 <= m THEN m - 1 + 1 ELSE 0)
      /\ \A i \in 1..(m - 1 + 1) : q[i] = a[1 + i - 1]
  BY <1>1, <1>3, SubSeqProperties
<1> HIDE DEF q
<1>5. Len(q) = m
  BY <1>1, <1>4
<1>6. ASSUME NEW i \in 1..m PROVE q[i] = a[i]
  <2>1. i \in 1..(m - 1 + 1) /\ 1 + i - 1 = i
    BY <1>1
  <2>2. QED
    BY <1>4, <2>1
<1>7. PrefixOf(p, a) = q
  BY DEF PrefixOf, q, m
<1>8. QED
  BY <1>1, <1>4, <1>5, <1>6, <1>7 DEF Blob, m

\* The order of records is that of their prefixes, except among those that share it.
LEMMA PrefixKeepsOrder ==
    ASSUME NEW n \in Nat, NEW a \in Blob(n), NEW b \in Blob(n), AtMost(a, b),
           NEW p \in Seq(Bytes), Len(p) <= n
    PROVE  AtMost(PrefixOf(p, a), PrefixOf(p, b))
<1> DEFINE m == Len(p)
           x == PrefixOf(p, a)
           y == PrefixOf(p, b)
<1>1. SUFFICES ASSUME Less(y, x) PROVE Less(b, a)
  BY DEF AtMost
<1>2. /\ x \in Blob(m) /\ y \in Blob(m) /\ m \in Nat /\ m <= n
      /\ \A i \in 1..m : x[i] = a[i] /\ y[i] = b[i]
  BY PrefixIsBlob
<1> HIDE DEF m, x, y
<1>3. DOMAIN y = 1..m /\ DOMAIN b = 1..n
  BY <1>2, BlobBytes
<1>4. PICK i \in 1..m : y[i] < x[i] /\ \A j \in 1..(i - 1) : y[j] = x[j]
  BY <1>1, <1>3 DEF Less, x, y
<1>5. b[i] < a[i] /\ i \in 1..n
  BY <1>2, <1>4
<1>6. ASSUME NEW j \in 1..(i - 1) PROVE b[j] = a[j]
  <2>1. j \in 1..m
    BY <1>2
  <2>2. QED
    BY <1>2, <1>4, <2>1
<1>7. QED
  BY <1>3, <1>5, <1>6 DEF Less

RecordSize == CHOOSE n \in Nat : Records \subseteq Blob(n)

\* Records are blobs of one size, and prefixes are not longer.
LEMMA RecordsAre ==
    /\ RecordSize \in Nat /\ Records \subseteq Blob(RecordSize)
    /\ \A p \in IterPrefixes : p \in Seq(Bytes)
    /\ Records # {} => \A p \in IterPrefixes : Len(p) <= RecordSize
<1>1. \E n \in Nat : Records \subseteq Blob(n)
  <2>1. CASE Records = {}
    BY <2>1
  <2>2. CASE Records # {}
    <3>1. PICK r \in Records : TRUE
      BY <2>2
    <3>2. r \in Seq(Bytes)
      BY RecordsAssumption DEF Bytes
    <3>3. Len(r) \in Nat
      BY <3>2, LenProperties
    <3>4. \A q \in Records : q \in Seq(Bytes) /\ Len(q) = Len(r)
      BY RecordsAssumption DEF Bytes
    <3>5. QED
      BY <3>3, <3>4 DEF Blob
  <2>3. QED
    BY <2>1, <2>2
<1>2. RecordSize \in Nat /\ Records \subseteq Blob(RecordSize)
  BY <1>1 DEF RecordSize
<1>3. \A p \in IterPrefixes : p \in Seq(Bytes)
  BY RecordsAssumption DEF Bytes
<1>4. ASSUME Records # {} PROVE \A p \in IterPrefixes : Len(p) <= RecordSize
  <2>1. PICK r \in Records : TRUE
    BY <1>4
  <2>2. Len(r) = RecordSize
    BY <1>2 DEF Blob
  <2>3. QED
    BY <2>2, RecordsAssumption
<1>5. QED
  BY <1>2, <1>3, <1>4

\* In an ascending sequence no record is below an earlier one.
LEMMA AscendingPairs ==
    ASSUME NEW s \in Seq(Records), Ascending(s)
    PROVE  \A i, j \in 1..Len(s) : i <= j => AtMost(s[i], s[j])
<1> DEFINE N == Len(s)
<1>1. N \in Nat /\ \A i \in 1..N : s[i] \in Blob(RecordSize)
  <2>1. N \in Nat /\ \A i \in 1..N : s[i] \in Records
    BY LenProperties, ElementOfSeq
  <2>2. QED
    BY <2>1, RecordsAre
<1>2. \A i \in 1..(N - 1) : AtMost(s[i], s[i + 1])
  BY DEF Ascending, AtMost
<1> HIDE DEF N
<1>3. ASSUME NEW i \in 1..N PROVE \A j \in 1..N : i <= j => AtMost(s[i], s[j])
  <2> DEFINE P == {d \in 0..(N - i) : AtMost(s[i], s[i + d])}
  <2>1. 0 \in P
    <3>1. i + 0 = i /\ 0 \in 0..(N - i)
      BY <1>1
    <3>2. AtMost(s[i], s[i])
      BY <1>1, RecordsAre, AtMostOrders
    <3>3. QED
      BY <3>1, <3>2
  <2>2. ASSUME NEW d \in 1..(N - i), d - 1 \in P PROVE d \in P
    <3>1. i + (d - 1) \in 1..(N - 1) /\ (i + (d - 1)) + 1 = i + d /\ i + d \in 1..N
          /\ i + (d - 1) \in 1..N /\ d \in 0..(N - i)
      BY <1>1
    <3>2. AtMost(s[i], s[i + (d - 1)])
      BY <2>2
    <3>3. AtMost(s[i + (d - 1)], s[i + d])
      BY <1>2, <3>1
    <3>4. AtMost(s[i], s[i + d])
      <4>1. \A a, b, c \in Blob(RecordSize) : AtMost(a, b) /\ AtMost(b, c) => AtMost(a, c)
        BY RecordsAre, AtMostIsTransitive
      <4>2. s[i] \in Blob(RecordSize) /\ s[i + (d - 1)] \in Blob(RecordSize)
            /\ s[i + d] \in Blob(RecordSize)
        BY <1>1, <3>1
      <4>3. QED
        BY <3>2, <3>3, <4>1, <4>2
    <3>5. QED
      BY <3>1, <3>4
  <2> HIDE DEF P
  <2>3. N - i \in Nat
    BY <1>1
  <2>4. \A d \in 0..(N - i) : d \in P
    BY <2>1, <2>2, <2>3, UpTo
  <2>5. ASSUME NEW j \in 1..N, i <= j PROVE AtMost(s[i], s[j])
    <3>1. j - i \in 0..(N - i) /\ i + (j - i) = j
      BY <1>1, <2>5
    <3>2. QED
      BY <2>4, <3>1 DEF P
  <2>6. QED
    BY <2>5
<1>4. QED
  BY <1>3 DEF N

LEMMA InsertedAt ==
    ASSUME NEW S, NEW t \in Seq(S), NEW r \in S, NEW at \in 1..(Len(t) + 1)
    PROVE  /\ InsertAt(t, at, r) \in Seq(S) /\ Len(InsertAt(t, at, r)) = Len(t) + 1
           /\ \A i \in 1..(Len(t) + 1) :
                 InsertAt(t, at, r)[i] =
                    IF i < at THEN t[i] ELSE IF i = at THEN r ELSE t[i - 1]
<1> DEFINE N == Len(t)
           x == SubSeq(t, 1, at - 1)
           y == SubSeq(t, at, N)
           xr == x \o <<r>>
           q == xr \o y
<1>1. N \in Nat /\ \A i \in 1..N : t[i] \in S
  BY LenProperties, ElementOfSeq
<1>2. InsertAt(t, at, r) = q
  BY DEF InsertAt
<1> HIDE DEF N
<1>3. at \in 1..(N + 1)
  BY DEF N
<1>4. x \in Seq(S) /\ Len(x) = at - 1 /\ \A i \in 1..(at - 1) : x[i] = t[i]
  <2>1. \A i \in 1..(at - 1) : t[i] \in S
    BY <1>1, <1>3
  <2>2. /\ x \in Seq(S) /\ Len(x) = (IF 1 <= at - 1 THEN (at - 1) - 1 + 1 ELSE 0)
        /\ \A i \in 1..((at - 1) - 1 + 1) : x[i] = t[1 + i - 1]
    BY <1>1, <1>3, <2>1, SubSeqProperties
  <2> HIDE DEF x
  <2>3. Len(x) = at - 1
    BY <1>1, <1>3, <2>2
  <2>4. ASSUME NEW i \in 1..(at - 1) PROVE x[i] = t[i]
    <3>1. i \in 1..((at - 1) - 1 + 1) /\ 1 + i - 1 = i
      BY <1>1, <1>3
    <3>2. QED
      BY <2>2, <3>1
  <2>5. QED
    BY <2>2, <2>3, <2>4
<1>5. y \in Seq(S) /\ Len(y) = N - at + 1 /\ \A i \in 1..(N - at + 1) : y[i] = t[at + i - 1]
  <2>1. \A i \in at..N : t[i] \in S
    BY <1>1, <1>3
  <2>2. /\ y \in Seq(S) /\ Len(y) = (IF at <= N THEN N - at + 1 ELSE 0)
        /\ \A i \in 1..(N - at + 1) : y[i] = t[at + i - 1]
    BY <1>1, <1>3, <2>1, SubSeqProperties
  <2> HIDE DEF y
  <2>3. Len(y) = N - at + 1
    BY <1>1, <1>3, <2>2
  <2>4. QED
    BY <2>2, <2>3
<1> HIDE DEF x, y
<1>6. /\ xr \in Seq(S) /\ Len(xr) = at /\ \A i \in 1..(at - 1) : xr[i] = t[i]
      /\ xr[at] = r
  <2>1. xr = Append(x, r)
    BY <1>4
  <2>2. xr \in Seq(S) /\ Len(xr) = Len(x) + 1 /\ xr[Len(x) + 1] = r
        /\ \A i \in 1..Len(x) : xr[i] = x[i]
    BY <1>4, <2>1, AppendProperties
  <2>3. (at - 1) + 1 = at
    BY <1>1, <1>3
  <2> HIDE DEF xr
  <2>4. QED
    BY <1>4, <2>2, <2>3
<1> HIDE DEF xr
<1>7. /\ q \in Seq(S) /\ Len(q) = Len(xr) + Len(y)
      /\ \A i \in 1..(Len(xr) + Len(y)) :
            q[i] = IF i <= Len(xr) THEN xr[i] ELSE y[i - Len(xr)]
  BY <1>5, <1>6, ConcatProperties
<1> HIDE DEF q
<1>8. Len(q) = N + 1 /\ Len(xr) + Len(y) = N + 1
  BY <1>1, <1>3, <1>5, <1>6, <1>7
<1>9. ASSUME NEW i \in 1..(N + 1)
      PROVE  q[i] = IF i < at THEN t[i] ELSE IF i = at THEN r ELSE t[i - 1]
  <2>0. q[i] = IF i <= at THEN xr[i] ELSE y[i - at]
    BY <1>6, <1>7, <1>8
  <2>1. CASE i < at
    <3>1. i \in 1..(at - 1) /\ i <= at
      BY <1>1, <1>3, <2>1
    <3>2. QED
      BY <1>6, <2>0, <2>1, <3>1
  <2>2. CASE i = at
    <3>1. i <= at /\ ~(i < at)
      BY <1>1, <1>3, <2>2
    <3>2. QED
      BY <1>6, <2>0, <2>2, <3>1
  <2>3. CASE i > at
    <3>1. i - at \in 1..(N - at + 1) /\ at + (i - at) - 1 = i - 1 /\ ~(i <= at)
          /\ ~(i < at) /\ i # at
      BY <1>1, <1>3, <2>3
    <3>2. y[i - at] = t[i - 1]
      BY <1>5, <3>1
    <3>3. QED
      BY <2>0, <3>1, <3>2
  <2>4. QED
    BY <1>1, <1>3, <2>1, <2>2, <2>3
<1>10. QED
  BY <1>2, <1>7, <1>8, <1>9 DEF N

AscendingRecords == {t \in Seq(Records) : Ascending(t)}

\* Inserting before the first record above keeps the order.
LEMMA InsertedIs ==
    ASSUME NEW r \in Records, NEW t \in AscendingRecords
    PROVE  Inserted(r, t) \in AscendingRecords
<1> DEFINE N == Len(t)
           A == {i \in DOMAIN t : Less(r, t[i])} \cup {N + 1}
           at == Min(A)
           q == InsertAt(t, at, r)
<1>1. t \in Seq(Records) /\ \A i \in 1..(N - 1) : AtMost(t[i], t[i + 1])
  BY DEF AscendingRecords, Ascending, AtMost
<1>2. N \in Nat /\ DOMAIN t = 1..N
  BY <1>1, LenProperties
<1>3. \A i \in 1..N : t[i] \in Records
  BY <1>1, ElementOfSeq
<1>4. at \in A /\ \A i \in A : at <= i
  <2>1. \E m \in A : \A x \in A : m <= x
    <3>1. A \subseteq Nat /\ A # {}
      BY <1>2
    <3> HIDE DEF A
    <3>2. QED
      BY <3>1, LeastNatural
  <2> HIDE DEF A
  <2>2. QED
    BY <2>1 DEF Min
<1>5. at \in 1..(N + 1)
  BY <1>2, <1>4
<1>6. \A i \in 1..N : i < at => AtMost(t[i], r)
  <2>1. ASSUME NEW i \in 1..N, i < at, Less(r, t[i]) PROVE FALSE
    <3>1. i \in A
      BY <1>2, <2>1
    <3>2. at <= i
      BY <1>4, <3>1
    <3> HIDE DEF at
    <3>3. QED
      BY <1>2, <1>5, <2>1, <3>2
  <2>2. QED
    BY <2>1 DEF AtMost
<1>7. at <= N => AtMost(r, t[at])
  <2>1. SUFFICES ASSUME at <= N PROVE AtMost(r, t[at])
    OBVIOUS
  <2>2. at # N + 1
    BY <1>2, <1>5, <2>1
  <2>3. Less(r, t[at]) /\ at \in 1..N
    BY <1>2, <1>4, <2>2
  <2>4. r \in Blob(RecordSize) /\ t[at] \in Blob(RecordSize)
    BY <1>3, <2>3, RecordsAre
  <2>5. QED
    BY <2>3, <2>4, RecordsAre, AtMostOrders
<1> HIDE DEF A, at
<1>8. /\ q \in Seq(Records) /\ Len(q) = N + 1
      /\ \A i \in 1..(N + 1) : q[i] = IF i < at THEN t[i] ELSE IF i = at THEN r ELSE t[i - 1]
  BY <1>1, <1>5, InsertedAt
<1> HIDE DEF q
<1>9. ASSUME NEW i \in 1..((N + 1) - 1) PROVE AtMost(q[i], q[i + 1])
  <2>1. i \in 1..N /\ i \in 1..(N + 1) /\ i + 1 \in 1..(N + 1) /\ (i + 1) - 1 = i
    BY <1>2
  <2>2. CASE i + 1 < at
    <3>1. i < at /\ i \in 1..(N - 1)
      BY <1>2, <1>5, <2>1, <2>2
    <3>2. q[i] = t[i] /\ q[i + 1] = t[i + 1]
      BY <1>8, <2>1, <2>2, <3>1
    <3>3. QED
      BY <1>1, <3>1, <3>2
  <2>3. CASE i + 1 = at
    <3>1. i < at /\ ~(i + 1 < at)
      BY <1>2, <1>5, <2>1, <2>3
    <3>2. q[i] = t[i] /\ q[i + 1] = r
      BY <1>8, <2>1, <2>3, <3>1
    <3>3. QED
      BY <1>6, <2>1, <3>1, <3>2
  <2>4. CASE i = at
    <3>1. ~(i < at) /\ ~(i + 1 < at) /\ i + 1 # at /\ at <= N
      BY <1>2, <1>5, <2>1, <2>4
    <3>2. q[i] = r /\ q[i + 1] = t[i]
      BY <1>8, <2>1, <2>4, <3>1
    <3>3. QED
      BY <1>7, <2>4, <3>1, <3>2
  <2>5. CASE i > at
    <3>1. ~(i < at) /\ i # at /\ ~(i + 1 < at) /\ i + 1 # at
          /\ i - 1 \in 1..(N - 1) /\ (i - 1) + 1 = i
      BY <1>2, <1>5, <2>1, <2>5
    <3>2. q[i] = t[i - 1] /\ q[i + 1] = t[i]
      BY <1>8, <2>1, <3>1
    <3>3. AtMost(t[i - 1], t[(i - 1) + 1])
      BY <1>1, <3>1
    <3>4. QED
      BY <3>1, <3>2, <3>3
  <2>6. QED
    BY <1>2, <1>5, <2>1, <2>2, <2>3, <2>4, <2>5
<1>10. q \in AscendingRecords
  BY <1>8, <1>9 DEF AscendingRecords, Ascending, AtMost
<1>11. QED
  BY <1>10 DEF Inserted, q, at, A, N

\* The recursive function of Sorted.
IsSorting(s, f) == f = [n \in 0..Len(s) |-> IF n = 0 THEN <<>> ELSE Inserted(s[n], f[n - 1])]

LEMMA SortedIs ==
    ASSUME NEW s \in Seq(Records)
    PROVE  Sorted(s) \in AscendingRecords
<1> DEFINE N == Len(s)
           S == AscendingRecords
           step == [p \in (1..N) \X S |-> Inserted(s[p[1]], p[2])]
           c == CHOOSE c : IsSorting(s, c)
<1>1. N \in Nat /\ \A n \in 1..N : s[n] \in Records
  BY LenProperties, ElementOfSeq
<1>2. <<>> \in S
  BY DEF AscendingRecords, Ascending
<1>3. \A n \in 1..N, x \in S : step[<<n, x>>] = Inserted(s[n], x)
  OBVIOUS
<1> HIDE DEF N, S, step
<1>4. StepOn(S, N, step)
  <2>1. \A n \in 1..N, x \in S : Inserted(s[n], x) \in S
    BY <1>1, InsertedIs DEF S
  <2>2. QED
    BY <1>3, <2>1 DEF StepOn
<1>5. PICK g \in [0..N -> S] : g[0] = <<>> /\ \A n \in 1..N : g[n] = step[<<n, g[n - 1]>>]
  <2>1. \E g : Yields(S, N, <<>>, step, g)
    BY <1>1, <1>2, <1>4, RecursionExists
  <2>2. QED
    BY <2>1 DEF Yields
<1>6. \A n \in 1..N : g[n] = Inserted(s[n], g[n - 1])
  <2>1. \A n \in 1..N : g[n - 1] \in S
    BY <1>1, <1>5
  <2>2. QED
    BY <1>3, <1>5, <2>1
<1>7. IsSorting(s, g)
  <2>1. g = [n \in 0..N |-> g[n]]
    BY <1>5
  <2>2. \A n \in 0..N : g[n] = IF n = 0 THEN <<>> ELSE Inserted(s[n], g[n - 1])
    BY <1>1, <1>5, <1>6
  <2>3. [n \in 0..N |-> g[n]] = [n \in 0..N |-> IF n = 0 THEN <<>> ELSE Inserted(s[n], g[n - 1])]
    BY <2>2
  <2>4. QED
    BY <2>1, <2>3 DEF IsSorting, N
<1>8. IsSorting(s, c)
  BY <1>7
<1>9. c[0] = <<>> /\ \A n \in 1..N : c[n] = Inserted(s[n], c[n - 1])
  <2> HIDE DEF c
  <2>1. c = [n \in 0..N |-> IF n = 0 THEN <<>> ELSE Inserted(s[n], c[n - 1])]
    BY <1>8 DEF IsSorting, N
  <2>2. \A n \in 0..N : c[n] = IF n = 0 THEN <<>> ELSE Inserted(s[n], c[n - 1])
    BY <2>1
  <2>3. QED
    BY <1>1, <2>2
<1>10. \A n \in 0..N : c[n] = g[n]
  <2> HIDE DEF c
  <2>1. GoesAlong(N, c, g)
    BY <1>5, <1>6, <1>9 DEF GoesAlong
  <2>2. QED
    BY <1>1, <2>1, RecursionUnique
<1>11. Sorted(s) = c[N]
  BY DEF Sorted, IsSorting, N
<1>12. QED
  <2> HIDE DEF c
  <2>1. Sorted(s) = g[N]
    BY <1>1, <1>10, <1>11
  <2>2. QED
    BY <1>1, <1>5, <2>1 DEF S

-----------------------------------------------------------------------------
(* The file.                                                                *)

\* What Path has was sorted as a whole; what Path.new has is sorted when it gets the name.
FileInv ==
    /\ published = NoFile \/ published \in AscendingRecords
    /\ fresh \in Seq(Records)
    /\ mode \in {"none", "create", "read"}
    /\ pc \in {"ready", "rename"}
    /\ pc = "rename" => mode = "create" /\ fresh \in AscendingRecords
    /\ mode = "read" => published # NoFile

LEMMA NoFileIsNone ==
    NoFile \notin Seq(Records)
<1>1. SUFFICES ASSUME NoFile \in Seq(Records) PROVE FALSE
  OBVIOUS
<1>2. Len(NoFile) = 1 /\ NoFile[1] = <<>>
  BY DEF NoFile
<1>3. NoFile[1] \in Records
  BY <1>1, <1>2, ElementOfSeq
<1>4. QED
  BY <1>2, <1>3, RecordsAssumption

LEMMA FileIsInductive ==
    ASSUME FileInv, [Next]_vars
    PROVE  FileInv'
<1>1. <<>> \in Seq(Records)
  OBVIOUS
<1>2. CASE Create
  BY <1>1, <1>2 DEF Create, FileInv
<1>3. CASE Open
  BY <1>3 DEF Open, FileInv
<1>4. CASE Crash
  BY <1>1, <1>4 DEF Crash, FileInv
<1>5. ASSUME NEW r \in Records, Insert(r) PROVE FileInv'
  BY <1>5 DEF Insert, FileInv
<1>6. CASE CloseSorts
  <2>1. Sorted(fresh) \in AscendingRecords
    BY SortedIs DEF FileInv
  <2>2. Sorted(fresh) \in Seq(Records)
    BY <2>1 DEF AscendingRecords
  <2>3. QED
    BY <1>6, <2>1, <2>2 DEF CloseSorts, FileInv
<1>7. CASE CloseRenames
  <2>1. fresh \in AscendingRecords
    BY <1>7 DEF CloseRenames, FileInv
  <2>2. fresh # NoFile
    BY NoFileIsNone DEF FileInv
  <2>3. QED
    BY <1>1, <1>7, <2>1, <2>2 DEF CloseRenames, FileInv
<1>8. ASSUME NEW p \in IterPrefixes, GetAll(p) PROVE FileInv'
  BY <1>8 DEF GetAll, FileInv
<1>9. CASE IterNext
  BY <1>9 DEF IterNext, FileInv
<1>10. CASE ToMin
  BY <1>10 DEF ToMin, FileInv
<1>11. CASE IteratorEnds
  BY <1>11 DEF IteratorEnds, FileInv
<1>12. CASE UNCHANGED vars
  BY <1>12 DEF vars, FileInv
<1>13. QED
  BY <1>2, <1>3, <1>4, <1>5, <1>6, <1>7, <1>8, <1>9, <1>10, <1>11, <1>12 DEF Next

LEMMA FileIsInvariant ==
    Spec => []FileInv
<1>1. Init => FileInv
  BY DEF Init, FileInv
<1>2. FileInv /\ [Next]_vars => FileInv'
  BY FileIsInductive
<1>3. QED
  BY <1>1, <1>2, PTL DEF Spec

\* PublishedIsSorted: whatever is inserted, and wherever a process ends in Close, the records
\* at Path ascend; Close sorts what is at Path.new before it has the name.
THEOREM FileIsSorted ==
    Spec => []PublishedIsSorted
<1>1. FileInv => PublishedIsSorted
  BY DEF FileInv, PublishedIsSorted, AscendingRecords
<1>2. QED
  BY <1>1, FileIsInvariant, PTL

-----------------------------------------------------------------------------
(* The records with a prefix are next to one another.                       *)

\* The part of a record that is compared with the prefix.
Key(p, pos) == PrefixOf(p, At(pos))

LEMMA KeysAscend ==
    ASSUME published \in AscendingRecords, NEW p \in IterPrefixes
    PROVE  /\ Size \in Nat
           /\ Size > 0 => Len(p) \in Nat /\ p \in Blob(Len(p))
           /\ \A i \in 0..(Size - 1) : At(i) \in Records /\ Key(p, i) \in Blob(Len(p))
           /\ \A i, j \in 0..(Size - 1) : i <= j => AtMost(Key(p, i), Key(p, j))
<1> DEFINE N == Len(published)
<1>1. published \in Seq(Records) /\ Ascending(published)
  BY DEF AscendingRecords
<1>2. N \in Nat /\ Size = N
  BY <1>1, LenProperties DEF Size
<1>3. \A i \in 1..N : published[i] \in Records
  BY <1>1, ElementOfSeq
<1>4. \A i, j \in 1..N : i <= j => AtMost(published[i], published[j])
  BY <1>1, AscendingPairs
<1> HIDE DEF N
<1>5. ASSUME NEW i \in 0..(N - 1) PROVE i + 1 \in 1..N
  BY <1>2
<1>6. ASSUME NEW i \in 0..(N - 1)
      PROVE  /\ At(i) \in Records /\ At(i) \in Blob(RecordSize)
             /\ p \in Seq(Bytes) /\ Len(p) <= RecordSize /\ RecordSize \in Nat
             /\ Key(p, i) \in Blob(Len(p)) /\ Len(p) \in Nat /\ p \in Blob(Len(p))
  <2>1. At(i) \in Records
    BY <1>3, <1>5 DEF At
  <2>2. At(i) \in Blob(RecordSize) /\ RecordSize \in Nat /\ p \in Seq(Bytes) /\ Len(p) <= RecordSize
    BY <2>1, RecordsAre
  <2>3. PrefixOf(p, At(i)) \in Blob(Len(p)) /\ p \in Blob(Len(p)) /\ Len(p) \in Nat
    BY <2>2, PrefixIsBlob
  <2>4. QED
    BY <2>1, <2>2, <2>3 DEF Key
<1>7. ASSUME NEW i \in 0..(N - 1), NEW j \in 0..(N - 1), i <= j
      PROVE  AtMost(Key(p, i), Key(p, j))
  <2>1. AtMost(At(i), At(j))
    <3>1. i + 1 \in 1..N /\ j + 1 \in 1..N /\ i + 1 <= j + 1
      BY <1>2, <1>5, <1>7
    <3>2. QED
      BY <1>4, <3>1 DEF At
  <2>2. QED
    BY <1>6, <2>1, PrefixKeepsOrder DEF Key
<1>8. N > 0 => Len(p) \in Nat /\ p \in Blob(Len(p))
  <2>1. N > 0 => 0 \in 0..(N - 1)
    BY <1>2
  <2>2. QED
    BY <1>6, <2>1
<1>9. QED
  BY <1>2, <1>6, <1>7, <1>8

\* What a record that does not match says of those below or above it, and what two that
\* match say of those between them.
LEMMA MatchesAreTogether ==
    ASSUME published \in AscendingRecords, NEW p \in IterPrefixes,
           NEW i \in 0..(Size - 1), NEW j \in 0..(Size - 1), i <= j
    PROVE  /\ Less(Key(p, j), p) => ~Matches(p, i)
           /\ ~Matches(p, i) /\ ~Less(Key(p, i), p) => ~Matches(p, j)
           /\ Matches(p, i) /\ Matches(p, j) =>
                 \A k \in 0..(Size - 1) : i <= k /\ k <= j => Matches(p, k)
<1>1. \A k \in 0..(Size - 1) : Matches(p, k) <=> Key(p, k) = p
  BY DEF Matches, Key
<1>2. /\ Size \in Nat /\ Len(p) \in Nat /\ p \in Blob(Len(p))
      /\ \A k \in 0..(Size - 1) : Key(p, k) \in Blob(Len(p))
      /\ \A k, l \in 0..(Size - 1) : k <= l => AtMost(Key(p, k), Key(p, l))
  <2>1. Size \in Nat
    BY KeysAscend
  <2>2. Size > 0
    BY <2>1
  <2>3. QED
    BY <2>2, KeysAscend
<1>3. \A k \in 0..(Size - 1) : AtMost(Key(p, k), p) /\ AtMost(p, Key(p, k)) => Key(p, k) = p
  BY <1>2, AtMostOrders
<1>4. Less(Key(p, j), p) => ~Matches(p, i)
  BY <1>1, <1>2 DEF AtMost
<1>5. ASSUME ~Matches(p, i), ~Less(Key(p, i), p), Matches(p, j) PROVE FALSE
  <2>1. AtMost(p, Key(p, i))
    BY <1>5 DEF AtMost
  <2>2. AtMost(Key(p, i), Key(p, j)) /\ Key(p, j) = p
    BY <1>1, <1>2, <1>5
  <2>3. QED
    BY <1>1, <1>3, <1>5, <2>1, <2>2
<1>6. ASSUME Matches(p, i), Matches(p, j), NEW k \in 0..(Size - 1), i <= k, k <= j
      PROVE  Matches(p, k)
  <2>1. AtMost(Key(p, i), Key(p, k)) /\ AtMost(Key(p, k), Key(p, j))
    BY <1>2, <1>6
  <2>2. Key(p, i) = p /\ Key(p, j) = p
    BY <1>1, <1>6
  <2>3. QED
    BY <1>1, <1>3, <2>1, <2>2
<1>7. QED
  BY <1>4, <1>5, <1>6

-----------------------------------------------------------------------------
(* The binary search.                                                       *)

Ends == (0..(Size + 1)) \X (0..Size)
Half(e) == (e[1] + e[2]) \div 2
Width(e) == IF e[2] < e[1] THEN 0 ELSE e[2] - e[1] + 1

\* One step of the search, with f for what the rest of it finds.
Probe(p, f, e) ==
    IF e[2] < e[1] \/ Half(e) >= Size THEN -1
    ELSE IF Matches(p, Half(e)) THEN Half(e)
    ELSE IF Less(Key(p, Half(e)), p) THEN f[<<Half(e) + 1, e[2]>>]
    ELSE IF Half(e) = 0 THEN -1 ELSE f[<<e[1], Half(e) - 1>>]

LEMMA HalfIs ==
    ASSUME Size \in Nat, NEW e \in Ends
    PROVE  /\ e = <<e[1], e[2]>> /\ e[1] \in 0..(Size + 1) /\ e[2] \in 0..Size
           /\ Half(e) \in Nat /\ Width(e) \in 0..(Size + 1)
           /\ Half(e) >= Size /\ e[1] <= e[2] => e[1] >= Size
           /\ e[1] <= e[2] => e[1] <= Half(e) /\ Half(e) <= e[2]
<1> DEFINE s == e[1] + e[2]
<1>1. e = <<e[1], e[2]>> /\ e[1] \in 0..(Size + 1) /\ e[2] \in 0..Size
  BY DEF Ends
<1>2. s \in Nat
  BY <1>1
<1>3. \A x \in Nat : x \div 2 \in Nat /\ 2 * (x \div 2) <= x /\ x < 2 * (x \div 2) + 2
  OBVIOUS
<1>4. Half(e) = s \div 2
  BY DEF Half
<1>5. Half(e) \in Nat /\ 2 * Half(e) <= s /\ s < 2 * Half(e) + 2
  <2> HIDE DEF s
  <2>1. QED
    BY <1>2, <1>3, <1>4
<1>6. QED
  BY <1>1, <1>5 DEF Width

\* What is left to search is narrower.
LEMMA Narrows ==
    ASSUME Size \in Nat, NEW e \in Ends, e[1] <= e[2], Half(e) < Size
    PROVE  /\ <<Half(e) + 1, e[2]>> \in Ends /\ Width(<<Half(e) + 1, e[2]>>) < Width(e)
           /\ Half(e) # 0 => <<e[1], Half(e) - 1>> \in Ends
                             /\ Width(<<e[1], Half(e) - 1>>) < Width(e)
<1> DEFINE h == Half(e)
           l == e[1]
           r == e[2]
<1>1. /\ l \in 0..(Size + 1) /\ r \in 0..Size /\ h \in Nat /\ l <= h /\ h <= r /\ h < Size
      /\ Width(e) = r - l + 1
  BY HalfIs DEF Width
<1> HIDE DEF h, l, r
<1>2. <<h + 1, r>> \in Ends /\ Width(<<h + 1, r>>) = IF r < h + 1 THEN 0 ELSE r - (h + 1) + 1
  BY <1>1 DEF Ends, Width
<1>3. h # 0 => <<l, h - 1>> \in Ends /\ Width(<<l, h - 1>>) = IF h - 1 < l THEN 0 ELSE (h - 1) - l + 1
  BY <1>1 DEF Ends, Width
<1>4. Width(<<h + 1, r>>) < Width(e) /\ (h # 0 => Width(<<l, h - 1>>) < Width(e))
  BY <1>1, <1>2, <1>3
<1>5. QED
  BY <1>2, <1>3, <1>4 DEF h, l, r

\* Two functions that agree on what is narrower.
AgreeBelow(e, f, g) == \A d \in Ends : Width(d) < Width(e) => f[d] = g[d]

LEMMA ProbeOnlyLooksBelow ==
    ASSUME Size \in Nat, NEW p, NEW e \in Ends, NEW f, NEW g, AgreeBelow(e, f, g)
    PROVE  Probe(p, f, e) = Probe(p, g, e)
<1>1. CASE e[2] < e[1] \/ Half(e) >= Size
  BY <1>1 DEF Probe
<1>2. CASE ~(e[2] < e[1] \/ Half(e) >= Size)
  <2>1. e[1] <= e[2] /\ Half(e) < Size
    BY <1>2, HalfIs
  <2>2. /\ f[<<Half(e) + 1, e[2]>>] = g[<<Half(e) + 1, e[2]>>]
        /\ Half(e) # 0 => f[<<e[1], Half(e) - 1>>] = g[<<e[1], Half(e) - 1>>]
    BY <2>1, Narrows DEF AgreeBelow
  <2>3. QED
    BY <2>2 DEF Probe
<1>3. QED
  BY <1>1, <1>2

\* The recursive function of Search.
IsBetween(p, f) == f = [ends \in (0..(Size + 1)) \X (0..Size) |->
    IF ends[2] < ends[1] \/ (ends[1] + ends[2]) \div 2 >= Size THEN -1
    ELSE IF Matches(p, (ends[1] + ends[2]) \div 2) THEN (ends[1] + ends[2]) \div 2
    ELSE IF Less(PrefixOf(p, At((ends[1] + ends[2]) \div 2)), p)
         THEN f[<<(ends[1] + ends[2]) \div 2 + 1, ends[2]>>]
    ELSE IF (ends[1] + ends[2]) \div 2 = 0 THEN -1
    ELSE f[<<ends[1], (ends[1] + ends[2]) \div 2 - 1>>]]

LEMMA BetweenIsProbe ==
    ASSUME NEW p, NEW f
    PROVE  IsBetween(p, f) <=> f = [e \in Ends |-> Probe(p, f, e)]
BY DEF IsBetween, Probe, Half, Ends, Key

LEMMA ProbeIsInt ==
    ASSUME Size \in Nat, NEW p, NEW f \in [Ends -> Int], NEW e \in Ends
    PROVE  Probe(p, f, e) \in Int
<1>1. CASE e[2] < e[1] \/ Half(e) >= Size
  BY <1>1 DEF Probe
<1>2. CASE ~(e[2] < e[1] \/ Half(e) >= Size)
  <2>1. e[1] <= e[2] /\ Half(e) < Size /\ Half(e) \in Int
    BY <1>2, HalfIs
  <2>2. /\ f[<<Half(e) + 1, e[2]>>] \in Int
        /\ Half(e) # 0 => f[<<e[1], Half(e) - 1>>] \in Int
    BY <2>1, Narrows
  <2>3. QED
    BY <2>1, <2>2 DEF Probe
<1>3. QED
  BY <1>1, <1>2

\* The search comes to an end: step after step more of the function stays as it is.
LEMMA BetweenExists ==
    ASSUME Size \in Nat, NEW p
    PROVE  \E f : IsBetween(p, f)
<1> DEFINE S == [Ends -> Int]
           N == Size + 2
           a == [e \in Ends |-> -1]
           step == [q \in (1..N) \X S |-> [e \in Ends |-> Probe(p, q[2], e)]]
<1>1. N \in Nat /\ a \in S
  OBVIOUS
<1>2. \A n \in 1..N, x \in S : step[<<n, x>>] = [e \in Ends |-> Probe(p, x, e)]
  OBVIOUS
<1> HIDE DEF step
<1>3. StepOn(S, N, step)
  <2>1. \A x \in S : [e \in Ends |-> Probe(p, x, e)] \in S
    BY ProbeIsInt
  <2>2. QED
    BY <1>2, <2>1 DEF StepOn
<1>4. \A e \in Ends : a[e] = -1
  OBVIOUS
<1> HIDE DEF N, a, S
<1>5. PICK g : g \in [0..N -> S] /\ g[0] = a /\ \A n \in 1..N : g[n] = step[<<n, g[n - 1]>>]
  <2>1. \E g : Yields(S, N, a, step, g)
    BY <1>1, <1>3, RecursionExists
  <2>2. QED
    BY <2>1 DEF Yields
<1>6. \A n \in 1..N : n \in 0..N /\ n - 1 \in 0..N
  BY <1>1
<1>7. \A n \in 1..N : g[n] = [e \in Ends |-> Probe(p, g[n - 1], e)]
  BY <1>2, <1>5, <1>6
<1>8. \A n \in 1..N, e \in Ends : g[n][e] = Probe(p, g[n - 1], e)
  BY <1>7
<1> DEFINE P == {n \in 0..(Size + 1) : \A e \in Ends : Width(e) <= n => g[n + 1][e] = g[n][e]}
<1>9. 0 \in P
  <2>1. ASSUME NEW e \in Ends, Width(e) <= 0 PROVE g[0 + 1][e] = g[0][e]
    <3>1. e[2] < e[1]
      BY <2>1, HalfIs DEF Width
    <3>2. 1 \in 1..N /\ 0 + 1 = 1 /\ 1 - 1 = 0
      BY DEF N
    <3>3. g[1][e] = -1
      BY <1>8, <3>1, <3>2 DEF Probe
    <3>4. QED
      BY <1>4, <1>5, <3>2, <3>3
  <2>2. QED
    BY <2>1
<1>10. ASSUME NEW n \in 1..(Size + 1), n - 1 \in P PROVE n \in P
  <2>1. n \in 1..N /\ n + 1 \in 1..N /\ (n + 1) - 1 = n /\ (n - 1) + 1 = n /\ n \in 0..(Size + 1)
    BY DEF N
  <2>2. ASSUME NEW e \in Ends, Width(e) <= n PROVE g[n + 1][e] = g[n][e]
    <3>1. ASSUME NEW d \in Ends, Width(d) < Width(e) PROVE g[n][d] = g[n - 1][d]
      <4>1. Width(d) \in Nat /\ Width(e) \in Nat
        BY HalfIs
      <4>2. Width(d) <= n - 1
        BY <2>2, <3>1, <4>1
      <4>3. g[(n - 1) + 1][d] = g[n - 1][d]
        BY <1>10, <4>2
      <4>4. QED
        BY <2>1, <4>3
    <3>2. AgreeBelow(e, g[n], g[n - 1])
      BY <3>1 DEF AgreeBelow
    <3>3. Probe(p, g[n], e) = Probe(p, g[n - 1], e)
      BY <3>2, ProbeOnlyLooksBelow
    <3>4. g[n + 1][e] = Probe(p, g[n], e) /\ g[n][e] = Probe(p, g[n - 1], e)
      BY <1>8, <2>1
    <3>5. QED
      BY <3>3, <3>4
  <2>3. QED
    BY <2>1, <2>2
<1>11. \A n \in 0..(Size + 1) : n \in P
  <2> HIDE DEF P
  <2>1. Size + 1 \in Nat
    OBVIOUS
  <2>2. QED
    BY <1>9, <1>10, <2>1, UpTo
<1> DEFINE M == Size + 1
<1>12. M \in 0..(Size + 1) /\ M + 1 \in 1..N /\ (M + 1) - 1 = M
  BY DEF N
<1>13. \A e \in Ends : g[M + 1][e] = g[M][e]
  <2>1. \A e \in Ends : Width(e) <= M
    BY HalfIs
  <2>2. M \in P
    BY <1>11, <1>12
  <2> HIDE DEF M
  <2>3. QED
    BY <2>1, <2>2
<1> HIDE DEF M, P
<1>14. g[M + 1] = [e \in Ends |-> Probe(p, g[M], e)]
  BY <1>7, <1>12
<1>15. g[M + 1] = g[M]
  <2>1. M \in 0..N /\ M + 1 \in 0..N
    BY <1>1, <1>12
  <2>2. g[M] \in [Ends -> Int] /\ g[M + 1] \in [Ends -> Int]
    BY <1>5, <2>1 DEF S
  <2>3. QED
    BY <1>13, <2>2
<1>16. g[M] = [e \in Ends |-> Probe(p, g[M], e)]
  BY <1>14, <1>15
<1>17. QED
  BY <1>16, BetweenIsProbe

\* What the search between two ends promises.
Answers(p, f, e) ==
    \/ f[e] \in 0..(Size - 1) /\ Matches(p, f[e])
    \/ f[e] = -1 /\ \A pos \in 0..(Size - 1) : e[1] <= pos /\ pos <= e[2] => ~Matches(p, pos)

LEMMA ProbeAnswers ==
    ASSUME published \in AscendingRecords, NEW p \in IterPrefixes, NEW f,
           \A e \in Ends : f[e] = Probe(p, f, e),
           NEW e \in Ends, \A d \in Ends : Width(d) < Width(e) => Answers(p, f, d)
    PROVE  Answers(p, f, e)
<1> DEFINE h == Half(e)
<1>1. Size \in Nat
  BY KeysAscend
<1>2. /\ e[1] \in 0..(Size + 1) /\ e[2] \in 0..Size /\ h \in Nat
      /\ h >= Size /\ e[1] <= e[2] => e[1] >= Size
      /\ e[1] <= e[2] => e[1] <= h /\ h <= e[2]
  BY <1>1, HalfIs
<1>3. f[e] = IF e[2] < e[1] \/ h >= Size THEN -1
             ELSE IF Matches(p, h) THEN h
             ELSE IF Less(Key(p, h), p) THEN f[<<h + 1, e[2]>>]
             ELSE IF h = 0 THEN -1 ELSE f[<<e[1], h - 1>>]
  BY DEF Probe
<1>4. e[1] <= e[2] /\ h < Size =>
         /\ Answers(p, f, <<h + 1, e[2]>>)
         /\ h # 0 => Answers(p, f, <<e[1], h - 1>>)
  BY <1>1, Narrows
<1> HIDE DEF h
<1>5. CASE e[2] < e[1] \/ h >= Size
  <2>1. \A pos \in 0..(Size - 1) : ~(e[1] <= pos /\ pos <= e[2])
    BY <1>1, <1>2, <1>5
  <2>2. f[e] = -1
    BY <1>3, <1>5
  <2>3. QED
    BY <2>1, <2>2 DEF Answers
<1>6. CASE ~(e[2] < e[1] \/ h >= Size)
  <2>1. e[1] <= e[2] /\ h \in 0..(Size - 1) /\ h < Size
    BY <1>1, <1>2, <1>6
  <2>2. CASE Matches(p, h)
    BY <1>3, <1>6, <2>1, <2>2 DEF Answers
  <2>3. CASE ~Matches(p, h) /\ Less(Key(p, h), p)
    <3>1. f[e] = f[<<h + 1, e[2]>>]
      BY <1>3, <1>6, <2>3
    <3>2. Answers(p, f, <<h + 1, e[2]>>)
      BY <1>4, <2>1
    <3>3. \A pos \in 0..(Size - 1) : pos <= h => ~Matches(p, pos)
      BY <2>1, <2>3, MatchesAreTogether
    <3>4. \A pos \in 0..(Size - 1) : e[1] <= pos /\ pos <= e[2] => pos <= h \/ (h + 1 <= pos /\ pos <= e[2])
      BY <1>1, <1>2
    <3>5. <<h + 1, e[2]>>[1] = h + 1 /\ <<h + 1, e[2]>>[2] = e[2]
      OBVIOUS
    <3>6. QED
      BY <3>1, <3>2, <3>3, <3>4, <3>5 DEF Answers
  <2>4. CASE ~Matches(p, h) /\ ~Less(Key(p, h), p)
    <3>1. \A pos \in 0..(Size - 1) : h <= pos => ~Matches(p, pos)
      BY <2>1, <2>4, MatchesAreTogether
    <3>2. CASE h = 0
      <4>1. f[e] = -1
        BY <1>3, <1>6, <2>4, <3>2
      <4>2. \A pos \in 0..(Size - 1) : h <= pos
        BY <1>1, <3>2
      <4>3. QED
        BY <3>1, <4>1, <4>2 DEF Answers
    <3>3. CASE h # 0
      <4>1. f[e] = f[<<e[1], h - 1>>]
        BY <1>3, <1>6, <2>4, <3>3
      <4>2. Answers(p, f, <<e[1], h - 1>>)
        BY <1>4, <2>1, <3>3
      <4>3. \A pos \in 0..(Size - 1) : e[1] <= pos /\ pos <= e[2] => h <= pos \/ (e[1] <= pos /\ pos <= h - 1)
        BY <1>1, <1>2
      <4>4. <<e[1], h - 1>>[1] = e[1] /\ <<e[1], h - 1>>[2] = h - 1
        OBVIOUS
      <4>5. QED
        BY <3>1, <4>1, <4>2, <4>3, <4>4 DEF Answers
    <3>4. QED
      BY <3>2, <3>3
  <2>5. QED
    BY <2>2, <2>3, <2>4
<1>7. QED
  BY <1>5, <1>6

\* Search finds a record with the prefix if there is one.
LEMMA SearchFinds ==
    ASSUME published \in AscendingRecords, NEW p \in IterPrefixes
    PROVE  \/ Search(p) \in 0..(Size - 1) /\ Matches(p, Search(p))
           \/ Search(p) = -1 /\ \A pos \in 0..(Size - 1) : ~Matches(p, pos)
<1> DEFINE c == CHOOSE f : IsBetween(p, f)
<1>1. Size \in Nat
  BY KeysAscend
<1>2. IsBetween(p, c)
  BY <1>1, BetweenExists
<1>3. Search(p) = IF Size = 0 THEN -1
                  ELSE IF Size = 1 THEN IF Matches(p, 0) THEN 0 ELSE -1
                  ELSE c[<<0, Size>>]
  BY DEF Search, IsBetween
<1> HIDE DEF c
<1>4. \A e \in Ends : c[e] = Probe(p, c, e)
  <2>1. c = [e \in Ends |-> Probe(p, c, e)]
    BY <1>2, BetweenIsProbe
  <2>2. QED
    BY <2>1
<1> DEFINE P == {n \in 0..(Size + 1) : \A e \in Ends : Width(e) <= n => Answers(p, c, e)}
<1>5. 0 \in P
  <2>1. ASSUME NEW e \in Ends, Width(e) <= 0 PROVE Answers(p, c, e)
    <3>1. \A d \in Ends : Width(d) >= 0
      BY <1>1, HalfIs
    <3>2. \A d \in Ends : Width(d) < Width(e) => Answers(p, c, d)
      <4>1. \A d \in Ends : Width(d) \in Nat
        BY <1>1, HalfIs
      <4>2. QED
        BY <2>1, <4>1
    <3>3. QED
      BY <1>4, <3>2, ProbeAnswers
  <2>2. QED
    BY <1>1, <2>1
<1>6. ASSUME NEW n \in 1..(Size + 1), n - 1 \in P PROVE n \in P
  <2>1. ASSUME NEW e \in Ends, Width(e) <= n PROVE Answers(p, c, e)
    <3>1. \A d \in Ends : Width(d) \in Nat
      BY <1>1, HalfIs
    <3>2. \A d \in Ends : Width(d) < Width(e) => Width(d) <= n - 1
      BY <2>1, <3>1
    <3>3. \A d \in Ends : Width(d) < Width(e) => Answers(p, c, d)
      BY <1>6, <3>2
    <3>4. QED
      BY <1>4, <3>3, ProbeAnswers
  <2>2. n \in 0..(Size + 1)
    BY <1>1
  <2>3. QED
    BY <2>1, <2>2
<1>7. \A n \in 0..(Size + 1) : n \in P
  <2> HIDE DEF P
  <2>1. Size + 1 \in Nat
    BY <1>1
  <2>2. QED
    BY <1>5, <1>6, <2>1, UpTo
<1>8. \A e \in Ends : Answers(p, c, e)
  <2>1. Size + 1 \in P
    BY <1>1, <1>7
  <2>2. \A e \in Ends : Width(e) <= Size + 1
    BY <1>1, HalfIs
  <2>3. QED
    BY <2>1, <2>2
<1>9. CASE Size = 0
  BY <1>3, <1>9
<1>10. CASE Size = 1
  <2>1. \A pos \in 0..(Size - 1) : pos = 0
    BY <1>10
  <2>2. 0 \in 0..(Size - 1)
    BY <1>10
  <2>3. Search(p) = IF Matches(p, 0) THEN 0 ELSE -1
    BY <1>3, <1>10
  <2>4. QED
    BY <2>1, <2>2, <2>3
<1>11. CASE Size # 0 /\ Size # 1
  <2>1. Search(p) = c[<<0, Size>>]
    BY <1>3, <1>11
  <2>2. <<0, Size>> \in Ends
    BY <1>1 DEF Ends
  <2>3. Answers(p, c, <<0, Size>>)
    BY <1>8, <2>2
  <2>4. \A pos \in 0..(Size - 1) : 0 <= pos /\ pos <= Size
    BY <1>1
  <2>5. <<0, Size>>[1] = 0 /\ <<0, Size>>[2] = Size
    OBVIOUS
  <2>6. QED
    BY <2>1, <2>3, <2>4, <2>5 DEF Answers
<1>12. QED
  BY <1>9, <1>10, <1>11

-----------------------------------------------------------------------------
(* The iterator.                                                            *)

Matching == {pos \in 0..(Size - 1) : Matches(Prefix, pos)}

\* It has been where it started and at every position down from there.
Down ==
    /\ Heap = "open" /\ Direction = -1 /\ ~fromMin
    /\ Pos \in 0..Pivot
    /\ \A pos \in (Pos + 1)..Pivot : pos \in Matching
    /\ Len(yielded) = Pivot - Pos
    /\ \A i \in 1..(Pivot - Pos) : yielded[i] = At(Pivot + 1 - i)

\* The position of the i-th record returned when low is the first match.
Way(low, i) == IF ~fromMin /\ i <= Pivot - low + 1 THEN Pivot + 1 - i ELSE low + i - 1

\* It has been at the first match, low, and at every position below end.
BelowEnd(low, end) ==
    /\ \A pos \in 0..(low - 1) : pos \notin Matching
    /\ \A pos \in low..Pivot : pos \in Matching
    /\ end \in low..Size
    /\ ~fromMin => end >= Pivot + 1
    /\ \A pos \in low..(end - 1) : pos \in Matching
    /\ Len(yielded) = end - low
    /\ \A i \in 1..(end - low) : yielded[i] = At(Way(low, i))

Up == Direction = 1 /\ \E low \in 0..Pivot : BelowEnd(low, Pos)

Found == Pivot \in Matching /\ (Down \/ Up)

FoundNothing == Matching = {} /\ yielded = <<>> /\ ~fromMin

NotStarted == Direction = -1 /\ yielded = <<>> /\ ~fromMin

IterInv ==
    /\ Heap \in {"none", "open", "ended"}
    /\ fromMin \in BOOLEAN
    /\ yielded \in Seq(Records)
    /\ Heap = "none" => NotStarted
    /\ Heap # "none" => mode = "read" /\ Prefix \in IterPrefixes
    /\ Heap = "open" => Found
    /\ Heap = "ended" => FoundNothing \/ (Found /\ Pos \notin Matching)

LEMMA MatchingIs ==
    ASSUME published \in AscendingRecords, Prefix \in IterPrefixes
    PROVE  /\ Size \in Nat /\ Matching \subseteq 0..(Size - 1)
           /\ \A pos \in Nat : pos \in Matching <=> pos < Size /\ Matches(Prefix, pos)
           /\ \A pos \in 0..(Size - 1) : At(pos) \in Records
           /\ \A i, k \in Matching, j \in Nat : i <= j /\ j <= k => j \in Matching
<1>1. Size \in Nat /\ \A pos \in 0..(Size - 1) : At(pos) \in Records
  BY KeysAscend
<1>2. Matching \subseteq 0..(Size - 1)
  BY DEF Matching
<1>3. \A pos \in Nat : pos \in Matching <=> pos < Size /\ Matches(Prefix, pos)
  BY <1>1 DEF Matching
<1>4. ASSUME NEW i \in Matching, NEW k \in Matching, NEW j \in Nat, i <= j, j <= k
      PROVE  j \in Matching
  <2>1. i \in 0..(Size - 1) /\ j \in 0..(Size - 1) /\ k \in 0..(Size - 1) /\ i <= k
    BY <1>1, <1>2, <1>4
  <2>2. Matches(Prefix, i) /\ Matches(Prefix, k)
    BY DEF Matching
  <2>3. Matches(Prefix, j)
    BY <1>4, <2>1, <2>2, MatchesAreTogether
  <2>4. QED
    BY <2>1, <2>3 DEF Matching
<1>5. QED
  BY <1>1, <1>2, <1>3, <1>4

\* The file and what the iterator looks for stay as they are.
SameFile == UNCHANGED <<published, Prefix, Pivot>>

LEMMA SameFileSameMatches ==
    ASSUME SameFile
    PROVE  /\ Matching' = Matching /\ Size' = Size /\ Pivot' = Pivot
           /\ \A pos \in Nat : At(pos)' = At(pos)
BY DEF SameFile, Matching, Size, At, Matches

\* What the iterator returns is added at the end.
LEMMA Returned ==
    ASSUME yielded \in Seq(Records), NEW r \in Records, yielded' = Append(yielded, r)
    PROVE  /\ yielded' \in Seq(Records) /\ Len(yielded') = Len(yielded) + 1
           /\ Len(yielded) \in Nat /\ yielded'[Len(yielded) + 1] = r
           /\ \A i \in 1..Len(yielded) : yielded'[i] = yielded[i]
BY AppendProperties, LenProperties

\* A match is returned and the end moves on.
LEMMA EndMoves ==
    ASSUME published \in AscendingRecords, Prefix \in IterPrefixes, SameFile,
           yielded \in Seq(Records), fromMin \in BOOLEAN, fromMin' = fromMin,
           Pivot \in Matching, NEW low \in 0..Pivot, NEW end \in Nat,
           BelowEnd(low, end), end \in Matching, yielded' = Append(yielded, At(end))
    PROVE  BelowEnd(low, end + 1)' /\ yielded' \in Seq(Records)
<1>1. /\ Matching' = Matching /\ Size' = Size /\ Pivot' = Pivot
      /\ \A pos \in Nat : At(pos)' = At(pos)
  BY SameFileSameMatches
<1>2. Size \in Nat /\ Matching \subseteq 0..(Size - 1) /\ At(end) \in Records
  BY MatchingIs
<1>3. Pivot \in 0..(Size - 1) /\ low \in 0..Pivot /\ end \in low..(Size - 1)
      /\ (~fromMin => end >= Pivot + 1)
  BY <1>2 DEF BelowEnd
<1>4. Len(yielded) = end - low
  BY DEF BelowEnd
<1>5. /\ yielded' \in Seq(Records) /\ Len(yielded') = Len(yielded) + 1
      /\ yielded'[Len(yielded) + 1] = At(end)
      /\ \A i \in 1..Len(yielded) : yielded'[i] = yielded[i]
  BY <1>2, Returned
<1>6. ASSUME NEW i \in 1..(end + 1 - low) PROVE yielded'[i] = At(Way(low, i))'
  <2>1. Way(low, i) \in Nat /\ Way(low, i)' = Way(low, i)
    BY <1>1, <1>2, <1>3 DEF Way
  <2>2. At(Way(low, i))' = At(Way(low, i))
    BY <1>1, <2>1 DEF At, SameFile
  <2>3. CASE i <= end - low
    <3>1. i \in 1..(end - low)
      BY <1>3, <2>3
    <3>2. yielded[i] = At(Way(low, i))
      BY <3>1 DEF BelowEnd
    <3>3. QED
      BY <1>4, <1>5, <2>2, <3>1, <3>2
  <2>4. CASE i = end - low + 1
    <3>1. Way(low, i) = end
      BY <1>3, <2>4 DEF Way
    <3>2. yielded'[i] = At(end)
      BY <1>4, <1>5, <2>4
    <3>3. At(Way(low, i)) = At(end)
      BY <3>1
    <3>4. QED
      BY <2>2, <3>2, <3>3
  <2>5. i <= end - low \/ i = end - low + 1
    BY <1>2, <1>3
  <2>6. QED
    BY <2>3, <2>4, <2>5
<1>7. /\ end + 1 \in low..Size /\ (~fromMin => end + 1 >= Pivot + 1)
      /\ Len(yielded') = end + 1 - low
  BY <1>2, <1>3, <1>4, <1>5
<1>8. \A pos \in low..(end + 1 - 1) : pos \in Matching
  <2>1. \A pos \in low..(end + 1 - 1) : pos \in low..(end - 1) \/ pos = end
    BY <1>3
  <2>2. QED
    BY <2>1 DEF BelowEnd
<1>9. /\ \A pos \in 0..(low - 1) : pos \notin Matching
      /\ \A pos \in low..Pivot : pos \in Matching
  BY DEF BelowEnd
<1>10. QED
  BY <1>1, <1>5, <1>6, <1>7, <1>8, <1>9 DEF BelowEnd

LEMMA EndStays ==
    ASSUME SameFile, published \in AscendingRecords, Prefix \in IterPrefixes,
           Pivot \in Matching, UNCHANGED <<fromMin, yielded>>,
           NEW low \in 0..Pivot, NEW end \in Nat, BelowEnd(low, end)
    PROVE  BelowEnd(low, end)'
<1>1. /\ Matching' = Matching /\ Size' = Size /\ Pivot' = Pivot
      /\ \A pos \in Nat : At(pos)' = At(pos)
  BY SameFileSameMatches
<1>2. Pivot \in Nat /\ end \in low..Size /\ Size \in Nat
  BY MatchingIs DEF BelowEnd
<1>3. ASSUME NEW i \in 1..(end - low) PROVE At(Way(low, i))' = At(Way(low, i))
  <2>1. Way(low, i)' = Way(low, i)
    BY <1>1 DEF Way
  <2>2. QED
    BY <2>1 DEF At, SameFile
<1>4. QED
  BY <1>1, <1>3 DEF BelowEnd

LEMMA GetAllStarts ==
    ASSUME FileInv, IterInv, NEW p \in IterPrefixes, GetAll(p)
    PROVE  IterInv'
<1>1. published \in AscendingRecords /\ mode = "read" /\ NotStarted
  BY DEF GetAll, FileInv, IterInv
<1>2. /\ Prefix' = p /\ published' = published /\ mode' = mode /\ Direction' = Direction
      /\ yielded' = yielded /\ fromMin' = fromMin
  BY DEF GetAll
<1>3. Direction' = -1 /\ yielded' = <<>> /\ ~fromMin' /\ fromMin' \in BOOLEAN
      /\ yielded' \in Seq(Records)
  BY <1>1, <1>2 DEF NotStarted, IterInv
<1>4. Matching' = {pos \in 0..(Size - 1) : Matches(p, pos)} /\ Size' = Size
  BY <1>2 DEF Matching, Size, Matches, At
<1>5. CASE Search(p) = -1
  <2>1. Heap' = "ended"
    BY <1>5 DEF GetAll
  <2>2. \A pos \in 0..(Size - 1) : ~Matches(p, pos)
    <3>1. -1 \notin 0..(Size - 1)
      <4>1. Size \in Nat
        BY <1>1, KeysAscend
      <4>2. QED
        BY <4>1
    <3>2. QED
      BY <1>1, <1>5, <3>1, SearchFinds
  <2>3. Matching' = {}
    BY <1>4, <2>2
  <2>4. QED
    BY <1>1, <1>2, <1>3, <2>1, <2>3 DEF IterInv, FoundNothing
<1>6. CASE Search(p) # -1
  <2>1. Heap' = "open" /\ Pivot' = Search(p) /\ Pos' = Search(p)
    BY <1>6 DEF GetAll
  <2>2. Search(p) \in 0..(Size - 1) /\ Matches(p, Search(p)) /\ Size \in Nat
    BY <1>1, <1>6, SearchFinds, KeysAscend
  <2>3. Pivot' \in Matching' /\ Pivot' \in Nat
    BY <1>4, <2>1, <2>2
  <2>4. Down'
    <3> DEFINE v == Search(p)
    <3>1. v \in Nat
      BY <2>2
    <3> HIDE DEF v
    <3>2. Pivot' = v /\ Pos' = v
      BY <2>1 DEF v
    <3>3. v \in 0..v /\ v - v = 0 /\ (\A pos \in (v + 1)..v : FALSE) /\ (\A i \in 1..0 : FALSE)
      BY <3>1
    <3>4. Len(yielded') = 0
      BY <1>3
    <3>5. /\ Pos' \in 0..Pivot' /\ (\A pos \in (Pos' + 1)..Pivot' : FALSE)
          /\ Pivot' - Pos' = 0
      BY <3>2, <3>3
    <3>6. \A i \in 1..(Pivot' - Pos') : FALSE
      BY <3>3, <3>5
    <3>7. QED
      BY <1>3, <2>1, <3>4, <3>5, <3>6 DEF Down
  <2>5. QED
    BY <1>1, <1>2, <1>3, <2>1, <2>3, <2>4 DEF IterInv, Found
<1>7. QED
  BY <1>5, <1>6

\* From the first position that does not match, or from the first position of all, the
\* iterator turns.
LEMMA Turns ==
    ASSUME published \in AscendingRecords, Prefix \in IterPrefixes, Pivot \in Matching,
           Down, Pos \notin Matching
    PROVE  Pos + 1 \in 0..Pivot /\ BelowEnd(Pos + 1, Pivot + 1)
<1>1. /\ Size \in Nat /\ Pivot \in 0..(Size - 1) /\ Pos \in 0..Pivot /\ Pos # Pivot
      /\ \A i, k \in Matching, j \in Nat : i <= j /\ j <= k => j \in Matching
  BY MatchingIs DEF Down
<1>2. Pos + 1 \in 0..Pivot /\ Pivot + 1 \in (Pos + 1)..Size /\ (Pivot + 1) - (Pos + 1) = Pivot - Pos
      /\ (Pivot + 1) - 1 = Pivot /\ (Pos + 1) - 1 = Pos
  BY <1>1
<1>3. \A pos \in 0..((Pos + 1) - 1) : pos \notin Matching
  <2>1. ASSUME NEW pos \in 0..Pos, pos \in Matching PROVE FALSE
    <3>1. pos <= Pos /\ Pos <= Pivot /\ Pos \in Nat
      BY <1>1
    <3>2. QED
      BY <1>1, <2>1, <3>1
  <2>2. QED
    BY <1>2, <2>1
<1>4. ASSUME NEW i \in 1..((Pivot + 1) - (Pos + 1)) PROVE yielded[i] = At(Way(Pos + 1, i))
  <2>1. i \in 1..(Pivot - Pos) /\ i <= Pivot - (Pos + 1) + 1
    BY <1>1
  <2>2. Way(Pos + 1, i) = Pivot + 1 - i
    BY <2>1 DEF Way, Down
  <2>3. yielded[i] = At(Pivot + 1 - i)
    BY <2>1 DEF Down
  <2>4. QED
    BY <2>2, <2>3
<1>5. /\ \A pos \in (Pos + 1)..Pivot : pos \in Matching
      /\ \A pos \in (Pos + 1)..((Pivot + 1) - 1) : pos \in Matching
      /\ Len(yielded) = (Pivot + 1) - (Pos + 1)
      /\ Pivot + 1 >= Pivot + 1
  BY <1>1, <1>2 DEF Down
<1>6. QED
  BY <1>2, <1>3, <1>4, <1>5 DEF BelowEnd

LEMMA TurnsAtStart ==
    ASSUME published \in AscendingRecords, Prefix \in IterPrefixes, SameFile,
           yielded \in Seq(Records), fromMin' = fromMin, fromMin \in BOOLEAN,
           Pivot \in Matching, Down, Pos = 0, 0 \in Matching, yielded' = Append(yielded, At(0))
    PROVE  BelowEnd(0, Pivot + 1)' /\ yielded' \in Seq(Records)
<1>1. /\ Matching' = Matching /\ Size' = Size /\ Pivot' = Pivot
      /\ \A pos \in Nat : At(pos)' = At(pos)
  BY SameFileSameMatches
<1>2. Size \in Nat /\ Pivot \in 0..(Size - 1) /\ At(0) \in Records
  <2>1. Size \in Nat /\ Pivot \in 0..(Size - 1) /\ 0 \in 0..(Size - 1)
        /\ \A pos \in 0..(Size - 1) : At(pos) \in Records
    BY MatchingIs
  <2>2. QED
    BY <2>1
<1>3. Len(yielded) = Pivot
  BY <1>2 DEF Down
<1>4. /\ yielded' \in Seq(Records) /\ Len(yielded') = Pivot + 1
      /\ yielded'[Pivot + 1] = At(0)
      /\ \A i \in 1..Pivot : yielded'[i] = yielded[i]
  BY <1>2, <1>3, Returned
<1>5. \A pos \in 0..Pivot : pos \in Matching
  <2>1. \A pos \in 0..Pivot : pos = 0 \/ pos \in (Pos + 1)..Pivot
    BY <1>2
  <2>2. QED
    BY <2>1 DEF Down
<1>6. ASSUME NEW i \in 1..((Pivot + 1) - 0) PROVE yielded'[i] = At(Way(0, i))'
  <2>1. i \in 1..(Pivot + 1) /\ Pivot + 1 - i \in Nat
    BY <1>2
  <2>2. Way(0, i)' = Pivot + 1 - i
    BY <1>1, <1>2, <2>1 DEF Way, Down
  <2>3. At(Way(0, i))' = At(Pivot + 1 - i)
    BY <2>2 DEF At, SameFile
  <2>4. CASE i \in 1..Pivot
    <3>1. yielded'[i] = yielded[i]
      BY <1>4, <2>4
    <3>2. i \in 1..(Pivot - Pos)
      BY <1>2, <2>4
    <3>3. yielded[i] = At(Pivot + 1 - i)
      BY <3>2 DEF Down
    <3>4. QED
      BY <2>3, <3>1, <3>3
  <2>5. CASE i = Pivot + 1
    <3>1. Pivot + 1 - i = 0
      BY <1>2, <2>5
    <3>2. yielded'[i] = At(0)
      BY <1>4, <2>5
    <3>3. At(Pivot + 1 - i) = At(0)
      BY <3>1
    <3>4. QED
      BY <2>3, <3>2, <3>3
  <2>6. i \in 1..Pivot \/ i = Pivot + 1
    BY <1>2, <2>1
  <2>7. QED
    BY <2>4, <2>5, <2>6
<1>7. /\ \A pos \in 0..(0 - 1) : pos \notin Matching
      /\ Pivot + 1 \in 0..Size /\ Pivot + 1 >= Pivot + 1 /\ (Pivot + 1) - 1 = Pivot
      /\ (Pivot + 1) - 0 = Pivot + 1
  BY <1>2
<1>8. QED
  BY <1>1, <1>4, <1>5, <1>6, <1>7 DEF BelowEnd

LEMMA NextGoesOn ==
    ASSUME FileInv, IterInv, IterNext
    PROVE  IterInv'
<1>1. /\ published \in AscendingRecords /\ mode = "read" /\ Prefix \in IterPrefixes /\ Found
      /\ Pivot \in Matching /\ yielded \in Seq(Records) /\ fromMin \in BOOLEAN /\ Heap = "open"
  BY DEF IterNext, FileInv, IterInv, Found
<1>2. /\ SameFile /\ published' = published /\ Prefix' = Prefix /\ mode' = mode
      /\ fromMin' = fromMin
  BY DEF IterNext, SameFile
<1>3. Matching' = Matching /\ Pivot' = Pivot
  BY <1>2, SameFileSameMatches
<1>4. /\ Size \in Nat /\ Pivot \in 0..(Size - 1)
      /\ \A pos \in Nat : pos \in Matching <=> pos < Size /\ Matches(Prefix, pos)
      /\ \A pos \in 0..(Size - 1) : At(pos) \in Records
  BY <1>1, MatchingIs
\* What is left to show.
<1>5. ASSUME Pos' \in Nat, yielded' \in Seq(Records), Down' \/ Up',
             Heap' = "open" \/ (Heap' = "ended" /\ Pos' \notin Matching)
      PROVE  IterInv'
  BY <1>1, <1>2, <1>3, <1>5 DEF IterInv, Found
\* On the way up, from end.
<1>6. ASSUME NEW low \in 0..Pivot, NEW end \in Nat, BelowEnd(low, end), Direction' = 1,
             \/ /\ end \in Matching /\ yielded' = Append(yielded, At(end))
                /\ Pos' = end + 1 /\ Heap' = Heap
             \/ end \notin Matching /\ yielded' = yielded /\ Pos' = end /\ Heap' = "ended"
      PROVE  IterInv'
  <2>1. CASE end \in Matching
    <3>1. yielded' = Append(yielded, At(end)) /\ Pos' = end + 1 /\ Heap' = "open"
      BY <1>1, <1>6, <2>1
    <3>2. BelowEnd(low, end + 1)' /\ yielded' \in Seq(Records)
      BY <1>1, <1>2, <1>6, <2>1, <3>1, EndMoves
    <3>3. BelowEnd(low, Pos)'
      BY <3>1, <3>2 DEF BelowEnd
    <3>4. Up'
      BY <1>3, <1>6, <3>3 DEF Up
    <3>5. Pos' \in Nat
      BY <3>1
    <3>6. QED
      BY <1>5, <3>1, <3>2, <3>4, <3>5
  <2>2. CASE end \notin Matching
    <3>1. yielded' = yielded /\ Pos' = end /\ Heap' = "ended"
      BY <1>6, <2>2
    <3>2. BelowEnd(low, end)'
      BY <1>1, <1>2, <1>6, <3>1, EndStays
    <3>3. BelowEnd(low, Pos)'
      BY <3>1, <3>2 DEF BelowEnd
    <3>4. Up'
      BY <1>3, <1>6, <3>3 DEF Up
    <3>5. QED
      BY <1>1, <1>5, <2>2, <3>1, <3>4
  <2>3. QED
    BY <2>1, <2>2
<1>7. CASE Down /\ Pos \in Matching
  <2>1. Pos \in Nat /\ Direction = -1 /\ Pos \in 0..Pivot /\ Matches(Prefix, Pos) /\ Pos < Size
    BY <1>4, <1>7 DEF Down
  <2>2. /\ yielded' = Append(yielded, At(Pos)) /\ Heap' = Heap
        /\ Direction' = IF Pos = 0 THEN 1 ELSE -1
        /\ Pos' = IF Pos = 0 THEN Pivot + 1 ELSE Pos - 1
    <3>1. ~(Direction < 0 /\ ~Matches(Prefix, Pos)) /\ Direction < 0 /\ Pos + Direction = Pos - 1
      BY <2>1
    <3>2. QED
      BY <2>1, <3>1 DEF IterNext, Upwards
  <2>3. CASE Pos = 0
    <3>1. BelowEnd(0, Pivot + 1)' /\ yielded' \in Seq(Records)
      BY <1>1, <1>2, <1>7, <2>2, <2>3, TurnsAtStart
    <3>2. Pos' = Pivot + 1 /\ Direction' = 1
      BY <2>2, <2>3
    <3>3. BelowEnd(0, Pos)'
      BY <1>3, <3>1, <3>2 DEF BelowEnd
    <3>4. 0 \in 0..Pivot' /\ Pos' \in Nat
      BY <1>3, <1>4, <3>2
    <3>5. Up'
      BY <3>2, <3>3, <3>4 DEF Up
    <3>6. QED
      BY <1>1, <1>5, <2>2, <3>1, <3>4, <3>5
  <2>4. CASE Pos # 0
    <3>1. Pos' = Pos - 1 /\ Direction' = -1
      BY <2>2, <2>4
    <3>2. Len(yielded) = Pivot - Pos /\ At(Pos) \in Records
      BY <1>4, <1>7, <2>1 DEF Down
    <3>3. /\ yielded' \in Seq(Records) /\ Len(yielded') = Len(yielded) + 1
          /\ yielded'[Len(yielded) + 1] = At(Pos)
          /\ \A i \in 1..Len(yielded) : yielded'[i] = yielded[i]
      BY <1>1, <2>2, <3>2, Returned
    <3>4. ASSUME NEW i \in 1..(Pivot - (Pos - 1)) PROVE yielded'[i] = At(Pivot + 1 - i)'
      <4>1. At(Pivot + 1 - i)' = At(Pivot + 1 - i)
        BY <1>2, <1>3 DEF At
      <4>2. CASE i \in 1..(Pivot - Pos)
        <5>1. yielded[i] = At(Pivot + 1 - i)
          BY <1>7, <4>2 DEF Down
        <5>2. QED
          BY <3>2, <3>3, <4>1, <4>2, <5>1
      <4>3. CASE i = Pivot - Pos + 1
        <5>1. Pivot + 1 - i = Pos
          BY <1>4, <2>1, <4>3
        <5>2. yielded'[i] = At(Pos)
          BY <3>2, <3>3, <4>3
        <5>3. At(Pivot + 1 - i) = At(Pos)
          BY <5>1
        <5>4. QED
          BY <4>1, <5>2, <5>3
      <4>4. i \in 1..(Pivot - Pos) \/ i = Pivot - Pos + 1
        BY <1>4, <2>1
      <4>5. QED
        BY <4>2, <4>3, <4>4
    <3>5. \A pos \in ((Pos - 1) + 1)..Pivot : pos \in Matching
      <4>1. \A pos \in ((Pos - 1) + 1)..Pivot : pos = Pos \/ pos \in (Pos + 1)..Pivot
        BY <1>4, <2>1
      <4>2. QED
        BY <1>7, <4>1 DEF Down
    <3>6. Pos - 1 \in 0..Pivot /\ Pos - 1 \in Nat /\ Len(yielded') = Pivot - (Pos - 1)
      BY <1>4, <2>1, <2>4, <3>2, <3>3
    <3>7. Heap' = "open" /\ ~fromMin'
      BY <1>1, <1>2, <1>7, <2>2 DEF Down
    <3>8. Down'
      BY <1>3, <3>1, <3>4, <3>5, <3>6, <3>7 DEF Down
    <3>9. QED
      BY <1>5, <3>1, <3>3, <3>6, <3>7, <3>8
  <2>5. QED
    BY <2>3, <2>4
<1>8. CASE Down /\ Pos \notin Matching
  <2>1. Pos \in Nat /\ Direction = -1 /\ Pos \in 0..Pivot /\ Pos < Size /\ Pivot + 1 \in Nat
        /\ Pivot + 1 # 0
    BY <1>4, <1>8 DEF Down
  <2>2. ~Matches(Prefix, Pos) /\ Direction < 0
    BY <1>4, <1>8, <2>1
  <2>3. Pos + 1 \in 0..Pivot /\ BelowEnd(Pos + 1, Pivot + 1)
    BY <1>1, <1>8, Turns
  <2>4. Pivot + 1 \in Matching <=> Pivot + 1 < Size /\ Matches(Prefix, Pivot + 1)
    BY <1>4, <2>1
  <2>5. /\ Direction' = 1
        /\ \/ /\ Pivot + 1 \in Matching /\ yielded' = Append(yielded, At(Pivot + 1))
              /\ Pos' = (Pivot + 1) + 1 /\ Heap' = Heap
           \/ /\ Pivot + 1 \notin Matching /\ yielded' = yielded
              /\ Pos' = Pivot + 1 /\ Heap' = "ended"
    BY <2>1, <2>2, <2>4 DEF IterNext, Upwards
  <2>6. QED
    BY <1>6, <2>1, <2>3, <2>5
<1>9. CASE Up
  <2>1. PICK low \in 0..Pivot : BelowEnd(low, Pos)
    BY <1>9 DEF Up
  <2>2. Direction = 1 /\ Pos \in Nat
    <3>1. Pos \in low..Size
      BY <2>1 DEF BelowEnd
    <3>2. QED
      BY <1>4, <1>9, <3>1 DEF Up
  <2>3. ~(Direction < 0) /\ Pos + Direction = Pos + 1
    BY <2>2
  <2>4. Pos \in Matching <=> Pos < Size /\ Matches(Prefix, Pos)
    BY <1>4, <2>2
  <2>5. /\ Direction' = 1
        /\ \/ /\ Pos \in Matching /\ yielded' = Append(yielded, At(Pos))
              /\ Pos' = Pos + 1 /\ Heap' = Heap
           \/ Pos \notin Matching /\ yielded' = yielded /\ Pos' = Pos /\ Heap' = "ended"
    BY <2>2, <2>3, <2>4 DEF IterNext
  <2>6. QED
    BY <1>6, <2>1, <2>2, <2>5
<1>10. QED
  BY <1>1, <1>7, <1>8, <1>9 DEF Found

\* The last position up to start that is not a match, or -1.
LEMMA LastOther ==
    ASSUME NEW start \in Nat, NEW others, others \subseteq 0..start
    PROVE  /\ Max({-1} \cup others) \in {-1} \cup others
           /\ \A x \in others : x <= Max({-1} \cup others)
<1> DEFINE A == {-1} \cup others
           T == {start - x : x \in A}
<1>1. T \subseteq Nat /\ T # {}
  OBVIOUS
<1>2. PICK m \in T : \A x \in T : m <= x
  <2> HIDE DEF T
  <2>1. QED
    BY <1>1, LeastNatural
<1>3. PICK x \in A : m = start - x
  OBVIOUS
<1>4. \A y \in A : y \in Int
  OBVIOUS
<1>5. \A y \in A : x >= y
  <2>1. ASSUME NEW y \in A PROVE x >= y
    <3>1. m <= start - y
      BY <1>2
    <3> HIDE DEF A, T
    <3>2. y \in Int /\ x \in Int
      BY <1>4
    <3>3. QED
      BY <1>3, <3>1, <3>2
  <2>2. QED
    BY <2>1
<1>6. Max(A) \in A /\ \A y \in A : Max(A) >= y
  <2> HIDE DEF A
  <2>1. QED
    BY <1>5 DEF Max
<1>7. \A y \in others : y \in A
  OBVIOUS
<1> DEFINE M == Max(A)
<1>8. M \in Int /\ \A y \in others : y \in Int /\ M >= y
  BY <1>6, <1>4, <1>7
<1>9. \A y \in others : y <= M
  <2> HIDE DEF M
  <2>1. QED
    BY <1>8
<1>10. QED
  BY <1>6, <1>9

\* Where ToMin starts to look: no lower than what was returned, and everything from there up
\* to the pivot matches.
LEMMA ToMinStart ==
    ASSUME published \in AscendingRecords, Prefix \in IterPrefixes, Found
    PROVE  \E start \in 0..Pivot :
              /\ start = IF Direction > 0 /\ Pos > Pivot THEN Pivot ELSE Pos
              /\ \A pos \in (start + 1)..Pivot : pos \in Matching
<1>1. Size \in Nat /\ Pivot \in 0..(Size - 1)
  BY MatchingIs DEF Found
<1>2. CASE Down
  <2>1. Pos \in 0..Pivot /\ ~(Direction > 0)
    BY <1>2 DEF Down
  <2>2. \A pos \in (Pos + 1)..Pivot : pos \in Matching
    BY <1>2 DEF Down
  <2>3. QED
    BY <2>1, <2>2
<1>3. CASE Up
  <2>1. PICK low \in 0..Pivot : BelowEnd(low, Pos)
    BY <1>3 DEF Up
  <2>2. /\ Pos \in low..Size /\ Direction > 0 /\ Pos \in Nat
        /\ \A pos \in low..Pivot : pos \in Matching
    <3>1. Pos \in low..Size /\ \A pos \in low..Pivot : pos \in Matching
      BY <2>1 DEF BelowEnd
    <3>2. QED
      BY <1>1, <1>3, <3>1 DEF Up
  <2>3. CASE Pos > Pivot
    <3>1. Pivot \in 0..Pivot /\ \A pos \in (Pivot + 1)..Pivot : FALSE
      BY <1>1
    <3>2. QED
      BY <2>2, <2>3, <3>1
  <2>4. CASE ~(Pos > Pivot)
    <3>1. Pos \in 0..Pivot /\ \A pos \in (Pos + 1)..Pivot : pos \in low..Pivot
      BY <1>1, <2>2, <2>4
    <3>2. QED
      BY <2>2, <2>4, <3>1
  <2>5. QED
    BY <2>3, <2>4
<1>4. QED
  BY <1>2, <1>3 DEF Found

LEMMA ToMinRestarts ==
    ASSUME FileInv, IterInv, ToMin
    PROVE  IterInv'
<1>1. /\ published \in AscendingRecords /\ mode = "read" /\ Prefix \in IterPrefixes /\ Found
      /\ Pivot \in Matching /\ Heap = "open"
  BY DEF ToMin, FileInv, IterInv, Found
<1>2. /\ SameFile /\ mode' = mode /\ Prefix' = Prefix /\ Heap' = Heap
      /\ Direction' = 1 /\ yielded' = <<>> /\ fromMin' = TRUE
  BY DEF ToMin, SameFile
<1>3. Matching' = Matching /\ Pivot' = Pivot /\ Size' = Size
  BY <1>2, SameFileSameMatches
<1>4. /\ Size \in Nat /\ Pivot \in 0..(Size - 1)
      /\ \A pos \in Nat : pos \in Matching <=> pos < Size /\ Matches(Prefix, pos)
      /\ \A i, k \in Matching, j \in Nat : i <= j /\ j <= k => j \in Matching
  BY <1>1, MatchingIs
<1>5. PICK start \in 0..Pivot :
          /\ start = IF Direction > 0 /\ Pos > Pivot THEN Pivot ELSE Pos
          /\ \A pos \in (start + 1)..Pivot : pos \in Matching
  BY <1>1, ToMinStart
<1>6. PICK low \in 0..Pivot :
          /\ Pos' = low
          /\ \A pos \in 0..(low - 1) : pos \notin Matching
          /\ \A pos \in low..Pivot : pos \in Matching
  <2>1. CASE Prefix = <<>>
    <3>1. Pos' = 0
      BY <2>1 DEF ToMin
    <3>2. ASSUME NEW pos \in 0..Pivot PROVE pos \in Matching
      <4>1. pos \in 0..(Size - 1) /\ pos \in Nat /\ pos < Size
        BY <1>4
      <4>2. Key(Prefix, pos) \in Blob(Len(Prefix)) /\ Len(Prefix) = 0
        BY <1>1, <2>1, <4>1, KeysAscend
      <4>3. Key(Prefix, pos) = <<>>
        BY <4>2, EmptySeq DEF Blob
      <4>4. Matches(Prefix, pos)
        BY <2>1, <4>3 DEF Matches, Key
      <4>5. QED
        BY <1>4, <4>1, <4>4
    <3>3. 0 \in 0..Pivot /\ \A pos \in 0..(0 - 1) : FALSE
      BY <1>4
    <3>4. QED
      BY <3>1, <3>2, <3>3
  <2>2. CASE Prefix # <<>>
    <3> DEFINE others == {pos \in 0..start : ~Matches(Prefix, pos)}
               m == Max({-1} \cup others)
    <3>1. Pos' = m + 1
      BY <1>5, <2>2 DEF ToMin
    <3>2. m \in {-1} \cup others /\ \A x \in others : x <= m
      <4>1. others \subseteq 0..start /\ start \in Nat
        BY <1>4
      <4> HIDE DEF others
      <4>2. QED
        BY <4>1, LastOther
    <3>3. \A x \in others : x \in 0..start /\ x \notin Matching
      BY <1>4
    <3>4. \A x \in 0..start : x \in Matching \/ x \in others
      <4>1. \A x \in 0..start : x \in Nat /\ x < Size
        BY <1>4
      <4>2. QED
        BY <1>4, <4>1
    <3> HIDE DEF others, m
    <3>5. m \in (-1)..start /\ (m >= 0 => m \in others)
      BY <1>4, <3>2, <3>3
    <3>6. m # Pivot
      <4>1. m = Pivot => m \in others
        BY <1>4, <3>5
      <4>2. QED
        BY <1>1, <3>3, <4>1
    <3>7. m + 1 \in 0..Pivot /\ (m + 1) - 1 = m
      BY <1>4, <3>5, <3>6
    <3>8. ASSUME NEW pos \in 0..m PROVE pos \notin Matching
      <4>1. m \in others /\ pos <= m /\ m <= Pivot /\ m \in Nat /\ m \in Nat
        BY <1>4, <3>5, <3>7
      <4>2. m \notin Matching
        BY <3>3, <4>1
      <4>3. QED
        BY <1>1, <1>4, <4>1, <4>2
    <3>9. ASSUME NEW pos \in (m + 1)..Pivot PROVE pos \in Matching
      <4>1. pos \in 0..start \/ pos \in (start + 1)..Pivot
        BY <1>4, <3>5
      <4>2. ~(pos <= m) /\ m \in Int
        BY <3>5
      <4>3. pos \notin others
        BY <3>2, <4>2
      <4>4. QED
        BY <1>5, <3>4, <4>1, <4>3
    <3>10. QED
      BY <3>1, <3>7, <3>8, <3>9
  <2>3. QED
    BY <2>1, <2>2
<1>7. Up'
  <2>1. /\ low \in low..Size /\ low - low = 0 /\ (\A pos \in low..(low - 1) : FALSE)
        /\ (\A i \in 1..0 : FALSE)
    BY <1>4
  <2>2. Len(yielded') = 0
    BY <1>2
  <2>3. BelowEnd(low, Pos)'
    <3>1. /\ Pos' \in low..Size' /\ Pos' - low = 0
          /\ \A pos \in low..(Pos' - 1) : FALSE
      BY <1>3, <1>6, <2>1
    <3>2. \A i \in 1..(Pos' - low) : FALSE
      BY <2>1, <3>1
    <3>3. QED
      BY <1>2, <1>3, <1>6, <2>2, <3>1, <3>2 DEF BelowEnd
  <2>4. QED
    BY <1>2, <1>3, <2>3 DEF Up
<1>8. <<>> \in Seq(Records)
  OBVIOUS
<1>9. QED
  BY <1>1, <1>2, <1>3, <1>7, <1>8 DEF IterInv, Found

LEMMA IterIsInductive ==
    ASSUME FileInv, IterInv, [Next]_vars
    PROVE  IterInv'
<1>1. <<>> \in Seq(Records)
  OBVIOUS
\* Without an iterator there is none after a step of the file.
<1>2. ASSUME Heap = "none", UNCHANGED iterator PROVE IterInv'
  BY <1>2 DEF iterator, IterInv, NotStarted
<1>3. ASSUME NoIterator PROVE IterInv'
  BY <1>1, <1>3 DEF NoIterator, IterInv, NotStarted
<1>4. CASE Create
  BY <1>2, <1>4 DEF Create, IterInv
<1>5. CASE Open
  BY <1>2, <1>5 DEF Open, IterInv
<1>6. CASE Crash
  BY <1>3, <1>6 DEF Crash
<1>7. ASSUME NEW r \in Records, Insert(r) PROVE IterInv'
  BY <1>2, <1>7 DEF Insert, IterInv
<1>8. CASE CloseSorts
  BY <1>2, <1>8 DEF CloseSorts, IterInv
<1>9. CASE CloseRenames
  BY <1>2, <1>9 DEF CloseRenames, IterInv, FileInv
<1>10. ASSUME NEW p \in IterPrefixes, GetAll(p) PROVE IterInv'
  BY <1>10, GetAllStarts
<1>11. CASE IterNext
  BY <1>11, NextGoesOn
<1>12. CASE ToMin
  BY <1>12, ToMinRestarts
<1>13. CASE IteratorEnds
  BY <1>3, <1>13 DEF IteratorEnds
<1>14. CASE UNCHANGED vars
  <2>1. UNCHANGED <<published, mode, Heap, Prefix, Pivot, Pos, Direction, yielded, fromMin>>
    BY <1>14 DEF vars, iterator
  <2>2. Found' = Found /\ FoundNothing' = FoundNothing /\ Matching' = Matching
    BY <2>1 DEF Found, Down, Up, BelowEnd, Way, FoundNothing, Matching, Size, At, Matches
  <2>3. NotStarted' = NotStarted
    BY <2>1 DEF NotStarted
  <2>4. QED
    BY <2>1, <2>2, <2>3 DEF IterInv
<1>15. QED
  BY <1>4, <1>5, <1>6, <1>7, <1>8, <1>9, <1>10, <1>11, <1>12, <1>13, <1>14 DEF Next

\* Between two calls the iterator has returned the records from the pivot down to where it is,
\* or those from the first match up to where it is.
THEOREM IteratorIsInvariant ==
    Spec => [](FileInv /\ IterInv)
<1>1. Init => FileInv /\ IterInv
  <2>1. <<>> \in Seq(Records)
    OBVIOUS
  <2>2. Init => FileInv
    BY <2>1 DEF Init, FileInv
  <2>3. Init => IterInv
    <3>1. Init => NotStarted
      BY DEF Init, NotStarted
    <3>2. QED
      BY <2>1, <3>1 DEF Init, IterInv
  <2>4. QED
    BY <2>2, <2>3
<1>2. FileInv /\ IterInv /\ [Next]_vars => (FileInv /\ IterInv)'
  BY FileIsInductive, IterIsInductive
<1>3. QED
  BY <1>1, <1>2, PTL DEF Spec

-----------------------------------------------------------------------------
(* At its end the iterator has returned what there is.                      *)

\* What it has been at is all that matches.
LEMMA AllBelowEnd ==
    ASSUME published \in AscendingRecords, Prefix \in IterPrefixes, Pivot \in Matching,
           NEW low \in 0..Pivot, BelowEnd(low, Pos), Pos \notin Matching
    PROVE  Pos \in low..Size /\ Matching = low..(Pos - 1)
<1>1. /\ Size \in Nat /\ Pivot \in 0..(Size - 1) /\ Matching \subseteq 0..(Size - 1)
      /\ \A i, k \in Matching, j \in Nat : i <= j /\ j <= k => j \in Matching
  BY MatchingIs
<1>2. /\ \A pos \in 0..(low - 1) : pos \notin Matching
      /\ low \in Matching
      /\ Pos \in low..Size
      /\ \A pos \in low..(Pos - 1) : pos \in Matching
  <2>1. low \in low..Pivot
    BY <1>1
  <2>2. QED
    BY <2>1 DEF BelowEnd
<1>3. ASSUME NEW pos \in Matching PROVE pos \in low..(Pos - 1)
  <2>1. pos \in 0..(Size - 1) /\ Pos \in Nat
    BY <1>1, <1>2
  <2>2. ~(pos < low)
    <3>1. pos < low => pos \in 0..(low - 1)
      BY <1>1, <2>1
    <3>2. QED
      BY <1>2, <3>1
  <2>3. ~(pos >= Pos)
    <3>1. low <= Pos
      BY <1>1, <1>2
    <3>2. pos >= Pos => Pos <= pos
      BY <2>1
    <3>3. QED
      BY <1>1, <1>2, <2>1, <3>1, <3>2
  <2>4. QED
    BY <1>1, <2>1, <2>2, <2>3
<1>4. QED
  BY <1>2, <1>3

\* Each position from low to the end is the way's, once.
LEMMA WayIsOneToOne ==
    ASSUME NEW low \in Nat, NEW end \in Nat, low <= end, Pivot \in Nat, low <= Pivot,
           ~fromMin => end >= Pivot + 1
    PROVE  /\ \A i \in 1..(end - low) : Way(low, i) \in low..(end - 1)
           /\ \A i, k \in 1..(end - low) : Way(low, i) = Way(low, k) => i = k
           /\ \A pos \in low..(end - 1) : \E i \in 1..(end - low) : Way(low, i) = pos
<1>1. CASE fromMin
  <2>1. \A i : Way(low, i) = low + i - 1
    BY <1>1 DEF Way
  <2>2. ASSUME NEW pos \in low..(end - 1)
        PROVE  \E i \in 1..(end - low) : Way(low, i) = pos
    <3>1. pos - low + 1 \in 1..(end - low) /\ low + (pos - low + 1) - 1 = pos
      OBVIOUS
    <3>2. Way(low, pos - low + 1) = pos
      BY <2>1, <3>1
    <3>3. QED
      BY <3>1, <3>2
  <2>3. QED
    BY <2>1, <2>2
<1>2. CASE ~fromMin
  <2>1. \A i : Way(low, i) = IF i <= Pivot - low + 1 THEN Pivot + 1 - i ELSE low + i - 1
    BY <1>2 DEF Way
  <2>2. end >= Pivot + 1
    BY <1>2
  <2>3. ASSUME NEW pos \in low..(end - 1)
        PROVE  \E i \in 1..(end - low) : Way(low, i) = pos
    <3>1. CASE pos <= Pivot
      <4>1. Pivot + 1 - pos \in 1..(end - low) /\ Pivot + 1 - pos <= Pivot - low + 1
            /\ Pivot + 1 - (Pivot + 1 - pos) = pos
        BY <2>2, <3>1
      <4>2. Way(low, Pivot + 1 - pos) = pos
        BY <2>1, <4>1
      <4>3. QED
        BY <4>1, <4>2
    <3>2. CASE pos > Pivot
      <4>1. pos - low + 1 \in 1..(end - low) /\ ~(pos - low + 1 <= Pivot - low + 1)
            /\ low + (pos - low + 1) - 1 = pos
        BY <3>2
      <4>2. Way(low, pos - low + 1) = pos
        BY <2>1, <4>1
      <4>3. QED
        BY <4>1, <4>2
    <3>3. QED
      BY <3>1, <3>2
  <2>4. \A i \in 1..(end - low) : Way(low, i) \in low..(end - 1)
    BY <2>1, <2>2
  <2>5. \A i, k \in 1..(end - low) : Way(low, i) = Way(low, k) => i = k
    BY <2>1
  <2>6. QED
    BY <2>3, <2>4, <2>5
<1>3. QED
  BY <1>1, <1>2

\* Two sets of numbers of which one is the other's image, one to one, are as large.
LEMMA SameSize ==
    ASSUME NEW S, NEW T, NEW f \in [S -> T],
           \A x, y \in S : f[x] = f[y] => x = y,
           \A t \in T : \E x \in S : f[x] = t,
           IsFiniteSet(S)
    PROVE  Cardinality(S) = Cardinality(T)
<1>1. f \in Bijection(S, T)
  <2>1. f \in Injection(S, T)
    BY DEF Injection, IsInjective
  <2>2. f \in Surjection(S, T)
    BY DEF Surjection
  <2>3. QED
    BY <2>1, <2>2 DEF Bijection
<1>2. ExistsBijection(S, T)
  BY <1>1 DEF ExistsBijection
<1>3. QED
  BY <1>2, FS_Bijection

\* IterationFindsAll at an end where something was found.
LEMMA EndFindsAll ==
    ASSUME published \in AscendingRecords, Prefix \in IterPrefixes, Pivot \in Matching,
           yielded \in Seq(Records), fromMin \in BOOLEAN,
           NEW low \in 0..Pivot, BelowEnd(low, Pos), Pos \notin Matching
    PROVE  /\ fromMin => Ascending(yielded)
           /\ \A r : Times(r, yielded) =
                        IF PrefixOf(Prefix, r) = Prefix THEN Times(r, published) ELSE 0
<1> DEFINE n == Pos - low
<1>1. /\ Size \in Nat /\ Pivot \in 0..(Size - 1)
      /\ \A pos \in 0..(Size - 1) : At(pos) \in Records
  BY MatchingIs
<1>2. Pos \in low..Size /\ Matching = low..(Pos - 1)
  BY AllBelowEnd
<1>3. n \in Nat /\ Len(yielded) = n /\ (\A i \in 1..n : yielded[i] = At(Way(low, i)))
  BY <1>1, <1>2 DEF BelowEnd
<1>4. DOMAIN yielded = 1..n
  BY <1>3, LenProperties
<1>5. DOMAIN published = 1..Size
  BY LenProperties DEF AscendingRecords, Size
<1>6. /\ \A i \in 1..n : Way(low, i) \in low..(Pos - 1)
      /\ \A i, k \in 1..n : Way(low, i) = Way(low, k) => i = k
      /\ \A pos \in low..(Pos - 1) : \E i \in 1..n : Way(low, i) = pos
  <2>1. low \in Nat /\ Pos \in Nat /\ low <= Pos /\ Pivot \in Nat /\ low <= Pivot
    BY <1>1, <1>2
  <2>2. ~fromMin => Pos >= Pivot + 1
    BY DEF BelowEnd
  <2>3. QED
    BY <2>1, <2>2, WayIsOneToOne
<1>7. fromMin => Ascending(yielded)
  <2>1. SUFFICES ASSUME fromMin, NEW i \in 1..(n - 1) PROVE ~Less(yielded[i + 1], yielded[i])
    BY <1>3 DEF Ascending
  <2>2. i \in 1..n /\ i + 1 \in 1..n
    BY <1>3
  <2>3. Way(low, i) = low + i - 1 /\ Way(low, i + 1) = low + (i + 1) - 1
    BY <2>1 DEF Way
  <2>4. yielded[i] = published[low + i] /\ yielded[i + 1] = published[(low + i) + 1]
    <3>1. (low + i - 1) + 1 = low + i /\ (low + (i + 1) - 1) + 1 = (low + i) + 1
      BY <1>1
    <3>2. yielded[i] = At(low + i - 1) /\ yielded[i + 1] = At(low + (i + 1) - 1)
      BY <1>3, <2>2, <2>3
    <3>3. QED
      BY <3>1, <3>2 DEF At
  <2>5. low + i \in 1..(Size - 1)
    BY <1>1, <1>2
  <2>6. ~Less(published[(low + i) + 1], published[low + i])
    BY <2>5 DEF AscendingRecords, Ascending, Size
  <2>7. QED
    BY <2>4, <2>6
<1>8. ASSUME NEW r, PrefixOf(Prefix, r) # Prefix PROVE Times(r, yielded) = 0
  <2>1. ASSUME NEW i \in 1..n PROVE yielded[i] # r
    <3>1. Way(low, i) \in Matching
      BY <1>2, <1>6
    <3>2. PrefixOf(Prefix, At(Way(low, i))) = Prefix
      BY <3>1 DEF Matching, Matches
    <3>3. yielded[i] = At(Way(low, i))
      BY <1>3
    <3>4. QED
      BY <1>8, <3>2, <3>3
  <2>2. {i \in DOMAIN yielded : yielded[i] = r} = {}
    BY <1>4, <2>1
  <2>3. QED
    BY <2>2, FS_EmptySet DEF Times
<1>9. ASSUME NEW r, PrefixOf(Prefix, r) = Prefix PROVE Times(r, yielded) = Times(r, published)
  <2> DEFINE S == {i \in 1..n : yielded[i] = r}
             T == {j \in 1..Size : published[j] = r}
             f == [i \in S |-> Way(low, i) + 1]
  <2>1. \A i \in 1..n : Way(low, i) + 1 \in 1..Size /\ published[Way(low, i) + 1] = yielded[i]
    <3>1. ASSUME NEW i \in 1..n PROVE Way(low, i) + 1 \in 1..Size
      <4>1. Way(low, i) \in low..(Pos - 1)
        BY <1>6
      <4>2. QED
        BY <1>1, <1>2, <4>1
    <3>2. QED
      BY <1>3, <3>1 DEF At
  <2>2. f \in [S -> T]
    BY <2>1
  <2>3. \A x, y \in S : f[x] = f[y] => x = y
    <3>1. ASSUME NEW x \in S, NEW y \in S, f[x] = f[y] PROVE x = y
      <4>1. x \in 1..n /\ y \in 1..n /\ Way(low, x) + 1 = Way(low, y) + 1
        BY <3>1
      <4>2. Way(low, x) \in Int /\ Way(low, y) \in Int
        BY <1>1, <1>6, <4>1
      <4>3. Way(low, x) = Way(low, y)
        BY <4>1, <4>2
      <4>4. QED
        BY <1>6, <4>1, <4>3
    <3>2. QED
      BY <3>1
  <2>4. \A t \in T : \E x \in S : f[x] = t
    <3>1. ASSUME NEW t \in T PROVE \E x \in S : f[x] = t
      <4>1. t \in 1..Size /\ published[t] = r /\ t - 1 \in 0..(Size - 1) /\ (t - 1) + 1 = t
        BY <1>1
      <4>2. Matches(Prefix, t - 1)
        BY <1>9, <4>1 DEF Matches, At
      <4>3. t - 1 \in low..(Pos - 1)
        BY <1>2, <4>1, <4>2 DEF Matching
      <4>4. PICK i \in 1..n : Way(low, i) = t - 1
        BY <1>6, <4>3
      <4>5. Way(low, i) + 1 = t
        BY <4>1, <4>4
      <4>6. yielded[i] = r
        BY <2>1, <4>1, <4>5
      <4>7. i \in S /\ f[i] = t
        BY <4>5, <4>6
      <4>8. QED
        BY <4>7
    <3>2. QED
      BY <3>1
  <2>5. IsFiniteSet(S)
    <3>1. IsFiniteSet(1..n)
      BY <1>3, FS_Interval
    <3>2. S \subseteq 1..n
      OBVIOUS
    <3>3. QED
      BY <3>1, <3>2, FS_Subset
  <2>6. Times(r, yielded) = Cardinality(S) /\ Times(r, published) = Cardinality(T)
    BY <1>4, <1>5 DEF Times
  <2> HIDE DEF S, T, f
  <2>7. QED
    BY <2>2, <2>3, <2>4, <2>5, <2>6, SameSize
<1>10. QED
  BY <1>7, <1>8, <1>9

LEMMA EndOfNothing ==
    ASSUME published \in AscendingRecords, Prefix \in IterPrefixes, FoundNothing
    PROVE  /\ fromMin => Ascending(yielded)
           /\ \A r \in Range(published) \cup Range(yielded) :
                 Times(r, yielded) = IF PrefixOf(Prefix, r) = Prefix THEN Times(r, published) ELSE 0
<1>1. yielded = <<>> /\ ~fromMin /\ Matching = {}
  BY DEF FoundNothing
<1>2. DOMAIN yielded = {}
  BY <1>1
<1>3. \A r : Times(r, yielded) = 0
  <2>1. \A r : {i \in DOMAIN yielded : yielded[i] = r} = {}
    BY <1>2
  <2>2. QED
    BY <2>1, FS_EmptySet DEF Times
<1>4. ASSUME NEW r \in Range(published) PROVE PrefixOf(Prefix, r) # Prefix
  <2>1. Size \in Nat /\ DOMAIN published = 1..Size
    BY KeysAscend, LenProperties DEF AscendingRecords, Size
  <2>2. PICK j \in DOMAIN published : published[j] = r
    BY DEF Range
  <2>3. j - 1 \in 0..(Size - 1) /\ (j - 1) + 1 = j
    BY <2>1
  <2>4. ~Matches(Prefix, j - 1)
    BY <1>1, <2>3 DEF Matching
  <2>5. QED
    BY <2>2, <2>3, <2>4 DEF Matches, At
<1>5. Range(yielded) = {}
  BY <1>2 DEF Range
<1>6. QED
  BY <1>1, <1>3, <1>4, <1>5

\* IterationFindsAll: an iterator at its end, which started where the binary search hit and
\* went down and up from there, has returned every record with the prefix as often as it is
\* in the file and none without it; from ToMin on, in order.
THEOREM IteratorFindsAll ==
    Spec => []IterationFindsAll
<1>1. FileInv /\ IterInv => IterationFindsAll
  <2>1. SUFFICES ASSUME FileInv, IterInv, Heap = "ended" PROVE IterationFindsAll
    BY DEF IterationFindsAll
  <2>2. /\ published \in AscendingRecords /\ Prefix \in IterPrefixes
        /\ yielded \in Seq(Records) /\ fromMin \in BOOLEAN
        /\ FoundNothing \/ (Found /\ Pos \notin Matching)
    BY <2>1 DEF FileInv, IterInv
  <2>3. CASE FoundNothing
    BY <2>2, <2>3, EndOfNothing DEF IterationFindsAll
  <2>4. CASE Found /\ Pos \notin Matching
    <3>1. Pivot \in Matching /\ Up
      BY <2>1, <2>4 DEF Found, Down
    <3>2. PICK low \in 0..Pivot : BelowEnd(low, Pos)
      BY <3>1 DEF Up
    <3>3. QED
      BY <2>2, <2>4, <3>1, <3>2, EndFindsAll DEF IterationFindsAll
  <2>5. QED
    BY <2>2, <2>3, <2>4
<1>2. QED
  BY <1>1, IteratorIsInvariant, PTL
=============================================================================
