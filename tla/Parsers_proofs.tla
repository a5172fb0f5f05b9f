------------------------ MODULE Parsers_proofs ------------------------
(***************************************************************************)
(* Proofs about WebSocketParser, for every set of frames, length of the    *)
(* stream, encoding of sizes and chop limit, and about HTTPLikeParser, for *)
(* every set of well-formed messages, with malformed ones behind them, and *)
(* reads that end wherever the messages allow it.                          *)
(***************************************************************************)
EXTENDS WebSocketParser, HTTPLikeParser, SequenceTheorems, WellFoundedInduction,
        TLAPS

Bytes == 0..255

-----------------------------------------------------------------------------
(* Recursive functions of a number.                                         *)

LEMMA LessIsWellFounded ==
    \E R : IsWellFoundedOn(R, Nat) /\ \A x, y \in Nat : x < y => <<x, y>> \in R
<1> DEFINE R == OpToRel(<, Nat)
<1>1. IsWellFoundedOn(R, Nat)
  BY NatLessThanWellFounded
<1>2. \A x, y \in Nat : x < y => <<x, y>> \in R
  BY DEF OpToRel
<1> HIDE DEF R
<1>3. QED
  BY <1>1, <1>2

LEMMA LeastNatural ==
    ASSUME NEW S, S \subseteq Nat, S # {}
    PROVE  \E m \in S : \A x \in S : m <= x
<1>1. PICK R : IsWellFoundedOn(R, Nat) /\ \A x, y \in Nat : x < y => <<x, y>> \in R
  BY LessIsWellFounded
<1>2. PICK m \in S : \A y \in S : ~ (<<y, m>> \in R)
  <2>1. IsWellFoundedOn(R, Nat)
    BY <1>1
  <2>2. \E x \in S : \A y \in S : ~ (<<y, x>> \in R)
    BY <2>1, WFMin
  <2>3. QED
    BY <2>2
<1>3. \A x \in S : ~ (x < m)
  BY <1>1, <1>2
<1>4. QED
  BY <1>3

\* What holds of 0 and goes from n - 1 to n holds up to N; P is a set of numbers.
LEMMA UpTo ==
    ASSUME NEW N \in Nat, NEW P, 0 \in P, \A n \in 1..N : n - 1 \in P => n \in P
    PROVE  \A n \in 0..N : n \in P
<1> DEFINE Bad == {n \in 0..N : n \notin P}
<1>1. SUFFICES ASSUME Bad # {} PROVE FALSE
  OBVIOUS
<1>2. PICK m \in Bad : \A n \in Bad : m <= n
  <2>1. Bad \subseteq Nat
    OBVIOUS
  <2> HIDE DEF Bad
  <2>2. QED
    BY <1>1, <2>1, LeastNatural
<1>3. m \in 1..N /\ m - 1 \in 0..N /\ m - 1 \notin Bad
  BY <1>2
<1>4. QED
  BY <1>2, <1>3

\* step, a function of n and of the value before, gives values in S; g is what a recursion
\* with it yields from a on.
StepOn(S, N, step) == \A n \in 1..N, x \in S : step[<<n, x>>] \in S
Yields(S, N, a, step, g) ==
    g \in [0..N -> S] /\ g[0] = a /\ \A n \in 1..N : g[n] = step[<<n, g[n - 1]>>]

\* A function defined by recursion exists.
LEMMA RecursionExists ==
    ASSUME NEW S, NEW N \in Nat, NEW a \in S, NEW step, StepOn(S, N, step)
    PROVE  \E g : Yields(S, N, a, step, g)
<1> USE DEF StepOn
<1> DEFINE P == {n \in 0..N : \E g \in [0..n -> S] :
                    g[0] = a /\ \A i \in 1..n : g[i] = step[<<i, g[i - 1]>>]}
<1>1. 0 \in P
  <2> DEFINE g == [i \in 0..0 |-> a]
  <2>1. g \in [0..0 -> S] /\ g[0] = a
    OBVIOUS
  <2>2. \A i \in 1..0 : FALSE
    OBVIOUS
  <2> HIDE DEF g
  <2>3. QED
    BY <2>1, <2>2
<1>2. ASSUME NEW n \in 1..N, n - 1 \in P PROVE n \in P
  <2>1. PICK g \in [0..(n - 1) -> S] :
            g[0] = a /\ \A i \in 1..(n - 1) : g[i] = step[<<i, g[i - 1]>>]
    BY <1>2
  <2> DEFINE h == [i \in 0..n |-> IF i = n THEN step[<<n, g[n - 1]>>] ELSE g[i]]
  <2>2. g[n - 1] \in S
    BY <2>1
  <2>3. step[<<n, g[n - 1]>>] \in S
    BY <2>2
  <2>4. h \in [0..n -> S]
    <3>1. ASSUME NEW i \in 0..n, i # n PROVE g[i] \in S
      BY <3>1, <2>1
    <3>2. QED
      BY <2>3, <3>1
  <2>5. h[0] = a
    BY <2>1
  <2>6. ASSUME NEW i \in 1..n PROVE h[i] = step[<<i, h[i - 1]>>]
    <3>1. h[i - 1] = g[i - 1]
      OBVIOUS
    <3>2. CASE i = n
      <4>1. h[n] = step[<<n, g[n - 1]>>]
        OBVIOUS
      <4> HIDE DEF h
      <4>2. QED
        BY <3>1, <3>2, <4>1
    <3>3. CASE i # n
      <4>1. i \in 1..(n - 1)
        BY <3>3
      <4>2. g[i] = step[<<i, g[i - 1]>>]
        BY <4>1, <2>1
      <4>3. h[i] = g[i]
        BY <3>3
      <4>4. QED
        BY <3>1, <4>2, <4>3
    <3>4. QED
      BY <3>2, <3>3
  <2> HIDE DEF h
  <2>7. QED
    BY <2>4, <2>5, <2>6
<1> HIDE DEF P
<1>3. \A n \in 0..N : n \in P
  BY <1>1, <1>2, UpTo
<1>4. QED
  BY <1>3 DEF P, Yields

\* The pointwise equation of a function defined by recursion determines it.
GoesAlong(N, g, h) ==
    g[0] = h[0] /\ \A n \in 1..N : g[n - 1] = h[n - 1] => g[n] = h[n]

LEMMA RecursionUnique ==
    ASSUME NEW N \in Nat, NEW g, NEW h, GoesAlong(N, g, h)
    PROVE  \A n \in 0..N : g[n] = h[n]
<1> USE DEF GoesAlong
<1> DEFINE P == {n \in 0..N : g[n] = h[n]}
<1>1. 0 \in P
  OBVIOUS
<1>2. \A n \in 1..N : n - 1 \in P => n \in P
  OBVIOUS
<1> HIDE DEF P
<1>3. \A n \in 0..N : n \in P
  BY <1>1, <1>2, UpTo
<1>4. QED
  BY <1>3 DEF P

-----------------------------------------------------------------------------
(* Wire format.                                                             *)

SizeWidth(f) ==
    IF Len(f.Payload) < Escape THEN 0 ELSE IF Len(f.Payload) < WideSize THEN 2 ELSE 8
SizeCode(f) ==
    IF Len(f.Payload) < Escape THEN Len(f.Payload)
    ELSE IF Len(f.Payload) < WideSize THEN Escape ELSE Escape + 1

\* The recursive functions of Value and Header.
IsValueOf(bytes, v) ==
    v = [n \in 0..Len(bytes) |-> IF n = 0 THEN 0 ELSE 256 * v[n - 1] + bytes[n]]
IsRestOf(size, r) == r = [n \in 0..8 |-> IF n = 0 THEN size ELSE r[n - 1] \div 256]
RestOf(size) == CHOOSE r : IsRestOf(size, r)
Digits(size, width) == [i \in 1..width |-> RestOf(size)[width - i] % 256]

LEMMA ValueIs ==
    ASSUME NEW bytes \in Seq(Bytes)
    PROVE  \E v \in [0..Len(bytes) -> Nat] :
             /\ v[0] = 0 /\ \A n \in 1..Len(bytes) : v[n] = 256 * v[n - 1] + bytes[n]
             /\ Value(bytes) = v[Len(bytes)]
<1> DEFINE N == Len(bytes)
           step == [p \in (1..N) \X Nat |-> 256 * p[2] + bytes[p[1]]]
           c == CHOOSE c : IsValueOf(bytes, c)
<1>1. N \in Nat /\ \A n \in 1..N : bytes[n] \in Nat
  <2>1. N \in Nat
    BY LenProperties
  <2>2. \A n \in 1..N : bytes[n] \in Bytes
    BY ElementOfSeq
  <2>3. Bytes \subseteq Nat
    BY DEF Bytes
  <2>4. QED
    BY <2>1, <2>2, <2>3
<1>3. \A n \in 1..N, x \in Nat : step[<<n, x>>] = 256 * x + bytes[n]
  OBVIOUS
<1> HIDE DEF step, N
<1>2. StepOn(Nat, N, step)
  <2>1. \A n \in 1..N, x \in Nat : 256 * x + bytes[n] \in Nat
    BY <1>1
  <2>2. ASSUME NEW n \in 1..N, NEW x \in Nat PROVE step[<<n, x>>] \in Nat
    <3>1. step[<<n, x>>] = 256 * x + bytes[n]
      BY <1>3
    <3>2. QED
      BY <2>1, <3>1
  <2>3. QED
    BY <2>2 DEF StepOn
<1>4. PICK v \in [0..N -> Nat] : v[0] = 0 /\ \A n \in 1..N : v[n] = step[<<n, v[n - 1]>>]
  <2>1. \E v : Yields(Nat, N, 0, step, v)
    BY <1>1, <1>2, RecursionExists
  <2>2. QED
    BY <2>1 DEF Yields
<1>5. \A n \in 1..N : v[n] = 256 * v[n - 1] + bytes[n]
  <2>1. \A n \in 1..N : v[n - 1] \in Nat
    BY <1>1, <1>4
  <2>2. QED
    BY <1>3, <1>4, <2>1
<1>6. IsValueOf(bytes, v)
  <2>1. v = [n \in 0..N |-> v[n]]
    BY <1>4
  <2>2. \A n \in 0..N : v[n] = IF n = 0 THEN 0 ELSE 256 * v[n - 1] + bytes[n]
    BY <1>1, <1>4, <1>5
  <2>3. [n \in 0..N |-> v[n]] =
        [n \in 0..N |-> IF n = 0 THEN 0 ELSE 256 * v[n - 1] + bytes[n]]
    BY <2>2
  <2>4. QED
    BY <2>1, <2>3 DEF IsValueOf, N
<1>7. IsValueOf(bytes, c)
  BY <1>6
<1>8. c = [n \in 0..N |-> c[n]] /\ c[0] = 0 /\ \A n \in 1..N : c[n] = 256 * c[n - 1] + bytes[n]
  <2> HIDE DEF c
  <2>1. c = [n \in 0..N |-> IF n = 0 THEN 0 ELSE 256 * c[n - 1] + bytes[n]]
    BY <1>7 DEF IsValueOf, N
  <2>2. \A n \in 0..N : c[n] = IF n = 0 THEN 0 ELSE 256 * c[n - 1] + bytes[n]
    BY <2>1
  <2>3. QED
    BY <1>1, <2>1, <2>2
<1>9. \A n \in 0..N : c[n] = v[n]
  <2> HIDE DEF c
  <2>1. c[0] = v[0] /\ N \in Nat
    BY <1>1, <1>4, <1>8
  <2>3. ASSUME NEW n \in 1..N, c[n - 1] = v[n - 1] PROVE c[n] = v[n]
    <3>1. c[n] = 256 * c[n - 1] + bytes[n] /\ v[n] = 256 * v[n - 1] + bytes[n]
      BY <1>5, <1>8
    <3>2. QED
      BY <2>3, <3>1
  <2>2. GoesAlong(N, c, v)
    BY <2>1, <2>3 DEF GoesAlong
  <2>4. QED
    BY <2>1, <2>2, RecursionUnique
<1>10. Value(bytes) = c[N]
  BY DEF Value, IsValueOf, N
<1>11. QED
  <2> HIDE DEF c
  <2>1. Value(bytes) = v[N]
    BY <1>1, <1>9, <1>10
  <2>2. QED
    BY <1>4, <1>5, <2>1 DEF N

LEMMA RestIs ==
    ASSUME NEW size \in Nat
    PROVE  /\ RestOf(size)[0] = size
           /\ \A n \in 1..8 : RestOf(size)[n] = RestOf(size)[n - 1] \div 256
           /\ \A n \in 0..8 : RestOf(size)[n] \in Nat
<1> DEFINE step == [p \in (1..8) \X Nat |-> p[2] \div 256]
<1>2. \A n \in 1..8, x \in Nat : step[<<n, x>>] = x \div 256
  OBVIOUS
<1> HIDE DEF step
<1>1. StepOn(Nat, 8, step)
  BY <1>2 DEF StepOn
<1>3. PICK v \in [0..8 -> Nat] : v[0] = size /\ \A n \in 1..8 : v[n] = step[<<n, v[n - 1]>>]
  <2>1. 8 \in Nat
    OBVIOUS
  <2>2. \E v : Yields(Nat, 8, size, step, v)
    BY <1>1, <2>1, RecursionExists
  <2>3. QED
    BY <2>2 DEF Yields
<1>4. \A n \in 1..8 : v[n] = v[n - 1] \div 256
  <2>1. \A n \in 1..8 : v[n - 1] \in Nat
    BY <1>3
  <2>2. QED
    BY <1>2, <1>3, <2>1
<1>5. IsRestOf(size, v)
  <2>1. v = [n \in 0..8 |-> v[n]]
    BY <1>3
  <2>2. \A n \in 0..8 : v[n] = IF n = 0 THEN size ELSE v[n - 1] \div 256
    BY <1>3, <1>4
  <2>3. [n \in 0..8 |-> v[n]] = [n \in 0..8 |-> IF n = 0 THEN size ELSE v[n - 1] \div 256]
    BY <2>2
  <2>4. QED
    BY <2>1, <2>3 DEF IsRestOf
<1> DEFINE c == RestOf(size)
<1>6. IsRestOf(size, c)
  BY <1>5 DEF RestOf
<1> HIDE DEF c
<1>7. \A n \in 0..8 : c[n] = IF n = 0 THEN size ELSE c[n - 1] \div 256
  BY <1>6 DEF IsRestOf
<1>8. c[0] = size /\ \A n \in 1..8 : c[n] = c[n - 1] \div 256
  BY <1>7
<1>9. \A n \in 0..8 : c[n] = v[n]
  <2>1. \A n \in 1..8 : c[n - 1] = v[n - 1] => c[n] = v[n]
    BY <1>4, <1>8
  <2>2. QED
    BY <1>3, <1>8, <2>1, RecursionUnique DEF GoesAlong
<1>10. \A n \in 0..8 : c[n] \in Nat
  BY <1>3, <1>9
<1>11. QED
  BY <1>8, <1>10 DEF c

LEMMA TwoBytes == \A n \in Nat : (n \div 256) \div 256 = n \div 65536
BY SMT

\* A size has no more digits than its field has bytes.
LEMMA RestEnds ==
    ASSUME NEW size \in Nat
    PROVE  /\ size < 65536 => RestOf(size)[2] = 0
           /\ FitsIn64(size) => RestOf(size)[8] = 0
<1> DEFINE r == RestOf(size)
<1>1. \A n \in 0..8 : r[n] \in Nat
  BY RestIs
<1>2. r[0] = size /\ \A n \in 1..8 : r[n] = r[n - 1] \div 256
  BY RestIs
<1> HIDE DEF r
<1>3. ASSUME NEW n \in 0..6 PROVE r[n + 2] = r[n] \div 65536
  <2>1. r[n + 1] = r[n] \div 256
    <3>1. n + 1 \in 1..8 /\ (n + 1) - 1 = n
      OBVIOUS
    <3>2. QED
      BY <1>2, <3>1
  <2>2. r[n + 2] = r[n + 1] \div 256
    <3>1. n + 2 \in 1..8 /\ (n + 2) - 1 = n + 1
      OBVIOUS
    <3>2. QED
      BY <1>2, <3>1
  <2>3. r[n] \in Nat /\ r[n + 1] \in Nat
    BY <1>1
  <2>4. r[n + 2] = (r[n] \div 256) \div 256
    BY <2>1, <2>2, <2>3
  <2>5. QED
    BY <2>3, <2>4, TwoBytes, SMT
<1>4. r[2] = size \div 65536 /\ r[4] = r[2] \div 65536 /\ r[6] = r[4] \div 65536
      /\ r[8] = r[6] \div 65536
  <2>1. r[0 + 2] = r[0] \div 65536 /\ r[2 + 2] = r[2] \div 65536
        /\ r[4 + 2] = r[4] \div 65536 /\ r[6 + 2] = r[6] \div 65536
    BY <1>3
  <2>2. QED
    BY <1>2, <2>1
<1>5. size < 65536 => r[2] = 0
  BY <1>4
<1>6. r[2] \in Nat /\ r[4] \in Nat /\ r[6] \in Nat
  BY <1>1
<1>7. FitsIn64(size) => r[8] = 0
  <2>1. ASSUME NEW a, NEW b, NEW c, NEW d, FitsIn64(size), a = size \div 65536,
               b = a \div 65536, c = b \div 65536, d = c \div 65536
        PROVE  d = 0
    BY <2>1, SMT DEF FitsIn64
  <2>2. QED
    BY <1>4, <2>1
<1>8. QED
  BY <1>5, <1>7 DEF r

LEMMA DigitsAreBytes ==
    ASSUME NEW size \in Nat, NEW width \in 0..8
    PROVE  Digits(size, width) \in Seq(Bytes) /\ Len(Digits(size, width)) = width
<1>1. ASSUME NEW i \in 1..width PROVE RestOf(size)[width - i] % 256 \in Bytes
  <2>1. width - i \in 0..8
    OBVIOUS
  <2>2. RestOf(size)[width - i] \in Nat
    BY <2>1, RestIs
  <2>3. QED
    BY <2>2 DEF Bytes
<1>2. QED
  BY <1>1 DEF Digits

\* A reader of the digits has the size.
LEMMA ValueOfDigits ==
    ASSUME NEW size \in Nat, NEW width \in 0..8, RestOf(size)[width] = 0,
           NEW bytes \in Seq(Bytes), Len(bytes) = width,
           \A i \in 1..width : bytes[i] = Digits(size, width)[i]
    PROVE  Value(bytes) = size
<1> DEFINE r == RestOf(size)
           h == [n \in 0..width |-> r[width - n]]
<1>1. /\ r[0] = size /\ r[width] = 0 /\ \A n \in 1..8 : r[n] = r[n - 1] \div 256
      /\ \A n \in 0..8 : r[n] \in Nat
  BY RestIs
<1>2. \A i \in 1..width : bytes[i] = r[width - i] % 256
  BY DEF Digits
<1> HIDE DEF r
<1>3. PICK v \in [0..width -> Nat] :
         /\ v[0] = 0 /\ \A n \in 1..width : v[n] = 256 * v[n - 1] + bytes[n]
         /\ Value(bytes) = v[width]
  <2>1. \E v \in [0..Len(bytes) -> Nat] :
           /\ v[0] = 0 /\ \A n \in 1..Len(bytes) : v[n] = 256 * v[n - 1] + bytes[n]
           /\ Value(bytes) = v[Len(bytes)]
    BY ValueIs
  <2>2. QED
    BY <2>1
<1>4. v[0] = h[0]
  BY <1>1, <1>3
<1>5. ASSUME NEW n \in 1..width, v[n - 1] = h[n - 1] PROVE v[n] = h[n]
  <2> DEFINE a == r[width - n]
             b == r[width - n + 1]
  <2>1. a \in Nat
    <3>1. width - n \in 0..8
      OBVIOUS
    <3>2. QED
      BY <1>1, <3>1
  <2>2. b = a \div 256
    <3>1. width - n + 1 \in 1..8 /\ (width - n + 1) - 1 = width - n
      OBVIOUS
    <3>2. QED
      BY <1>1, <3>1
  <2>3. h[n] = a /\ h[n - 1] = b
    <3>1. width - (n - 1) = width - n + 1 /\ n \in 0..width /\ n - 1 \in 0..width
      OBVIOUS
    <3>2. h[n] = a
      BY <3>1
    <3>3. h[n - 1] = r[width - (n - 1)]
      BY <3>1
    <3>4. QED
      BY <3>1, <3>2, <3>3
  <2>4. v[n] = 256 * v[n - 1] + bytes[n] /\ bytes[n] = a % 256
    BY <1>2, <1>3
  <2> HIDE DEF a, b, h
  <2>5. 256 * (a \div 256) + (a % 256) = a
    BY <2>1
  <2>6. v[n - 1] = a \div 256
    BY <1>5, <2>2, <2>3
  <2>7. v[n] = 256 * (a \div 256) + (a % 256)
    BY <2>4, <2>6
  <2>8. QED
    BY <2>3, <2>5, <2>7
<1> HIDE DEF h
<1>6. width \in Nat /\ GoesAlong(width, v, h)
  BY <1>4, <1>5 DEF GoesAlong
<1>7. \A n \in 0..width : v[n] = h[n]
  BY <1>6, RecursionUnique
<1>8. h[width] = size
  <2>1. width - width = 0
    OBVIOUS
  <2>2. QED
    BY <1>1, <2>1 DEF h
<1>9. QED
  BY <1>3, <1>7, <1>8

\* Where the bytes of a concatenation come from.
LEMMA TwoParts ==
    ASSUME NEW S, NEW a \in Seq(S), NEW b \in Seq(S)
    PROVE  /\ a \o b \in Seq(S) /\ Len(a \o b) = Len(a) + Len(b)
           /\ \A i \in 1..Len(a) : (a \o b)[i] = a[i]
           /\ \A i \in 1..Len(b) : (a \o b)[Len(a) + i] = b[i]
<1>1. Len(a) \in Nat /\ Len(b) \in Nat
  BY LenProperties
<1>2. /\ a \o b \in Seq(S) /\ Len(a \o b) = Len(a) + Len(b)
      /\ \A i \in 1..(Len(a) + Len(b)) :
            (a \o b)[i] = IF i <= Len(a) THEN a[i] ELSE b[i - Len(a)]
  BY ConcatProperties
<1>3. ASSUME NEW i \in 1..Len(a) PROVE (a \o b)[i] = a[i]
  BY <1>1, <1>2
<1>4. ASSUME NEW i \in 1..Len(b) PROVE (a \o b)[Len(a) + i] = b[i]
  <2>1. Len(a) + i \in 1..(Len(a) + Len(b)) /\ ~(Len(a) + i <= Len(a))
    BY <1>1
  <2>2. (Len(a) + i) - Len(a) = i
    BY <1>1
  <2>3. QED
    BY <1>2, <2>1, <2>2
<1>5. QED
  BY <1>2, <1>3, <1>4

LEMMA ThreeParts ==
    ASSUME NEW S, NEW a \in Seq(S), NEW b \in Seq(S), NEW c \in Seq(S)
    PROVE  /\ (a \o b) \o c \in Seq(S) /\ Len((a \o b) \o c) = Len(a) + Len(b) + Len(c)
           /\ \A i \in 1..Len(a) : ((a \o b) \o c)[i] = a[i]
           /\ \A i \in 1..Len(b) : ((a \o b) \o c)[Len(a) + i] = b[i]
           /\ \A i \in 1..Len(c) : ((a \o b) \o c)[Len(a) + Len(b) + i] = c[i]
<1>1. Len(a) \in Nat /\ Len(b) \in Nat /\ Len(c) \in Nat
  BY LenProperties
<1> DEFINE ab == a \o b
<1>2. /\ ab \in Seq(S) /\ Len(ab) = Len(a) + Len(b)
      /\ \A i \in 1..Len(a) : ab[i] = a[i]
      /\ \A i \in 1..Len(b) : ab[Len(a) + i] = b[i]
  BY TwoParts
<1> HIDE DEF ab
<1>3. /\ ab \o c \in Seq(S) /\ Len(ab \o c) = Len(ab) + Len(c)
      /\ \A i \in 1..Len(ab) : (ab \o c)[i] = ab[i]
      /\ \A i \in 1..Len(c) : (ab \o c)[Len(ab) + i] = c[i]
  <2>1. \A p, q \in Seq(S) :
           /\ p \o q \in Seq(S) /\ Len(p \o q) = Len(p) + Len(q)
           /\ \A i \in 1..Len(p) : (p \o q)[i] = p[i]
           /\ \A i \in 1..Len(q) : (p \o q)[Len(p) + i] = q[i]
    BY TwoParts
  <2>2. QED
    BY <1>2, <2>1
<1>4. ASSUME NEW i \in 1..Len(a) PROVE (ab \o c)[i] = a[i]
  BY <1>1, <1>2, <1>3
<1>5. ASSUME NEW i \in 1..Len(b) PROVE (ab \o c)[Len(a) + i] = b[i]
  <2>1. Len(a) + i \in 1..Len(ab)
    BY <1>1, <1>2
  <2>2. QED
    BY <1>2, <1>3, <2>1
<1>6. ASSUME NEW i \in 1..Len(c) PROVE (ab \o c)[Len(a) + Len(b) + i] = c[i]
  BY <1>2, <1>3
<1>7. Len(ab \o c) = Len(a) + Len(b) + Len(c)
  BY <1>2, <1>3
<1>8. QED
  BY <1>3, <1>4, <1>5, <1>6, <1>7 DEF ab

LEMMA FrameType ==
    ASSUME NEW f \in FrameSet
    PROVE  /\ f = [Opcode |-> f.Opcode, IsMasked |-> f.IsMasked, Mask |-> f.Mask,
                   Payload |-> f.Payload]
           /\ f.Opcode \in Bytes /\ f.IsMasked \in BOOLEAN
           /\ f.Mask \in Seq(0..1) /\ f.Payload \in Seq(0..1)
           /\ f.Mask \in Seq(Bytes) /\ f.Payload \in Seq(Bytes)
           /\ Len(f.Mask) = (IF f.IsMasked THEN 4 ELSE 0) /\ Len(f.Payload) \in Nat
           /\ SizeWidth(f) \in {0, 2, 8}
           /\ SizeCode(f) \in 0..127
           /\ SizeWidth(f) # 0 => RestOf(Len(f.Payload))[SizeWidth(f)] = 0
<1>1. /\ f \in [Opcode : 0..255, IsMasked : BOOLEAN, Mask : Seq(0..1), Payload : Seq(0..1)]
      /\ Len(f.Mask) = (IF f.IsMasked THEN 4 ELSE 0)
  BY FrameAssumption, SMT
<1>3. \A q \in Seq(0..1) : q \in Seq(Bytes) /\ Len(q) \in Nat
  <2>1. ASSUME NEW q \in Seq(0..1) PROVE q \in Seq(Bytes) /\ Len(q) \in Nat
    <3>1. Len(q) \in Nat /\ q = [i \in 1..Len(q) |-> q[i]]
      BY LenProperties, SMT
    <3>2. \A i \in 1..Len(q) : q[i] \in 0..1
      BY ElementOfSeq
    <3>3. \A i \in 1..Len(q) : q[i] \in Bytes
      BY <3>2 DEF Bytes
    <3>4. QED
      BY <3>1, <3>3
  <2>2. QED
    BY <2>1
<1>4. Len(f.Payload) \in Nat
  BY <1>1, <1>3
<1>2. FitsIn64(Len(f.Payload))
  BY SizeAssumption
<1>5. SizeWidth(f) \in {0, 2, 8} /\ (SizeWidth(f) = 2 => Len(f.Payload) < 65536)
  BY <1>4, FormatAssumption DEF SizeWidth
<1>6. SizeCode(f) \in 0..127
  <2>1. Escape \in 1..126 /\ WideSize \in Nat
    BY FormatAssumption
  <2>2. ASSUME NEW n \in Nat
        PROVE  (IF n < Escape THEN n ELSE IF n < WideSize THEN Escape ELSE Escape + 1) \in 0..127
    BY <2>1
  <2>3. QED
    BY <1>4, <2>2 DEF SizeCode
<1>7. SizeWidth(f) = 0 \/ RestOf(Len(f.Payload))[SizeWidth(f)] = 0
  <2>1. /\ Len(f.Payload) < 65536 => RestOf(Len(f.Payload))[2] = 0
        /\ RestOf(Len(f.Payload))[8] = 0
    BY <1>2, <1>4, RestEnds
  <2>2. QED
    BY <1>5, <2>1
<1>8. f.Opcode \in Bytes
  BY <1>1 DEF Bytes
<1>9. f.IsMasked \in BOOLEAN /\ f.Mask \in Seq(0..1) /\ f.Payload \in Seq(0..1)
  BY <1>1
<1>10. f = [Opcode |-> f.Opcode, IsMasked |-> f.IsMasked, Mask |-> f.Mask,
            Payload |-> f.Payload]
  BY <1>1
<1>11. f.Mask \in Seq(Bytes) /\ f.Payload \in Seq(Bytes)
  BY <1>3, <1>9
<1>12. QED
  BY <1>1, <1>4, <1>5, <1>6, <1>7, <1>8, <1>9, <1>10, <1>11

LEMMA HeaderIs ==
    ASSUME NEW f \in FrameSet
    PROVE  /\ Header(f) \in Seq(Bytes)
           /\ Len(Header(f)) = 2 + SizeWidth(f) + Len(f.Mask)
           /\ Header(f)[1] = f.Opcode
           /\ Header(f)[2] = (IF f.IsMasked THEN MaskBit ELSE 0) + SizeCode(f)
           /\ \A i \in 1..SizeWidth(f) :
                 Header(f)[2 + i] = Digits(Len(f.Payload), SizeWidth(f))[i]
           /\ \A i \in 1..Len(f.Mask) : Header(f)[2 + SizeWidth(f) + i] = f.Mask[i]
<1> DEFINE code == (IF f.IsMasked THEN MaskBit ELSE 0) + SizeCode(f)
           a == <<f.Opcode, code>>
           b == Digits(Len(f.Payload), SizeWidth(f))
<1>1. Header(f) = (a \o b) \o f.Mask
  BY DEF Header, Digits, RestOf, IsRestOf, SizeCode, SizeWidth
<1>2. f.Opcode \in Bytes /\ code \in Bytes
  <2>1. f.Opcode \in Bytes /\ SizeCode(f) \in 0..127
    BY FrameType
  <2>2. QED
    BY <2>1 DEF MaskBit, Bytes
<1> HIDE DEF code
<1>3. a \in Seq(Bytes) /\ Len(a) = 2 /\ a[1] = f.Opcode /\ a[2] = code
  BY <1>2
<1>4. b \in Seq(Bytes) /\ Len(b) = SizeWidth(f) /\ SizeWidth(f) \in 0..8
  <2>1. Len(f.Payload) \in Nat /\ SizeWidth(f) \in 0..8
    BY FrameType
  <2>2. QED
    BY <2>1, DigitsAreBytes
<1>5. f.Mask \in Seq(Bytes)
  BY FrameType
<1> HIDE DEF a, b
<1>6. /\ (a \o b) \o f.Mask \in Seq(Bytes)
      /\ Len((a \o b) \o f.Mask) = Len(a) + Len(b) + Len(f.Mask)
      /\ \A i \in 1..Len(a) : ((a \o b) \o f.Mask)[i] = a[i]
      /\ \A i \in 1..Len(b) : ((a \o b) \o f.Mask)[Len(a) + i] = b[i]
      /\ \A i \in 1..Len(f.Mask) : ((a \o b) \o f.Mask)[Len(a) + Len(b) + i] = f.Mask[i]
  <2>1. \A c \in Seq(Bytes) :
          /\ (a \o b) \o c \in Seq(Bytes)
          /\ Len((a \o b) \o c) = Len(a) + Len(b) + Len(c)
          /\ \A i \in 1..Len(a) : ((a \o b) \o c)[i] = a[i]
          /\ \A i \in 1..Len(b) : ((a \o b) \o c)[Len(a) + i] = b[i]
          /\ \A i \in 1..Len(c) : ((a \o b) \o c)[Len(a) + Len(b) + i] = c[i]
    <3>1. \A p, q, c \in Seq(Bytes) :
             /\ (p \o q) \o c \in Seq(Bytes)
             /\ Len((p \o q) \o c) = Len(p) + Len(q) + Len(c)
             /\ \A i \in 1..Len(p) : ((p \o q) \o c)[i] = p[i]
             /\ \A i \in 1..Len(q) : ((p \o q) \o c)[Len(p) + i] = q[i]
             /\ \A i \in 1..Len(c) : ((p \o q) \o c)[Len(p) + Len(q) + i] = c[i]
      BY ThreeParts
    <3>2. QED
      BY <1>3, <1>4, <3>1
  <2>2. QED
    BY <1>5, <2>1
<1>7. Header(f)[1] = a[1] /\ Header(f)[2] = a[2]
  <2>1. 1 \in 1..Len(a) /\ 2 \in 1..Len(a)
    BY <1>3
  <2>2. ((a \o b) \o f.Mask)[1] = a[1] /\ ((a \o b) \o f.Mask)[2] = a[2]
    BY <1>6, <2>1
  <2>3. QED
    BY <1>1, <2>2
<1>8. QED
  BY <1>1, <1>3, <1>4, <1>6, <1>7 DEF code, b

\* The bytes of the payload as they are sent.
Body(f) == IF f.IsMasked THEN Masked(f.Payload, f.Mask) ELSE f.Payload

\* Masking yields as many bits, and twice the same mask is none.
LEMMA MaskedTwice ==
    ASSUME NEW payload \in Seq(0..1), NEW mask \in Seq(0..1), Len(mask) = 4
    PROVE  /\ Masked(payload, mask) \in Seq(0..1)
           /\ Len(Masked(payload, mask)) = Len(payload)
           /\ Masked(Masked(payload, mask), mask) = payload
<1> DEFINE N == Len(payload)
           bit(i) == mask[1 + ((i - 1) % 4)]
           m == [i \in 1..N |-> (payload[i] + bit(i)) % 2]
<1>1. N \in Nat /\ DOMAIN payload = 1..N /\ payload = [i \in 1..N |-> payload[i]]
  BY LenProperties
<1>2. ASSUME NEW i \in 1..N PROVE payload[i] \in 0..1 /\ bit(i) \in 0..1
  <2>1. 1 + ((i - 1) % 4) \in 1..4
    BY <1>1
  <2>2. \A j \in 1..Len(mask) : mask[j] \in 0..1
    BY ElementOfSeq
  <2>3. payload[i] \in 0..1
    BY ElementOfSeq
  <2>4. QED
    BY <2>1, <2>2, <2>3
<1>3. Masked(payload, mask) = m
  BY <1>1 DEF Masked
<1> HIDE DEF bit, N
<1>4. \A i \in 1..N : m[i] \in 0..1 /\ (m[i] + bit(i)) % 2 = payload[i]
  BY <1>2
<1>5. m \in Seq(0..1) /\ Len(m) = N /\ DOMAIN m = 1..N
  <2>1. m = [i \in 1..N |-> m[i]]
    OBVIOUS
  <2> HIDE DEF m
  <2>2. m \in Seq(0..1) /\ Len(m) = N
    <3>1. N \in Nat /\ \A i \in 1..N : m[i] \in 0..1
      BY <1>1, <1>4
    <3>2. m \in [1..N -> 0..1]
      BY <2>1, <3>1
    <3>3. m \in Seq(0..1)
      BY <3>1, <3>2, SeqDef
    <3>4. QED
      BY <2>1, <3>1, <3>3, LenProperties
  <2>3. QED
    BY <2>1, <2>2
<1>6. Masked(m, mask) = [i \in 1..N |-> (m[i] + bit(i)) % 2]
  BY <1>5 DEF Masked, bit
<1> HIDE DEF m
<1>7. [i \in 1..N |-> (m[i] + bit(i)) % 2] = [i \in 1..N |-> payload[i]]
  BY <1>4
<1>8. QED
  BY <1>1, <1>3, <1>5, <1>6, <1>7 DEF N

LEMMA BodyIs ==
    ASSUME NEW f \in FrameSet
    PROVE  /\ Body(f) \in Seq(0..1) /\ Body(f) \in Seq(Bytes) /\ Len(Body(f)) = Len(f.Payload)
           /\ (IF f.IsMasked THEN Masked(Body(f), f.Mask) ELSE Body(f)) = f.Payload
<1>1. f.Payload \in Seq(0..1) /\ f.Mask \in Seq(0..1) /\ (f.IsMasked => Len(f.Mask) = 4)
  BY FrameType
<1>2. /\ Body(f) \in Seq(0..1) /\ Len(Body(f)) = Len(f.Payload)
      /\ (IF f.IsMasked THEN Masked(Body(f), f.Mask) ELSE Body(f)) = f.Payload
  <2>1. CASE f.IsMasked
    BY <1>1, <2>1, MaskedTwice DEF Body
  <2>2. CASE ~f.IsMasked
    BY <1>1, <2>2 DEF Body
  <2>3. QED
    BY <2>1, <2>2
<1>3. ASSUME NEW q \in Seq(0..1) PROVE q \in Seq(Bytes)
  <2>1. Len(q) \in Nat /\ q = [i \in 1..Len(q) |-> q[i]]
    BY LenProperties, SMT
  <2>2. \A i \in 1..Len(q) : q[i] \in 0..1
    BY ElementOfSeq
  <2>3. \A i \in 1..Len(q) : q[i] \in Bytes
    BY <2>2 DEF Bytes
  <2>4. QED
    BY <2>1, <2>3
<1>4. QED
  BY <1>2, <1>3

\* What is where in the bytes of a frame.
LEMMA EncodedIs ==
    ASSUME NEW f \in FrameSet
    PROVE  /\ Encoded(f) \in Seq(Bytes)
           /\ Len(Header(f)) = 2 + SizeWidth(f) + Len(f.Mask)
           /\ Len(Encoded(f)) = Len(Header(f)) + Len(f.Payload)
           /\ Len(Header(f)) \in Nat /\ Len(Header(f)) >= 2 /\ Len(Encoded(f)) \in Nat
           /\ Encoded(f)[1] = f.Opcode
           /\ Encoded(f)[2] = (IF f.IsMasked THEN MaskBit ELSE 0) + SizeCode(f)
           /\ \A i \in 1..SizeWidth(f) :
                 Encoded(f)[2 + i] = Digits(Len(f.Payload), SizeWidth(f))[i]
           /\ \A i \in 1..Len(f.Mask) : Encoded(f)[2 + SizeWidth(f) + i] = f.Mask[i]
           /\ \A i \in 1..Len(f.Payload) : Encoded(f)[Len(Header(f)) + i] = Body(f)[i]
<1> DEFINE h == Header(f)
           w == SizeWidth(f)
           masks == Len(f.Mask)
           size == Len(f.Payload)
<1>1. /\ h \in Seq(Bytes) /\ Len(h) = 2 + w + masks
      /\ h[1] = f.Opcode /\ h[2] = (IF f.IsMasked THEN MaskBit ELSE 0) + SizeCode(f)
      /\ \A i \in 1..w : h[2 + i] = Digits(size, w)[i]
      /\ \A i \in 1..masks : h[2 + w + i] = f.Mask[i]
  BY HeaderIs
<1>2. w \in Nat /\ masks \in Nat /\ size \in Nat
  <2>1. w \in {0, 2, 8} /\ size \in Nat /\ masks = (IF f.IsMasked THEN 4 ELSE 0)
    BY FrameType
  <2> HIDE DEF w, masks, size
  <2>2. QED
    BY <2>1
<1>3. Encoded(f) = h \o Body(f)
  BY DEF Encoded, Body
<1>4. Body(f) \in Seq(Bytes) /\ Len(Body(f)) = size
  BY BodyIs
<1> HIDE DEF h, w, masks, size
<1>5. /\ h \o Body(f) \in Seq(Bytes) /\ Len(h \o Body(f)) = Len(h) + Len(Body(f))
      /\ \A i \in 1..Len(h) : (h \o Body(f))[i] = h[i]
      /\ \A i \in 1..Len(Body(f)) : (h \o Body(f))[Len(h) + i] = Body(f)[i]
  <2>1. \A p, q \in Seq(Bytes) :
           /\ p \o q \in Seq(Bytes) /\ Len(p \o q) = Len(p) + Len(q)
           /\ \A i \in 1..Len(p) : (p \o q)[i] = p[i]
           /\ \A i \in 1..Len(q) : (p \o q)[Len(p) + i] = q[i]
    BY TwoParts
  <2>2. QED
    BY <1>1, <1>4, <2>1
<1>6. \A i \in 1..Len(h) : Encoded(f)[i] = h[i]
  BY <1>3, <1>5
<1>7. Len(h) = 2 + w + masks /\ Len(h) \in Nat /\ Len(h) >= 2
  <2>1. Len(h) = 2 + w + masks
    BY <1>1
  <2>2. QED
    BY <1>2, <2>1
<1>8. Encoded(f)[1] = h[1] /\ Encoded(f)[2] = h[2]
  BY <1>6, <1>7
<1>9. ASSUME NEW i \in 1..w PROVE Encoded(f)[2 + i] = Digits(size, w)[i]
  <2>1. 2 + i \in 1..Len(h)
    BY <1>2, <1>7
  <2>2. QED
    BY <1>1, <1>6, <2>1
<1>10. ASSUME NEW i \in 1..masks PROVE Encoded(f)[2 + w + i] = f.Mask[i]
  <2>1. 2 + w + i \in 1..Len(h)
    BY <1>2, <1>7
  <2>2. QED
    BY <1>1, <1>6, <2>1
<1>11. Len(Encoded(f)) = Len(h) + size /\ Encoded(f) \in Seq(Bytes)
  BY <1>3, <1>4, <1>5
<1>12. \A i \in 1..size : Encoded(f)[Len(h) + i] = Body(f)[i]
  BY <1>3, <1>4, <1>5
<1>13. Len(Encoded(f)) \in Nat
  BY <1>2, <1>7, <1>11
<1>14. QED
  BY <1>1, <1>7, <1>8, <1>9, <1>10, <1>11, <1>12, <1>13 DEF h, w, masks, size

-----------------------------------------------------------------------------
(* The stream as bytes.                                                     *)

\* g joins the sequences of E one after the other; c is the recursive function in FlattenSeq.
Joins(E, g) == g[0] = <<>> /\ \A i \in 1..Len(E) : g[i] = g[i - 1] \o E[i]
IsFlatten(E, c) == c = [i \in 1..Len(E) |-> IF i = 1 THEN E[i] ELSE c[i - 1] \o E[i]]

LEMMA JoinExists ==
    ASSUME NEW S, NEW E \in Seq(Seq(S))
    PROVE  \E g \in [0..Len(E) -> Seq(S)] : Joins(E, g)
<1> DEFINE N == Len(E)
           step == [p \in (1..N) \X Seq(S) |-> p[2] \o E[p[1]]]
<1>1. N \in Nat /\ <<>> \in Seq(S) /\ \A i \in 1..N : E[i] \in Seq(S)
  <2>1. N \in Nat /\ <<>> \in Seq(S)
    BY LenProperties
  <2>2. \A i \in 1..N : E[i] \in Seq(S)
    BY ElementOfSeq
  <2>3. QED
    BY <2>1, <2>2
<1>2. \A n \in 1..N, x \in Seq(S) : step[<<n, x>>] = x \o E[n]
  OBVIOUS
<1> HIDE DEF step, N
<1>3. StepOn(Seq(S), N, step)
  <2>1. ASSUME NEW n \in 1..N, NEW x \in Seq(S) PROVE step[<<n, x>>] \in Seq(S)
    <3>1. x \o E[n] \in Seq(S)
      BY <1>1, ConcatProperties
    <3>2. QED
      BY <1>2, <3>1
  <2>2. QED
    BY <2>1 DEF StepOn
<1>4. PICK g : Yields(Seq(S), N, <<>>, step, g)
  BY <1>1, <1>3, RecursionExists
<1>5. g \in [0..N -> Seq(S)] /\ g[0] = <<>> /\ \A n \in 1..N : g[n] = step[<<n, g[n - 1]>>]
  BY <1>4 DEF Yields
<1>6. ASSUME NEW n \in 1..N PROVE g[n] = g[n - 1] \o E[n]
  <2>1. g[n - 1] \in Seq(S)
    BY <1>1, <1>5
  <2>2. QED
    BY <1>2, <1>5, <2>1
<1>7. QED
  BY <1>5, <1>6 DEF Joins, N

\* FlattenSeq of the first k sequences.
LEMMA FlattenIs ==
    ASSUME NEW S, NEW E \in Seq(Seq(S)), NEW g \in [0..Len(E) -> Seq(S)], Joins(E, g),
           NEW F \in Seq(Seq(S)), Len(F) \in 0..Len(E), \A i \in 1..Len(F) : F[i] = E[i]
    PROVE  FlattenSeq(F) = g[Len(F)]
<1> DEFINE k == Len(F)
           c == CHOOSE c : IsFlatten(F, c)
           h == [i \in 1..k |-> g[i]]
<1>1. k \in Nat /\ Len(E) \in Nat /\ k <= Len(E)
  BY LenProperties
<1>2. g[0] = <<>> /\ \A i \in 1..k : g[i] = g[i - 1] \o F[i]
  <2>1. ASSUME NEW i \in 1..k PROVE g[i] = g[i - 1] \o F[i]
    <3>1. i \in 1..Len(E)
      BY <1>1
    <3>2. g[i] = g[i - 1] \o E[i]
      BY <3>1 DEF Joins
    <3>3. QED
      BY <3>2
  <2>2. QED
    BY <2>1 DEF Joins
<1>3. CASE k = 0
  <2>1. F = <<>>
    BY <1>3, EmptySeq
  <2>2. FlattenSeq(F) = F
    BY <1>3 DEF FlattenSeq
  <2>3. QED
    BY <1>2, <1>3, <2>1, <2>2
<1>4. CASE k # 0
  <2>1. FlattenSeq(F) = c[k]
    BY <1>4 DEF FlattenSeq, IsFlatten
  <2>2. \A i \in 1..k : F[i] \in Seq(S)
    BY ElementOfSeq
  <2>3. 1 \in 1..k /\ g[1] = F[1]
    <3>1. 1 \in 1..k
      BY <1>1, <1>4
    <3>2. g[1] = g[0] \o F[1]
      <4>1. g[1] = g[1 - 1] \o F[1]
        BY <1>2, <3>1
      <4>2. QED
        BY <4>1
    <3>3. <<>> \o F[1] = F[1]
      BY <2>2, <3>1, ConcatEmptySeq
    <3>4. QED
      BY <1>2, <3>1, <3>2, <3>3
  <2>4. ASSUME NEW i \in 1..k
        PROVE  h[i] = IF i = 1 THEN F[i] ELSE h[i - 1] \o F[i]
    <3>1. CASE i = 1
      BY <2>3, <3>1
    <3>2. CASE i # 1
      <4>1. i - 1 \in 1..k
        BY <1>1, <3>2
      <4>2. h[i] = g[i] /\ h[i - 1] = g[i - 1]
        BY <4>1
      <4> HIDE DEF h
      <4>3. QED
        BY <1>2, <3>2, <4>2
    <3>3. QED
      BY <3>1, <3>2
  <2>5. IsFlatten(F, h)
    <3>1. h = [i \in 1..k |-> h[i]]
      OBVIOUS
    <3> HIDE DEF h
    <3>2. [i \in 1..k |-> h[i]] = [i \in 1..k |-> IF i = 1 THEN F[i] ELSE h[i - 1] \o F[i]]
      BY <2>4
    <3>3. QED
      BY <3>1, <3>2 DEF IsFlatten
  <2>6. IsFlatten(F, c)
    BY <2>5
  <2> HIDE DEF c, h
  <2>7. \A i \in 1..k : c[i] = IF i = 1 THEN F[i] ELSE c[i - 1] \o F[i]
    BY <2>6 DEF IsFlatten
  <2> DEFINE P == {n \in 0..k : n = 0 \/ c[n] = g[n]}
  <2>8. 0 \in P
    BY <1>1
  <2>9. ASSUME NEW n \in 1..k, n - 1 \in P PROVE n \in P
    <3>1. CASE n = 1
      BY <2>3, <2>7, <3>1
    <3>2. CASE n # 1
      <4>1. c[n - 1] = g[n - 1]
        BY <1>1, <2>9, <3>2
      <4>2. c[n] = c[n - 1] \o F[n] /\ g[n] = g[n - 1] \o F[n]
        BY <1>2, <2>7, <3>2
      <4>3. n \in 0..k /\ c[n] = g[n]
        BY <1>1, <4>1, <4>2
      <4>4. QED
        BY <4>3
    <3>3. QED
      BY <3>1, <3>2
  <2> HIDE DEF P
  <2>10. \A n \in 0..k : n \in P
    BY <1>1, <2>8, <2>9, UpTo
  <2>11. c[k] = g[k]
    BY <1>1, <1>4, <2>10 DEF P
  <2>12. QED
    BY <2>1, <2>11
<1>5. QED
  BY <1>3, <1>4

\* What was joined stays where it is.
Stays(g, k, N) ==
    \A n \in 0..N : n >= k =>
       Len(g[n]) >= Len(g[k]) /\ \A i \in 1..Len(g[k]) : g[n][i] = g[k][i]

LEMMA JoinedStays ==
    ASSUME NEW S, NEW E \in Seq(Seq(S)), NEW g \in [0..Len(E) -> Seq(S)], Joins(E, g),
           NEW k \in 0..Len(E)
    PROVE  Stays(g, k, Len(E))
<1> DEFINE N == Len(E)
           P == {n \in 0..N : n >= k =>
                    Len(g[n]) >= Len(g[k]) /\ \A i \in 1..Len(g[k]) : g[n][i] = g[k][i]}
<1>1. N \in Nat /\ \A n \in 0..N : g[n] \in Seq(S) /\ Len(g[n]) \in Nat
  BY LenProperties
<1>2. \A i \in 1..N : E[i] \in Seq(S)
  BY ElementOfSeq
<1>3. 0 \in P
  BY <1>1
<1>4. ASSUME NEW n \in 1..N, n - 1 \in P PROVE n \in P
  <2>1. CASE n <= k
    BY <1>1, <2>1
  <2>2. CASE n > k
    <3>1. n - 1 \in 0..N /\ n - 1 >= k
      BY <1>1, <2>2
    <3>2. Len(g[n - 1]) >= Len(g[k]) /\ \A i \in 1..Len(g[k]) : g[n - 1][i] = g[k][i]
      BY <1>4, <3>1
    <3>3. g[n] = g[n - 1] \o E[n]
      BY DEF Joins
    <3>4. /\ Len(g[n - 1] \o E[n]) = Len(g[n - 1]) + Len(E[n]) /\ Len(E[n]) \in Nat
          /\ \A i \in 1..Len(g[n - 1]) : (g[n - 1] \o E[n])[i] = g[n - 1][i]
      <4>1. g[n - 1] \in Seq(S) /\ E[n] \in Seq(S)
        BY <1>1, <1>2, <3>1
      <4>2. \A p, q \in Seq(S) :
               /\ Len(p \o q) = Len(p) + Len(q) /\ Len(q) \in Nat
               /\ \A i \in 1..Len(p) : (p \o q)[i] = p[i]
        BY TwoParts, LenProperties
      <4>3. QED
        BY <4>1, <4>2
    <3>5. Len(g[n - 1]) \in Nat /\ Len(g[k]) \in Nat
      BY <1>1, <3>1
    <3>6. Len(g[n]) >= Len(g[k])
      <4>1. Len(g[n]) = Len(g[n - 1]) + Len(E[n])
        BY <3>3, <3>4
      <4>2. \A x, y, z, u \in Nat : x = y + u /\ y >= z => x >= z
        OBVIOUS
      <4>3. Len(g[n]) \in Nat /\ Len(E[n]) \in Nat
        BY <1>1, <3>4
      <4>4. Len(g[n - 1]) >= Len(g[k])
        BY <3>2
      <4>5. QED
        BY <3>5, <4>1, <4>2, <4>3, <4>4
    <3>7. ASSUME NEW i \in 1..Len(g[k]) PROVE g[n][i] = g[k][i]
      <4>1. i \in 1..Len(g[n - 1])
        BY <3>2, <3>5
      <4>2. g[n - 1][i] = g[k][i]
        BY <3>2
      <4>3. QED
        BY <3>3, <3>4, <4>1, <4>2
    <3>8. QED
      BY <3>6, <3>7
  <2>3. QED
    BY <1>1, <2>1, <2>2
<1> HIDE DEF P
<1>5. \A n \in 0..N : n \in P
  BY <1>1, <1>3, <1>4, UpTo
<1>6. QED
  BY <1>5 DEF P, Stays

\* The bytes of a stream, and where its k-th frame ends.
SentBytes(s) == FlattenSeq([i \in DOMAIN s |-> Encoded(s[i])])
EndOf(s, k) == Len(FlattenSeq([i \in 1..k |-> Encoded(s[i])]))

LEMMA BytesAreSent == Wire = SentBytes(stream) /\ \A k \in Nat : BytesOf(k) = EndOf(stream, k)
BY DEF Wire, SentBytes, BytesOf, EndOf

\* The bytes of a stream are those of its frames, one after the other.
LEMMA StreamIs ==
    ASSUME NEW s \in [1..MaxFrames -> FrameSet]
    PROVE  /\ SentBytes(s) \in Seq(Bytes) /\ Len(SentBytes(s)) = EndOf(s, MaxFrames)
           /\ EndOf(s, 0) = 0
           /\ \A k \in 0..MaxFrames : EndOf(s, k) \in Nat /\ EndOf(s, k) <= EndOf(s, MaxFrames)
           /\ \A k \in 1..MaxFrames :
                 /\ EndOf(s, k) = EndOf(s, k - 1) + Len(Encoded(s[k]))
                 /\ \A i \in 1..Len(Encoded(s[k])) :
                       SentBytes(s)[EndOf(s, k - 1) + i] = Encoded(s[k])[i]
<1> DEFINE N == MaxFrames
           E == [i \in 1..N |-> Encoded(s[i])]
           F(k) == [i \in 1..k |-> Encoded(s[i])]
<1>1. N \in Nat
  BY FormatAssumption
<1>2. \A i \in 1..N : Encoded(s[i]) \in Seq(Bytes) /\ s[i] \in FrameSet
  <2>1. \A i \in 1..N : s[i] \in FrameSet
    OBVIOUS
  <2>2. QED
    BY <2>1, EncodedIs
<1> HIDE DEF N
<1>3. ASSUME NEW k \in 0..N
      PROVE  F(k) \in Seq(Seq(Bytes)) /\ Len(F(k)) = k
  <2>1. k \in Nat /\ \A i \in 1..k : Encoded(s[i]) \in Seq(Bytes)
    BY <1>1, <1>2
  <2>2. QED
    BY <2>1
<1>4. E \in Seq(Seq(Bytes)) /\ Len(E) = N /\ \A i \in 1..N : E[i] = Encoded(s[i])
  BY <1>1, <1>3
<1> HIDE DEF E
<1>5. PICK g \in [0..N -> Seq(Bytes)] : Joins(E, g)
  BY <1>4, JoinExists
<1>6. ASSUME NEW k \in 0..N PROVE FlattenSeq(F(k)) = g[k]
  <2>1. \A i \in 1..k : F(k)[i] = E[i]
    BY <1>1, <1>4
  <2>2. F(k) \in Seq(Seq(Bytes)) /\ Len(F(k)) = k
    BY <1>3
  <2> HIDE DEF F
  <2>3. Len(F(k)) \in 0..Len(E) /\ g \in [0..Len(E) -> Seq(Bytes)]
    BY <1>4, <1>5, <2>2
  <2>4. \A i \in 1..Len(F(k)) : F(k)[i] = E[i]
    BY <2>1, <2>2
  <2>5. FlattenSeq(F(k)) = g[Len(F(k))]
    BY <1>4, <1>5, <2>2, <2>3, <2>4, FlattenIs
  <2>6. QED
    BY <2>2, <2>5
<1>7. \A k \in 0..N : EndOf(s, k) = Len(g[k])
  BY <1>6 DEF EndOf
<1>8. SentBytes(s) = g[N]
  <2>1. DOMAIN s = 1..N
    BY DEF N
  <2>2. SentBytes(s) = FlattenSeq(F(N)) /\ N \in 0..N
    BY <1>1, <2>1 DEF SentBytes
  <2>3. QED
    BY <1>6, <2>2
<1>9. \A k \in 0..N : g[k] \in Seq(Bytes) /\ Len(g[k]) \in Nat
  BY <1>5, LenProperties
<1>10. g[0] = <<>> /\ \A k \in 1..N : g[k] = g[k - 1] \o E[k]
  BY <1>4, <1>5 DEF Joins
<1> HIDE DEF F
<1>11. \A k \in 0..N, n \in 0..N : n >= k =>
          Len(g[n]) >= Len(g[k]) /\ \A i \in 1..Len(g[k]) : g[n][i] = g[k][i]
  <2>1. E \in Seq(Seq(Bytes)) /\ g \in [0..Len(E) -> Seq(Bytes)] /\ Joins(E, g)
    BY <1>4, <1>5
  <2>2. \A k \in 0..Len(E) : Stays(g, k, Len(E))
    BY <2>1, JoinedStays
  <2>3. QED
    BY <1>4, <2>2 DEF Stays
<1>12. ASSUME NEW k \in 1..N
       PROVE  /\ Len(g[k]) = Len(g[k - 1]) + Len(E[k])
              /\ \A i \in 1..Len(E[k]) : g[N][Len(g[k - 1]) + i] = E[k][i]
  <2> DEFINE before == g[k - 1]
             frame == E[k]
  <2>1. k - 1 \in 0..N /\ k \in 0..N /\ N \in 0..N /\ N >= k
    BY <1>1
  <2>2. before \in Seq(Bytes) /\ frame \in Seq(Bytes)
    BY <1>2, <1>4, <1>9, <2>1
  <2>3. g[k] = before \o frame
    BY <1>10
  <2>4. \A i \in 1..Len(g[k]) : g[N][i] = g[k][i]
    BY <1>11, <2>1
  <2> HIDE DEF before, frame
  <2>5. /\ Len(before) \in Nat /\ Len(frame) \in Nat
        /\ Len(g[k]) = Len(before) + Len(frame)
        /\ \A i \in 1..Len(frame) : g[k][Len(before) + i] = frame[i]
    BY <2>2, <2>3, TwoParts, LenProperties
  <2>6. ASSUME NEW i \in 1..Len(frame) PROVE g[N][Len(before) + i] = frame[i]
    <3>1. Len(before) + i \in 1..Len(g[k])
      BY <2>5
    <3>2. QED
      BY <2>4, <2>5, <3>1
  <2>7. QED
    BY <2>5, <2>6 DEF before, frame
<1>13. Len(g[0]) = 0
  BY <1>10
<1>14. 0 \in 0..N /\ N \in 0..N
  BY <1>1
<1>15. ASSUME NEW k \in 1..N
       PROVE  /\ EndOf(s, k) = EndOf(s, k - 1) + Len(Encoded(s[k]))
              /\ \A i \in 1..Len(Encoded(s[k])) :
                    SentBytes(s)[EndOf(s, k - 1) + i] = Encoded(s[k])[i]
  <2>1. k - 1 \in 0..N /\ k \in 0..N
    BY <1>1
  <2>2. EndOf(s, k) = Len(g[k]) /\ EndOf(s, k - 1) = Len(g[k - 1]) /\ E[k] = Encoded(s[k])
    BY <1>4, <1>7, <2>1
  <2>3. QED
    BY <1>8, <1>12, <2>2
<1>16. ASSUME NEW k \in 0..N
       PROVE  EndOf(s, k) \in Nat /\ EndOf(s, k) <= EndOf(s, N)
  <2>1. N >= k
    BY <1>1
  <2>2. EndOf(s, k) = Len(g[k]) /\ EndOf(s, N) = Len(g[N])
    BY <1>7, <1>14
  <2>3. Len(g[N]) >= Len(g[k]) /\ Len(g[k]) \in Nat /\ Len(g[N]) \in Nat
    BY <1>9, <1>11, <1>14, <2>1
  <2>4. QED
    BY <2>2, <2>3
<1>17. SentBytes(s) \in Seq(Bytes) /\ Len(SentBytes(s)) = EndOf(s, N) /\ EndOf(s, 0) = 0
  BY <1>7, <1>8, <1>9, <1>13, <1>14
<1>18. QED
  BY <1>15, <1>16, <1>17 DEF N

-----------------------------------------------------------------------------
(***************************************************************************)
(* The inductive invariant.  It says at which byte of the stream the       *)
(* parser is, whichever of Buf, msg and data holds the bytes from there    *)
(* on, and what the locals of a stage have of the frame around that byte.  *)
(***************************************************************************)

\* bytes are those of w that end at position end.
EndsAt(w, bytes, end) ==
    /\ Len(bytes) <= end
    /\ \A i \in 1..Len(bytes) : bytes[i] = w[end - Len(bytes) + i]

InMessage == pc \in {"header", "stage"}

\* How many of the bytes given to Add are not parsed, and the position behind the parsed.
Unparsed ==
    IF InMessage THEN Len(msg) - msgOffset
    ELSE IF pc = "loop" /\ first THEN (Len(Buf) - Offset) + Len(data) ELSE Len(Buf) - Offset
Position == fed - Unparsed

TypeInv ==
    /\ stream \in [1..MaxFrames -> FrameSet]
    /\ fed \in 0..Len(Wire)
    /\ pc \in {"idle", "loop", "header", "stage", "check", "settle"}
    /\ first \in BOOLEAN /\ overlapped \in BOOLEAN
    /\ Buf \in Seq(Bytes) /\ data \in Seq(Bytes) /\ msg \in Seq(Bytes)
    /\ Offset \in 0..Len(Buf) /\ msgOffset \in 0..Len(msg)
    /\ received \in Seq(FrameSet) /\ Frames \in Seq(FrameSet)

BytesInv ==
    /\ EndsAt(Wire, data, fed)
    /\ pc = "loop" /\ first => EndsAt(Wire, Buf, fed - Len(data))
    /\ ~(pc = "loop" /\ first) => EndsAt(Wire, Buf, fed)
    /\ InMessage => EndsAt(Wire, msg, fed)
    /\ InMessage /\ Buf # <<>> => Len(msg) - msgOffset = Len(Buf) - Offset
    /\ pc = "header" => msgOffset = 0
    /\ pc = "loop" /\ ~first => Buf # <<>>

\* The frame that comes next, and where it starts.
NextFrame == stream[Len(Done) + 1]
Start == EndOf(stream, Len(Done))
Begun(f) == [Opcode |-> f.Opcode, IsMasked |-> f.IsMasked, Mask |-> <<>>, Payload |-> <<>>]

DoneInv == Len(Done) <= MaxFrames /\ \A i \in 1..Len(Done) : Done[i] = stream[i]

FrameInv ==
    /\ Stage \in {"start", "payload_size", "mask_key", "payload"}
    /\ Stage = "start" =>
          CurrentFrame = NoFrame /\ SizeLen = 0 /\ PayloadLen = 0 /\ Position = Start
    /\ Stage # "start" => Len(Done) < MaxFrames
    /\ Stage = "payload_size" =>
          /\ CurrentFrame = Begun(NextFrame) /\ Position = Start + 2
          /\ SizeLen = SizeWidth(NextFrame) /\ SizeLen # 0 /\ PayloadLen = 0
    /\ Stage = "mask_key" =>
          /\ CurrentFrame = Begun(NextFrame) /\ Position = Start + 2 + SizeWidth(NextFrame)
          /\ SizeLen = 0 /\ PayloadLen = Len(NextFrame.Payload)
    /\ Stage = "payload" =>
          /\ CurrentFrame = [Opcode |-> NextFrame.Opcode, IsMasked |-> NextFrame.IsMasked,
                             Mask |-> NextFrame.Mask, Payload |-> <<>>]
          /\ Position = Start + Len(Header(NextFrame))
          /\ SizeLen = 0 /\ PayloadLen = Len(NextFrame.Payload)

\* Not all of the next frame was given to Add.
Waiting == Len(Done) < MaxFrames => fed < EndOf(stream, Len(Done) + 1)

ProgressInv ==
    /\ ~overlapped /\ InMessage => frameCount = Len(Frames)
    /\ ~overlapped /\ pc = "check" => Waiting \/ (frameCount # Len(Frames) /\ Stage = "start")
    /\ ~overlapped /\ pc \in {"settle", "idle"} => Waiting
    /\ pc = "idle" => Buf = <<>> \/ (Offset < Len(Buf) /\ Offset <= ChopLimit)

Inv == TypeInv /\ BytesInv /\ DoneInv /\ FrameInv /\ ProgressInv

-----------------------------------------------------------------------------
(* Bytes that end at a position.                                            *)

LEMMA EndsOfSubSeq ==
    ASSUME NEW w \in Seq(Bytes), NEW a \in Nat, NEW n \in Nat, a + n <= Len(w)
    PROVE  /\ SubSeq(w, a + 1, a + n) \in Seq(Bytes) /\ Len(SubSeq(w, a + 1, a + n)) = n
           /\ EndsAt(w, SubSeq(w, a + 1, a + n), a + n)
<1> DEFINE q == SubSeq(w, a + 1, a + n)
<1>1. Len(w) \in Nat /\ \A i \in 1..Len(w) : w[i] \in Bytes
  BY LenProperties, ElementOfSeq
<1>2. \A i \in (a + 1)..(a + n) : w[i] \in Bytes
  BY <1>1
<1>3. /\ q \in Seq(Bytes)
      /\ Len(q) = IF a + 1 <= a + n THEN (a + n) - (a + 1) + 1 ELSE 0
      /\ \A i \in 1..((a + n) - (a + 1) + 1) : q[i] = w[(a + 1) + i - 1]
  BY <1>2, SubSeqProperties
<1> HIDE DEF q
<1>4. Len(q) = n
  BY <1>3
<1>5. ASSUME NEW i \in 1..n PROVE q[i] = w[(a + n) - n + i]
  <2>1. i \in 1..((a + n) - (a + 1) + 1) /\ (a + 1) + i - 1 = (a + n) - n + i
    OBVIOUS
  <2>2. QED
    BY <1>3, <2>1
<1>6. EndsAt(w, q, a + n)
  BY <1>4, <1>5 DEF EndsAt
<1>7. QED
  BY <1>3, <1>4, <1>6 DEF q

\* What is left of some bytes ends where they end.
LEMMA EndsOfRest ==
    ASSUME NEW w, NEW q \in Seq(Bytes), NEW end \in Nat, EndsAt(w, q, end), NEW o \in 0..Len(q)
    PROVE  /\ SubSeq(q, o + 1, Len(q)) \in Seq(Bytes)
           /\ Len(SubSeq(q, o + 1, Len(q))) = Len(q) - o
           /\ EndsAt(w, SubSeq(q, o + 1, Len(q)), end)
<1> DEFINE N == Len(q)
           r == SubSeq(q, o + 1, N)
<1>1. N \in Nat /\ \A i \in 1..N : q[i] \in Bytes
  BY LenProperties, ElementOfSeq
<1>2. N <= end /\ \A i \in 1..N : q[i] = w[end - N + i]
  BY DEF EndsAt
<1> HIDE DEF N
<1>3. \A i \in (o + 1)..N : q[i] \in Bytes
  BY <1>1
<1>4. o \in 0..N
  BY DEF N
<1>5. /\ r \in Seq(Bytes)
      /\ Len(r) = IF o + 1 <= N THEN N - (o + 1) + 1 ELSE 0
      /\ \A i \in 1..(N - (o + 1) + 1) : r[i] = q[(o + 1) + i - 1]
  BY <1>1, <1>3, <1>4, SubSeqProperties
<1> HIDE DEF r
<1>6. Len(r) = N - o
  BY <1>1, <1>4, <1>5
<1>7. ASSUME NEW i \in 1..(N - o) PROVE r[i] = w[end - (N - o) + i]
  <2>1. i \in 1..(N - (o + 1) + 1) /\ (o + 1) + i - 1 = o + i /\ o + i \in 1..N
    BY <1>1, <1>4
  <2>2. r[i] = q[o + i]
    BY <1>5, <2>1
  <2>3. q[o + i] = w[end - N + (o + i)]
    BY <1>2, <2>1
  <2>4. end - N + (o + i) = end - (N - o) + i
    BY <1>1, <1>4
  <2>5. QED
    BY <2>2, <2>3, <2>4
<1>8. EndsAt(w, r, end)
  BY <1>1, <1>2, <1>4, <1>6, <1>7 DEF EndsAt
<1>9. QED
  BY <1>5, <1>6, <1>8 DEF r, N

LEMMA EndsOfConcat ==
    ASSUME NEW w, NEW p \in Seq(Bytes), NEW q \in Seq(Bytes), NEW end \in Nat,
           EndsAt(w, q, end), EndsAt(w, p, end - Len(q))
    PROVE  p \o q \in Seq(Bytes) /\ Len(p \o q) = Len(p) + Len(q) /\ EndsAt(w, p \o q, end)
<1> DEFINE m == Len(p)
           n == Len(q)
           r == p \o q
<1>1. m \in Nat /\ n \in Nat
  BY LenProperties
<1>2. /\ r \in Seq(Bytes) /\ Len(r) = m + n
      /\ \A i \in 1..m : r[i] = p[i]
      /\ \A i \in 1..n : r[m + i] = q[i]
  BY TwoParts
<1>3. /\ n <= end /\ \A i \in 1..n : q[i] = w[end - n + i]
      /\ m <= end - n /\ \A i \in 1..m : p[i] = w[(end - n) - m + i]
  BY DEF EndsAt
<1> HIDE DEF m, n, r
<1>4. ASSUME NEW i \in 1..(m + n) PROVE r[i] = w[end - (m + n) + i]
  <2>1. CASE i <= m
    <3>1. i \in 1..m /\ (end - n) - m + i = end - (m + n) + i
      BY <1>1, <2>1
    <3>2. QED
      BY <1>2, <1>3, <3>1
  <2>2. CASE i > m
    <3>1. i - m \in 1..n /\ m + (i - m) = i
      BY <1>1, <2>2
    <3>2. end - n + (i - m) = end - (m + n) + i
      BY <1>1
    <3>3. QED
      BY <1>2, <1>3, <3>1, <3>2
  <2>3. QED
    BY <1>1, <2>1, <2>2
<1>5. EndsAt(w, r, end)
  BY <1>1, <1>2, <1>3, <1>4 DEF EndsAt
<1>6. QED
  BY <1>2, <1>5 DEF m, n, r

LEMMA EndsOfNothing == ASSUME NEW w, NEW end \in Nat PROVE EndsAt(w, <<>>, end)
BY DEF EndsAt

-----------------------------------------------------------------------------
(* What the invariant says of the bytes that are read next.                 *)

LEMMA StreamFacts ==
    ASSUME TypeInv, DoneInv
    PROVE  /\ Wire \in Seq(Bytes) /\ Len(Wire) \in Nat /\ fed \in Nat /\ fed <= Len(Wire)
           /\ Done \in Seq(FrameSet) /\ Len(Done) \in Nat /\ Len(Done) <= MaxFrames
           /\ MaxFrames \in Nat /\ Start \in Nat
           /\ Len(Done) < MaxFrames =>
                 /\ NextFrame \in FrameSet /\ Len(Encoded(NextFrame)) \in Nat
                 /\ EndOf(stream, Len(Done) + 1) = Start + Len(Encoded(NextFrame))
                 /\ Start + Len(Encoded(NextFrame)) <= Len(Wire)
                 /\ \A i \in 1..Len(Encoded(NextFrame)) :
                       Wire[Start + i] = Encoded(NextFrame)[i]
           /\ Len(Done) = MaxFrames => Start = Len(Wire)
<1> DEFINE k == Len(Done)
<1>1. MaxFrames \in Nat
  BY FormatAssumption
<1>2. Done \in Seq(FrameSet)
  BY ConcatProperties DEF TypeInv, Done
<1>3. k \in Nat /\ k <= MaxFrames
  BY <1>2, LenProperties DEF DoneInv
<1>4. stream \in [1..MaxFrames -> FrameSet] /\ Wire = SentBytes(stream)
  BY BytesAreSent DEF TypeInv
<1>5. /\ SentBytes(stream) \in Seq(Bytes) /\ Len(SentBytes(stream)) = EndOf(stream, MaxFrames)
      /\ \A n \in 0..MaxFrames : EndOf(stream, n) \in Nat /\ EndOf(stream, n) <= EndOf(stream, MaxFrames)
      /\ \A n \in 1..MaxFrames :
            /\ EndOf(stream, n) = EndOf(stream, n - 1) + Len(Encoded(stream[n]))
            /\ \A i \in 1..Len(Encoded(stream[n])) :
                  SentBytes(stream)[EndOf(stream, n - 1) + i] = Encoded(stream[n])[i]
  BY <1>4, StreamIs
<1>6. Wire \in Seq(Bytes) /\ Len(Wire) \in Nat /\ Len(Wire) = EndOf(stream, MaxFrames)
  BY <1>4, <1>5, LenProperties
<1>7. fed \in Nat /\ fed <= Len(Wire)
  BY <1>6 DEF TypeInv
<1>8. Start = EndOf(stream, k) /\ NextFrame = stream[k + 1]
  BY DEF Start, NextFrame
<1> HIDE DEF k
<1>9. Start \in Nat
  BY <1>1, <1>3, <1>5, <1>8
<1>10. ASSUME k < MaxFrames
       PROVE  /\ NextFrame \in FrameSet /\ Len(Encoded(NextFrame)) \in Nat
              /\ EndOf(stream, k + 1) = Start + Len(Encoded(NextFrame))
              /\ Start + Len(Encoded(NextFrame)) <= Len(Wire)
              /\ \A i \in 1..Len(Encoded(NextFrame)) :
                    Wire[Start + i] = Encoded(NextFrame)[i]
  <2>1. k + 1 \in 1..MaxFrames /\ k + 1 \in 0..MaxFrames /\ (k + 1) - 1 = k
    BY <1>1, <1>3, <1>10
  <2>2. NextFrame \in FrameSet
    BY <1>4, <1>8, <2>1
  <2>3. Len(Encoded(NextFrame)) \in Nat
    BY <2>2, EncodedIs
  <2>4. /\ EndOf(stream, k + 1) = EndOf(stream, (k + 1) - 1) + Len(Encoded(stream[k + 1]))
        /\ \A i \in 1..Len(Encoded(stream[k + 1])) :
              SentBytes(stream)[EndOf(stream, (k + 1) - 1) + i] = Encoded(stream[k + 1])[i]
    BY <1>5, <2>1
  <2>5. EndOf(stream, k + 1) <= EndOf(stream, MaxFrames)
    BY <1>5, <2>1
  <2>6. QED
    BY <1>4, <1>6, <1>8, <2>1, <2>2, <2>3, <2>4, <2>5
<1>11. k = MaxFrames => Start = Len(Wire)
  BY <1>6, <1>8
<1>12. QED
  BY <1>1, <1>2, <1>3, <1>6, <1>7, <1>9, <1>10, <1>11 DEF k

LEMMA Lengths ==
    ASSUME TypeInv
    PROVE  /\ Len(Buf) \in Nat /\ Len(data) \in Nat /\ Len(msg) \in Nat
           /\ Offset \in Nat /\ Offset <= Len(Buf) /\ msgOffset \in Nat /\ msgOffset <= Len(msg)
           /\ (Buf = <<>> <=> Len(Buf) = 0)
<1>1. Len(Buf) \in Nat /\ Len(data) \in Nat /\ Len(msg) \in Nat
  BY LenProperties DEF TypeInv
<1>2. Buf = <<>> <=> Len(Buf) = 0
  BY EmptySeq DEF TypeInv
<1>3. QED
  BY <1>1, <1>2 DEF TypeInv

LEMMA NextBytes ==
    ASSUME TypeInv, BytesInv, DoneInv, InMessage, Len(Done) < MaxFrames, Position >= Start
    PROVE  \A i \in 1..(Len(msg) - msgOffset) :
              (Position - Start) + i <= Len(Encoded(NextFrame)) =>
                 msg[msgOffset + i] = Encoded(NextFrame)[(Position - Start) + i]
<1>1. /\ fed \in Nat /\ Start \in Nat /\ Len(Encoded(NextFrame)) \in Nat
      /\ \A i \in 1..Len(Encoded(NextFrame)) : Wire[Start + i] = Encoded(NextFrame)[i]
  BY StreamFacts
<1>2. Len(msg) \in Nat /\ msgOffset \in Nat /\ msgOffset <= Len(msg)
  BY Lengths
<1>3. Len(msg) <= fed /\ \A i \in 1..Len(msg) : msg[i] = Wire[fed - Len(msg) + i]
  BY DEF BytesInv, EndsAt
<1>4. Position = fed - (Len(msg) - msgOffset)
  BY DEF Position, Unparsed
<1> DEFINE pos == Position - Start
<1>5. pos \in Nat /\ Position = Start + pos
  BY <1>1, <1>2, <1>3, <1>4
<1>6. ASSUME NEW i \in 1..(Len(msg) - msgOffset), pos + i <= Len(Encoded(NextFrame))
      PROVE  msg[msgOffset + i] = Encoded(NextFrame)[pos + i]
  <2>1. msgOffset + i \in 1..Len(msg)
    BY <1>2
  <2>2. msg[msgOffset + i] = Wire[fed - Len(msg) + (msgOffset + i)]
    BY <1>3, <2>1
  <2>3. fed - Len(msg) + (msgOffset + i) = Start + (pos + i)
    <3>1. fed - Len(msg) + (msgOffset + i) = Position + i
      BY <1>1, <1>2, <1>4
    <3> HIDE DEF pos
    <3>2. QED
      BY <1>1, <1>5, <3>1
  <2>4. pos + i \in 1..Len(Encoded(NextFrame))
    BY <1>1, <1>5, <1>6
  <2> HIDE DEF pos
  <2>5. QED
    BY <1>1, <2>2, <2>3, <2>4
<1>7. QED
  BY <1>6

\* The bytes of a message lie in the stream.
LEMMA MessageEnds ==
    ASSUME TypeInv, BytesInv, DoneInv, InMessage
    PROVE  /\ Position = fed - (Len(msg) - msgOffset) /\ Position \in Nat
           /\ Position + (Len(msg) - msgOffset) = fed /\ fed <= Len(Wire)
<1>1. fed \in Nat /\ fed <= Len(Wire)
  BY StreamFacts
<1>2. Len(msg) \in Nat /\ msgOffset \in Nat /\ msgOffset <= Len(msg)
  BY Lengths
<1>3. Len(msg) <= fed
  BY DEF BytesInv, EndsAt
<1>4. Position = fed - (Len(msg) - msgOffset)
  BY DEF Position, Unparsed
<1>5. QED
  BY <1>1, <1>2, <1>3, <1>4

\* The next frame is the same as long as none is finished.
LEMMA SameNext ==
    ASSUME stream' = stream, Done' = Done
    PROVE  /\ NextFrame' = NextFrame /\ Start' = Start /\ Wire' = Wire
           /\ fed' = fed => (Waiting' <=> Waiting)
           /\ DoneInv => DoneInv'
BY DEF NextFrame, Start, Wire, Waiting, DoneInv

\* A frame has at least the two bytes of its header.
LEMMA AtLeastTwo == \A f \in FrameSet : Len(Encoded(f)) \in Nat /\ 2 <= Len(Encoded(f))
<1>1. ASSUME NEW f \in FrameSet PROVE Len(Encoded(f)) \in Nat /\ 2 <= Len(Encoded(f))
  <2>1. /\ Len(Encoded(f)) = Len(Header(f)) + Len(f.Payload)
        /\ Len(Header(f)) \in Nat /\ Len(Header(f)) >= 2 /\ Len(Encoded(f)) \in Nat
    BY EncodedIs
  <2>2. Len(f.Payload) \in Nat
    BY FrameType
  <2>3. QED
    BY <2>1, <2>2
<1>2. QED
  BY <1>1

-----------------------------------------------------------------------------
(* The invariant holds initially and is kept by every step.                 *)

LEMMA InitInv == Init => Inv
<1> SUFFICES ASSUME Init PROVE Inv
  OBVIOUS
<1>1. /\ <<>> \in Seq(Bytes) /\ <<>> \in Seq(FrameSet) /\ Len(<<>>) = 0
      /\ <<>> \o <<>> = <<>>
  OBVIOUS
<1>2. stream \in [1..MaxFrames -> FrameSet] /\ Done = <<>> /\ MaxFrames \in Nat
  BY <1>1, FormatAssumption DEF Init, Done
<1>3. DoneInv
  BY <1>1, <1>2 DEF DoneInv
<1>4. Wire \in Seq(Bytes)
  BY <1>2, BytesAreSent, StreamIs
<1>5. TypeInv
  <2>1. fed \in 0..Len(Wire)
    <3>1. Len(Wire) \in Nat
      BY <1>4, LenProperties
    <3>2. QED
      BY <3>1 DEF Init
  <2>2. Offset \in 0..Len(Buf) /\ msgOffset \in 0..Len(msg)
    BY <1>1 DEF Init
  <2>3. QED
    BY <1>1, <1>2, <2>1, <2>2 DEF Init, TypeInv
<1>6. BytesInv
  <2>1. EndsAt(Wire, <<>>, 0)
    BY EndsOfNothing
  <2>2. QED
    BY <2>1 DEF Init, BytesInv, InMessage
<1>7. Start = 0
  BY <1>1, <1>2, StreamIs DEF Start
<1>8. FrameInv
  <2>1. Position = 0
    <3>1. Unparsed = Len(Buf) - Offset
      BY DEF Init, Unparsed, InMessage
    <3>2. Len(Buf) = 0 /\ Offset = 0 /\ fed = 0
      BY <1>1 DEF Init
    <3>3. QED
      BY <3>1, <3>2 DEF Position
  <2>2. QED
    BY <1>7, <2>1 DEF Init, FrameInv
<1>9. Waiting
  <2>1. ASSUME Len(Done) < MaxFrames PROVE 0 < EndOf(stream, Len(Done) + 1)
    <3>1. /\ EndOf(stream, Len(Done) + 1) = Start + Len(Encoded(NextFrame))
          /\ NextFrame \in FrameSet
      BY <1>3, <1>5, <2>1, StreamFacts
    <3>2. Len(Encoded(NextFrame)) \in Nat /\ 2 <= Len(Encoded(NextFrame))
      BY <3>1, AtLeastTwo
    <3>3. QED
      BY <1>7, <3>1, <3>2
  <2>2. QED
    BY <2>1 DEF Waiting, Init
<1>10. ProgressInv
  BY <1>1, <1>9 DEF Init, ProgressInv, InMessage
<1>11. QED
  BY <1>3, <1>5, <1>6, <1>8, <1>10 DEF Inv

\* Add gives the next n bytes of the stream.
LEMMA AddStep ==
    ASSUME Inv, NEW n \in 1..Len(Wire), Add(n)
    PROVE  Inv'
<1> USE DEF parser, call
<1>1. TypeInv /\ BytesInv /\ DoneInv /\ FrameInv /\ pc = "idle"
  BY DEF Inv, Add
<1>2. /\ Wire \in Seq(Bytes) /\ Len(Wire) \in Nat /\ fed \in Nat /\ n \in Nat
      /\ fed + n <= Len(Wire)
  BY <1>1, StreamFacts DEF Add
<1>3. /\ data' \in Seq(Bytes) /\ Len(data') = n /\ EndsAt(Wire, data', fed + n)
      /\ fed' = fed + n
  BY <1>2, EndsOfSubSeq DEF Add
<1>4. Wire' = Wire /\ Done' = Done /\ stream' = stream
  BY DEF Add, Wire, Done
<1>5. NextFrame' = NextFrame /\ Start' = Start /\ DoneInv'
  BY <1>1, <1>4, SameNext
<1>6. TypeInv'
  <2>1. fed' \in 0..Len(Wire')
    BY <1>2, <1>3, <1>4
  <2>2. QED
    BY <1>1, <1>3, <1>4, <2>1 DEF Add, TypeInv
<1>7. EndsAt(Wire, Buf, fed)
  BY <1>1 DEF BytesInv
<1>8. BytesInv'
  <2>1. fed' - Len(data') = fed
    BY <1>2, <1>3
  <2>2. pc' = "loop" /\ first' = TRUE /\ Buf' = Buf
    BY DEF Add
  <2>3. EndsAt(Wire', data', fed') /\ EndsAt(Wire', Buf', fed' - Len(data'))
    BY <1>3, <1>4, <1>7, <2>1, <2>2
  <2>4. QED
    BY <2>2, <2>3 DEF BytesInv, InMessage
<1>9. FrameInv'
  <2>1. Position' = Position
    <3>1. Position = fed - (Len(Buf) - Offset)
      BY <1>1 DEF Position, Unparsed, InMessage
    <3>2. Position' = (fed + n) - ((Len(Buf) - Offset) + n)
      BY <1>3 DEF Position, Unparsed, InMessage, Add
    <3>3. Len(Buf) \in Nat /\ Offset \in Nat
      BY <1>1, Lengths
    <3>4. QED
      BY <1>2, <3>1, <3>2, <3>3
  <2>2. QED
    BY <1>1, <1>4, <1>5, <2>1 DEF FrameInv, Add
<1>10. ProgressInv'
  BY DEF ProgressInv, InMessage, Add
<1>11. QED
  BY <1>5, <1>6, <1>8, <1>9, <1>10 DEF Inv

\* A round of ParseData goes on where the last one stopped.
LEMMA StartMessageStep ==
    ASSUME Inv, StartMessage
    PROVE  Inv'
<1> USE DEF parser, call
<1>1. TypeInv /\ BytesInv /\ DoneInv /\ FrameInv /\ pc = "loop"
  BY DEF Inv, StartMessage
<1>2. /\ Len(Buf) \in Nat /\ Len(data) \in Nat
      /\ Offset \in Nat /\ Offset <= Len(Buf) /\ (Buf = <<>> <=> Len(Buf) = 0)
  BY <1>1, Lengths
<1>3. Wire' = Wire /\ Done' = Done /\ stream' = stream /\ fed' = fed
  BY DEF StartMessage, Wire, Done
<1>4. NextFrame' = NextFrame /\ Start' = Start /\ DoneInv'
  BY <1>1, <1>3, SameNext
<1>5. /\ Buf \in Seq(Bytes) /\ data \in Seq(Bytes) /\ fed \in Nat /\ first \in BOOLEAN
  BY <1>1, StreamFacts DEF TypeInv
<1>6. pc' = "header" /\ msgOffset' = 0 /\ Offset' = Offset
  BY <1>1 DEF StartMessage, BytesInv
<1>7. /\ Buf' \in Seq(Bytes) /\ Len(Buf') \in Nat /\ EndsAt(Wire, Buf', fed)
      /\ Len(Buf) <= Len(Buf')
      /\ Len(Buf') = IF Buf # <<>> /\ first THEN Len(Buf) + Len(data) ELSE Len(Buf)
  <2>1. CASE Buf # <<>> /\ first
    <3>1. Buf' = Buf \o data
      BY <2>1 DEF StartMessage
    <3>2. EndsAt(Wire, data, fed) /\ EndsAt(Wire, Buf, fed - Len(data))
      BY <1>1, <2>1 DEF BytesInv
    <3>3. Buf \o data \in Seq(Bytes) /\ Len(Buf \o data) = Len(Buf) + Len(data)
          /\ EndsAt(Wire, Buf \o data, fed)
      BY <1>5, <3>2, EndsOfConcat
    <3>4. QED
      BY <1>2, <2>1, <3>1, <3>3
  <2>2. CASE ~(Buf # <<>> /\ first)
    <3>1. Buf' = Buf
      BY <2>2 DEF StartMessage
    <3>2. CASE Buf = <<>>
      BY <1>2, <1>5, <2>2, <3>1, <3>2, EndsOfNothing
    <3>3. CASE Buf # <<>>
      <4>1. EndsAt(Wire, Buf, fed)
        BY <1>1, <2>2, <3>3 DEF BytesInv
      <4>2. QED
        BY <1>2, <1>5, <2>2, <3>1, <4>1
    <3>4. QED
      BY <3>2, <3>3
  <2>3. QED
    BY <2>1, <2>2
<1>8. /\ msg' \in Seq(Bytes) /\ Len(msg') \in Nat /\ EndsAt(Wire, msg', fed)
      /\ Buf # <<>> => Len(msg') = Len(Buf') - Offset
      /\ Buf = <<>> => Len(msg') = Len(data) /\ first
  <2>1. CASE Buf # <<>>
    <3>1. msg' = SubSeq(Buf', Offset + 1, Len(Buf'))
      BY <2>1 DEF StartMessage
    <3>2. Offset \in 0..Len(Buf')
      BY <1>2, <1>7
    <3>3. QED
      BY <1>2, <1>5, <1>7, <2>1, <3>1, <3>2, EndsOfRest
  <2>2. CASE Buf = <<>>
    <3>1. msg' = data
      BY <2>2 DEF StartMessage
    <3>2. QED
      BY <1>1, <1>2, <1>5, <2>2, <3>1 DEF BytesInv
  <2>3. QED
    BY <2>1, <2>2
<1>9. Buf = <<>> <=> Buf' = <<>>
  <2>1. Buf' = <<>> <=> Len(Buf') = 0
    BY <1>7, EmptySeq
  <2>2. QED
    BY <1>2, <1>7, <2>1
<1>10. TypeInv'
  <2>1. Offset' \in 0..Len(Buf') /\ msgOffset' \in 0..Len(msg')
    BY <1>2, <1>6, <1>7, <1>8
  <2>2. QED
    BY <1>1, <1>3, <1>6, <1>7, <1>8, <2>1 DEF StartMessage, TypeInv
<1>11. BytesInv'
  <2>1. EndsAt(Wire, data, fed) /\ data' = data
    BY <1>1 DEF BytesInv, StartMessage
  <2>2. Buf' # <<>> => Len(msg') - msgOffset' = Len(Buf') - Offset'
    BY <1>6, <1>8, <1>9
  <2>3. QED
    BY <1>3, <1>6, <1>7, <1>8, <2>1, <2>2 DEF BytesInv, InMessage
<1>12. FrameInv'
  <2>1. Position' = Position
    <3>1. Position' = fed - (Len(msg') - 0)
      BY <1>3, <1>6 DEF Position, Unparsed, InMessage
    <3>2. CASE Buf = <<>>
      <4>1. Position = fed - ((0 - 0) + Len(data))
        BY <1>1, <1>2, <1>8, <3>2 DEF Position, Unparsed, InMessage
      <4>2. QED
        BY <1>2, <1>5, <1>8, <3>1, <3>2, <4>1
    <3>3. CASE Buf # <<>> /\ first
      <4>1. Position = fed - ((Len(Buf) - Offset) + Len(data))
        BY <1>1, <3>3 DEF Position, Unparsed, InMessage
      <4>2. Len(msg') = (Len(Buf) + Len(data)) - Offset
        BY <1>7, <1>8, <3>3
      <4>3. QED
        BY <1>2, <1>5, <3>1, <4>1, <4>2
    <3>4. CASE Buf # <<>> /\ ~first
      <4>1. Position = fed - (Len(Buf) - Offset)
        BY <1>1, <3>4 DEF Position, Unparsed, InMessage
      <4>2. Len(msg') = Len(Buf) - Offset
        BY <1>7, <1>8, <3>4
      <4>3. QED
        BY <1>2, <1>5, <3>1, <4>1, <4>2
    <3>5. QED
      BY <3>2, <3>3, <3>4
  <2>2. QED
    BY <1>1, <1>3, <1>4, <2>1 DEF FrameInv, StartMessage
<1>13. ProgressInv'
  BY <1>6 DEF ProgressInv, InMessage, StartMessage
<1>14. QED
  BY <1>4, <1>10, <1>11, <1>12, <1>13 DEF Inv

\* How the parsing of a message moves over n bytes of it, whether it goes on after them or
\* keeps the rest for the next call.
LEMMA Advance ==
    ASSUME TypeInv, BytesInv, DoneInv, InMessage, NEW n \in 0..(Len(msg) - msgOffset),
           UNCHANGED <<stream, fed, received, overlapped, call, msg>>,
           Frames' \in Seq(FrameSet),
           msgOffset' = msgOffset + n, Offset' = IF Buf # <<>> THEN Offset + n ELSE Offset,
           \/ pc' = "stage" /\ Buf' = Buf
           \/ pc' = "check" /\ Buf' = IF Buf = <<>> THEN SubSeq(msg, msgOffset' + 1, Len(msg))
                                      ELSE Buf
    PROVE  TypeInv' /\ BytesInv' /\ Position' = Position + n
<1> USE DEF call
<1>1. /\ Len(Buf) \in Nat /\ Len(msg) \in Nat /\ (Buf = <<>> <=> Len(Buf) = 0)
      /\ Offset \in Nat /\ Offset <= Len(Buf) /\ msgOffset \in Nat /\ msgOffset <= Len(msg)
  BY Lengths
<1>2. fed \in Nat /\ Position = fed - (Len(msg) - msgOffset)
  BY StreamFacts, MessageEnds
<1>3. Wire' = Wire
  BY DEF Wire
<1>4. /\ EndsAt(Wire, data, fed) /\ EndsAt(Wire, Buf, fed) /\ EndsAt(Wire, msg, fed)
      /\ Buf # <<>> => Len(msg) - msgOffset = Len(Buf) - Offset
  BY DEF BytesInv, InMessage
<1>5. n \in Nat /\ n <= Len(msg) - msgOffset /\ msgOffset' \in 0..Len(msg)
  BY <1>1
<1>6. /\ Buf' \in Seq(Bytes) /\ Offset' \in 0..Len(Buf') /\ EndsAt(Wire, Buf', fed)
      /\ pc' = "check" => Len(Buf') - Offset' = Len(msg) - msgOffset - n
      /\ Buf' # <<>> /\ pc' = "stage" =>  Len(msg) - msgOffset' = Len(Buf') - Offset'
  <2>1. CASE Buf # <<>>
    <3>1. Buf' = Buf /\ Offset' = Offset + n
      BY <2>1
    <3>2. Offset + n <= Len(Buf) /\ Offset + n \in Nat
      BY <1>1, <1>4, <1>5, <2>1
    <3>3. Offset' \in 0..Len(Buf')
      BY <1>1, <3>1, <3>2
    <3>4. /\ Len(Buf') - Offset' = Len(msg) - msgOffset - n
          /\ Len(msg) - msgOffset' = Len(Buf') - Offset'
      BY <1>1, <1>4, <1>5, <2>1, <3>1
    <3>5. Buf' \in Seq(Bytes) /\ EndsAt(Wire, Buf', fed)
      BY <1>4, <3>1 DEF TypeInv
    <3>6. QED
      BY <3>3, <3>4, <3>5
  <2>2. CASE Buf = <<>> /\ pc' = "stage"
    BY <1>1, <1>4, <2>2 DEF TypeInv
  <2>3. CASE Buf = <<>> /\ pc' = "check"
    <3>1. Buf' = SubSeq(msg, msgOffset' + 1, Len(msg)) /\ Offset' = 0
      BY <1>1, <2>3
    <3>2. msg \in Seq(Bytes)
      BY DEF TypeInv
    <3>3. /\ Buf' \in Seq(Bytes) /\ Len(Buf') = Len(msg) - msgOffset'
          /\ EndsAt(Wire, Buf', fed)
      BY <1>2, <1>4, <1>5, <3>1, <3>2, EndsOfRest
    <3>4. Offset' \in 0..Len(Buf') /\ Len(Buf') - Offset' = Len(msg) - msgOffset - n
      <4> DEFINE b == Len(Buf')
                 m == Len(msg)
                 o == msgOffset
      <4>1. b \in Nat /\ b = m - (o + n) /\ m \in Nat /\ o \in Nat
        BY <1>1, <3>3, LenProperties
      <4> HIDE DEF b, m, o
      <4>2. 0 \in 0..b /\ b - 0 = m - o - n
        BY <1>5, <4>1
      <4>3. QED
        BY <3>1, <4>2 DEF b, m, o
    <3>5. QED
      BY <2>3, <3>3, <3>4
  <2>4. QED
    BY <2>1, <2>2, <2>3
<1>7. TypeInv'
  <2>1. msgOffset' \in 0..Len(msg')
    BY <1>5
  <2>2. QED
    BY <1>3, <1>6, <2>1 DEF TypeInv
<1>8. BytesInv'
  <2>1. EndsAt(Wire', data', fed') /\ EndsAt(Wire', msg', fed') /\ EndsAt(Wire', Buf', fed')
    BY <1>3, <1>4, <1>6
  <2>2. InMessage' => pc' = "stage"
    BY DEF InMessage
  <2>3. QED
    BY <1>6, <2>1, <2>2 DEF BytesInv
<1>9. Position' = Position + n
  <2>1. Unparsed' = Len(msg) - msgOffset - n
    <3>1. CASE pc' = "check"
      BY <1>6, <3>1 DEF Unparsed, InMessage
    <3>2. CASE pc' = "stage"
      <4>1. Unparsed' = Len(msg') - msgOffset'
        BY <3>2 DEF Unparsed, InMessage
      <4>2. QED
        BY <1>1, <1>5, <4>1
    <3>3. QED
      BY <3>1, <3>2
  <2>2. Position' = fed - Unparsed'
    BY DEF Position
  <2>3. QED
    BY <1>1, <1>2, <1>5, <2>1, <2>2
<1>10. QED
  BY <1>7, <1>8, <1>9

\* A message that ends before the part of the next frame being read.
LEMMA NotYet ==
    ASSUME TypeInv, BytesInv, DoneInv, InMessage, NEW pos \in Nat, NEW d \in Nat,
           Position = Start + pos, Len(msg) - msgOffset < d,
           Len(Done) < MaxFrames => pos + d <= Len(Encoded(NextFrame))
    PROVE  Waiting
<1>1. ASSUME Len(Done) < MaxFrames PROVE fed < EndOf(stream, Len(Done) + 1)
  <2>1. /\ Start \in Nat /\ Len(Encoded(NextFrame)) \in Nat
        /\ EndOf(stream, Len(Done) + 1) = Start + Len(Encoded(NextFrame))
    BY <1>1, StreamFacts
  <2>2. /\ Position + (Len(msg) - msgOffset) = fed /\ fed \in Nat
        /\ Len(msg) \in Nat /\ msgOffset \in Nat
    BY MessageEnds, StreamFacts, Lengths
  <2>3. QED
    BY <1>1, <2>1, <2>2
<1>2. QED
  BY <1>1 DEF Waiting

\* Only the first stage has no frame.
LEMMA FrameOfStage ==
    ASSUME TypeInv, DoneInv, FrameInv
    PROVE  (Stage = "start") <=> (CurrentFrame = NoFrame)
<1>1. CASE Stage = "start"
  BY <1>1 DEF FrameInv
<1>2. CASE Stage # "start"
  <2>1. Len(Done) < MaxFrames
    BY <1>2 DEF FrameInv
  <2>2. NextFrame \in FrameSet
    BY <2>1, StreamFacts
  <2>3. NextFrame.Opcode \in 0..255
    BY <2>2, FrameType DEF Bytes
  <2>4. CurrentFrame.Opcode = NextFrame.Opcode
    BY <1>2 DEF FrameInv, Begun
  <2>5. NoFrame.Opcode = -1
    BY DEF NoFrame
  <2>6. QED
    BY <1>2, <2>3, <2>4, <2>5
<1>3. QED
  BY <1>1, <1>2

\* A step of a message that keeps the next frame: the parts of the invariant it cannot disturb.
LEMMA SameFrame ==
    ASSUME Inv, InMessage, UNCHANGED <<stream, fed, received, overlapped, call, msg, Frames>>,
           \/ pc' = "stage"
           \/ pc' = "check" /\ Waiting
    PROVE  /\ Done' = Done /\ NextFrame' = NextFrame /\ Start' = Start
           /\ DoneInv' /\ ProgressInv'
<1> USE DEF call
<1>1. Done' = Done
  BY DEF Done
<1>2. NextFrame' = NextFrame /\ Start' = Start /\ DoneInv' /\ (Waiting' <=> Waiting)
  BY <1>1, SameNext DEF Inv
<1>3. ProgressInv'
  <2>1. CASE pc' = "stage"
    BY <2>1 DEF Inv, ProgressInv, InMessage
  <2>2. CASE pc' = "check" /\ Waiting
    BY <1>2, <2>2 DEF ProgressInv, InMessage
  <2>3. QED
    BY <2>1, <2>2
<1>4. QED
  BY <1>1, <1>2, <1>3

\* Waiting for more bytes keeps the stage and the position.
LEMMA WaitStep ==
    ASSUME Inv, InMessage, Waiting, WaitForMore,
           UNCHANGED <<stream, fed, received, overlapped, call, msg>>
    PROVE  Inv'
<1>1. TypeInv /\ BytesInv /\ DoneInv /\ FrameInv
  BY DEF Inv
<1>2. UNCHANGED <<Offset, CurrentFrame, SizeLen, PayloadLen, Stage, Frames, msgOffset>>
      /\ pc' = "check" /\ Buf' = IF Buf = <<>> THEN SubSeq(msg, msgOffset + 1, Len(msg)) ELSE Buf
  BY DEF WaitForMore, Bufferize
<1>3. /\ Len(msg) \in Nat /\ msgOffset \in Nat /\ msgOffset <= Len(msg) /\ Offset \in Nat
      /\ fed \in Nat
  BY <1>1, Lengths, StreamFacts
<1>4. Position \in Nat
  BY <1>1, MessageEnds
<1>5. 0 \in 0..(Len(msg) - msgOffset) /\ msgOffset' = msgOffset + 0
      /\ Offset' = IF Buf # <<>> THEN Offset + 0 ELSE Offset
  BY <1>2, <1>3
<1>6. Frames' \in Seq(FrameSet)
  BY <1>1, <1>2 DEF TypeInv
<1>7. TypeInv' /\ BytesInv' /\ Position' = Position + 0
  BY <1>1, <1>2, <1>5, <1>6, Advance
<1>8. Position' = Position
  BY <1>4, <1>7
<1>9. Done' = Done /\ NextFrame' = NextFrame /\ Start' = Start /\ DoneInv' /\ ProgressInv'
  BY <1>2, SameFrame
<1>10. FrameInv'
  BY <1>1, <1>2, <1>8, <1>9 DEF FrameInv
<1>11. QED
  BY <1>7, <1>9, <1>10 DEF Inv

\* Reading n bytes of a message on to the next stage, as long as the frame is not finished.
LEMMA Consumed ==
    ASSUME Inv, InMessage, NEW n \in 0..(Len(msg) - msgOffset), Consume(n), pc' = "stage",
           UNCHANGED <<stream, fed, received, overlapped, call, msg, Buf, Frames>>
    PROVE  /\ TypeInv' /\ BytesInv' /\ DoneInv' /\ ProgressInv' /\ Position' = Position + n
           /\ Done' = Done /\ NextFrame' = NextFrame /\ Start' = Start
<1>1. TypeInv /\ BytesInv /\ DoneInv
  BY DEF Inv
<1>2. msgOffset' = msgOffset + n /\ Offset' = IF Buf # <<>> THEN Offset + n ELSE Offset
  BY DEF Consume
<1>3. Frames' \in Seq(FrameSet)
  BY <1>1 DEF TypeInv
<1>4. TypeInv' /\ BytesInv' /\ Position' = Position + n
  BY <1>1, <1>2, <1>3, Advance
<1>5. Done' = Done /\ NextFrame' = NextFrame /\ Start' = Start /\ DoneInv' /\ ProgressInv'
  BY SameFrame
<1>6. QED
  BY <1>4, <1>5

\* The header: its first two bytes say which parts follow.
LEMMA ReadHeaderStep ==
    ASSUME Inv, ReadHeader
    PROVE  Inv'
<1> USE DEF parser
<1>1. TypeInv /\ BytesInv /\ DoneInv /\ FrameInv /\ InMessage /\ msgOffset = 0
  BY DEF Inv, ReadHeader, InMessage, BytesInv
<1>2. UNCHANGED <<stream, fed, received, overlapped, call, msg>>
  BY DEF ReadHeader
<1>3. /\ Len(msg) \in Nat /\ Offset \in Nat /\ fed \in Nat /\ Start \in Nat /\ MaxFrames \in Nat
      /\ Len(Done) \in Nat /\ Len(Done) <= MaxFrames
  BY <1>1, Lengths, StreamFacts
<1>4. Position \in Nat /\ Position + (Len(msg) - 0) = fed /\ fed <= Len(Wire)
  BY <1>1, MessageEnds
<1>5. CASE CurrentFrame # NoFrame /\ pc' = "stage" /\ UNCHANGED <<parser, Frames, msgOffset>>
  <2>1. 0 \in 0..(Len(msg) - msgOffset) /\ Consume(0)
    <3>1. msgOffset' = msgOffset + 0 /\ Offset' = IF Buf # <<>> THEN Offset + 0 ELSE Offset
      BY <1>1, <1>3, <1>5
    <3>2. QED
      BY <1>1, <1>3, <3>1 DEF Consume
  <2>2. /\ TypeInv' /\ BytesInv' /\ DoneInv' /\ ProgressInv' /\ Position' = Position + 0
        /\ Done' = Done /\ NextFrame' = NextFrame /\ Start' = Start
    BY <1>1, <1>2, <1>5, <2>1, Consumed
  <2>3. Position' = Position
    BY <1>4, <2>2
  <2>4. FrameInv'
    BY <1>1, <1>5, <2>2, <2>3 DEF FrameInv
  <2>5. QED
    BY <2>2, <2>4 DEF Inv
<1>6. CASE CurrentFrame = NoFrame
  <2>1. /\ Stage = "start" /\ Position = Start + 0 /\ SizeLen = 0 /\ PayloadLen = 0
    BY <1>1, <1>3, <1>6, FrameOfStage DEF FrameInv
  <2>2. Len(Done) < MaxFrames =>
           /\ NextFrame \in FrameSet /\ Len(Encoded(NextFrame)) \in Nat
           /\ 2 <= Len(Encoded(NextFrame)) /\ 0 + 2 <= Len(Encoded(NextFrame))
    <3>1. SUFFICES ASSUME Len(Done) < MaxFrames
                   PROVE  /\ NextFrame \in FrameSet /\ Len(Encoded(NextFrame)) \in Nat
                          /\ 2 <= Len(Encoded(NextFrame))
      OBVIOUS
    <3>2. NextFrame \in FrameSet
      BY <1>1, <3>1, StreamFacts
    <3>3. \A f \in FrameSet : Len(Encoded(f)) \in Nat /\ 2 <= Len(Encoded(f))
      BY AtLeastTwo
    <3>4. QED
      BY <3>2, <3>3
  <2>3. CASE Len(msg) < 2 /\ WaitForMore
    <3>1. Waiting
      BY <1>1, <1>3, <2>1, <2>2, <2>3, NotYet
    <3>2. QED
      BY <1>1, <1>2, <2>3, <3>1, WaitStep
  <2>4. CASE Len(msg) >= 2 /\ StartFrame
    <3> DEFINE f == NextFrame
    <3>1. Len(Done) < MaxFrames
      <4>1. Len(Done) # MaxFrames
        BY <1>1, <1>3, <1>4, <2>1, <2>4, StreamFacts
      <4>2. QED
        BY <1>3, <4>1
    <3>2. f \in FrameSet /\ 2 <= Len(Encoded(f)) /\ Len(Encoded(f)) \in Nat
      BY <2>2, <3>1
    <3>3. msg[1] = Encoded(f)[1] /\ msg[2] = Encoded(f)[2]
      <4>1. \A i \in 1..(Len(msg) - msgOffset) :
               (Position - Start) + i <= Len(Encoded(NextFrame)) =>
                  msg[msgOffset + i] = Encoded(NextFrame)[(Position - Start) + i]
        BY <1>1, <1>3, <2>1, <3>1, NextBytes
      <4>2. 1 \in 1..(Len(msg) - msgOffset) /\ 2 \in 1..(Len(msg) - msgOffset)
        BY <1>1, <1>3, <2>4
      <4>3. Position - Start = 0
        BY <1>3, <2>1
      <4>4. /\ (Position - Start) + 1 = 1 /\ (Position - Start) + 2 = 2
            /\ msgOffset + 1 = 1 /\ msgOffset + 2 = 2
        BY <1>1, <4>3
      <4>5. 1 <= Len(Encoded(f)) /\ 2 <= Len(Encoded(f))
        BY <3>2
      <4> HIDE DEF f
      <4>6. QED
        BY <4>1, <4>2, <4>4, <4>5 DEF f
    <3>4. /\ f.IsMasked \in BOOLEAN /\ SizeCode(f) \in 0..127 /\ f.Opcode \in Bytes
          /\ Len(f.Payload) \in Nat /\ SizeWidth(f) \in {0, 2, 8}
      BY <3>2, FrameType
    <3>5. msg[1] = f.Opcode /\ msg[2] = (IF f.IsMasked THEN MaskBit ELSE 0) + SizeCode(f)
      BY <3>2, <3>3, EncodedIs
    <3>6. /\ msg[2] % MaskBit = SizeCode(f)
          /\ (msg[2] >= MaskBit) = f.IsMasked
      <4> DEFINE c == SizeCode(f)
                 m == msg[2]
      <4>1. c \in 0..127
        BY <3>4
      <4>2. m = (IF f.IsMasked THEN 128 ELSE 0) + c
        BY <3>5 DEF MaskBit
      <4> HIDE DEF c, m
      <4>3. CASE f.IsMasked
        <5>1. m = 128 + c
          BY <4>2, <4>3
        <5>2. m % 128 = c /\ m >= 128
          BY <4>1, <5>1
        <5>3. QED
          BY <4>3, <5>2 DEF MaskBit, c, m
      <4>4. CASE ~f.IsMasked
        <5>1. m = c
          BY <4>1, <4>2, <4>4
        <5>2. m % 128 = c /\ ~(m >= 128)
          BY <4>1, <5>1
        <5>3. (m >= MaskBit) = FALSE
          BY <5>2 DEF MaskBit
        <5>4. QED
          BY <3>4, <4>4, <5>2, <5>3 DEF MaskBit, c, m
      <4>5. QED
        BY <4>3, <4>4
    <3>7. /\ (SizeCode(f) = Escape + 1) <=> (SizeWidth(f) = 8)
          /\ (SizeCode(f) = Escape) <=> (SizeWidth(f) = 2)
          /\ SizeWidth(f) = 0 => SizeCode(f) = Len(f.Payload)
      BY <3>4, FormatAssumption DEF SizeCode, SizeWidth
    <3>8. /\ CurrentFrame' = [Opcode |-> msg[1], IsMasked |-> msg[2] >= MaskBit,
                              Mask |-> <<>>, Payload |-> <<>>]
          /\ SizeLen' = CASE SizeCode(f) = Escape + 1 -> 8
                          [] SizeCode(f) = Escape -> 2
                          [] OTHER -> SizeLen
          /\ PayloadLen' = IF SizeCode(f) \in {Escape, Escape + 1} THEN PayloadLen
                           ELSE SizeCode(f)
          /\ Stage' = IF SizeLen' > 0 THEN "payload_size" ELSE "mask_key"
          /\ Consume(2) /\ pc' = "stage" /\ UNCHANGED <<Buf, Frames>>
      <4> HIDE DEF f
      <4>1. QED
        BY <2>4, <3>6 DEF StartFrame
    <3>9. CurrentFrame' = Begun(f)
      BY <3>5, <3>6, <3>8 DEF Begun
    <3> HIDE DEF f
    <3>10. /\ SizeLen' = SizeWidth(f)
           /\ PayloadLen' = IF SizeWidth(f) = 0 THEN Len(f.Payload) ELSE 0
           /\ Stage' = IF SizeWidth(f) = 0 THEN "mask_key" ELSE "payload_size"
      <4>1. CASE SizeWidth(f) = 8
        BY <2>1, <3>7, <3>8, <4>1
      <4>2. CASE SizeWidth(f) = 2
        <5>1. SizeCode(f) = Escape /\ SizeCode(f) # Escape + 1
          BY <3>7, <4>2
        <5>2. QED
          BY <2>1, <3>8, <4>2, <5>1
      <4>3. CASE SizeWidth(f) = 0
        <5>1. SizeCode(f) # Escape /\ SizeCode(f) # Escape + 1 /\ SizeCode(f) = Len(f.Payload)
          BY <3>7, <4>3
        <5>2. QED
          BY <2>1, <3>8, <4>3, <5>1
      <4>4. QED
        BY <3>4, <4>1, <4>2, <4>3
    <3>11. 2 \in 0..(Len(msg) - msgOffset)
      BY <1>1, <1>3, <2>4
    <3>12. /\ TypeInv' /\ BytesInv' /\ DoneInv' /\ ProgressInv' /\ Position' = Position + 2
           /\ Done' = Done /\ NextFrame' = NextFrame /\ Start' = Start
      BY <1>1, <1>2, <3>8, <3>11, Consumed
    <3>13. Position' = Start + 2 /\ Position' = Start + 2 + 0
      BY <1>3, <2>1, <3>12
    <3>14. FrameInv'
      <4>1. CASE SizeWidth(f) = 0
        BY <3>1, <3>9, <3>10, <3>12, <3>13, <4>1 DEF FrameInv, f
      <4>2. CASE SizeWidth(f) # 0
        BY <3>1, <3>9, <3>10, <3>12, <3>13, <4>2 DEF FrameInv, f
      <4>3. QED
        BY <4>1, <4>2
    <3>15. QED
      BY <3>12, <3>14 DEF Inv
  <2>5. QED
    BY <1>6, <2>3, <2>4 DEF ReadHeader
<1>7. QED
  BY <1>5, <1>6 DEF ReadHeader

\* What the next n bytes of a message are in the frame they belong to.
LEMMA Taken ==
    ASSUME TypeInv, BytesInv, DoneInv, InMessage, Len(Done) < MaxFrames,
           NEW pos \in Nat, Position = Start + pos, NEW n \in 0..(Len(msg) - msgOffset),
           pos + n <= Len(Encoded(NextFrame))
    PROVE  /\ SubSeq(msg, msgOffset + 1, msgOffset + n) \in Seq(Bytes)
           /\ Len(SubSeq(msg, msgOffset + 1, msgOffset + n)) = n
           /\ \A i \in 1..n :
                 SubSeq(msg, msgOffset + 1, msgOffset + n)[i] = Encoded(NextFrame)[pos + i]
<1> DEFINE o == msgOffset
           L == Len(msg)
           q == SubSeq(msg, o + 1, o + n)
<1>1. /\ L \in Nat /\ o \in Nat /\ o <= L /\ n \in Nat /\ o + n <= L
      /\ Start \in Nat /\ Len(Encoded(NextFrame)) \in Nat
  <2>1. L \in Nat /\ o \in Nat /\ o <= L
    BY Lengths
  <2>2. n \in 0..(L - o)
    OBVIOUS
  <2>3. Start \in Nat /\ Len(Encoded(NextFrame)) \in Nat
    BY StreamFacts
  <2> HIDE DEF L, o
  <2>4. n \in Nat /\ o + n <= L
    BY <2>1, <2>2
  <2>5. QED
    BY <2>1, <2>3, <2>4
<1>2. msg \in Seq(Bytes) /\ \A i \in 1..L : msg[i] \in Bytes
  BY ElementOfSeq DEF TypeInv
<1>3. \A i \in (o + 1)..(o + n) : msg[i] \in Bytes
  BY <1>1, <1>2
<1>4. \A i \in 1..(L - o) :
         (Position - Start) + i <= Len(Encoded(NextFrame)) =>
            msg[o + i] = Encoded(NextFrame)[(Position - Start) + i]
  BY <1>1, NextBytes
<1>5. Position - Start = pos
  BY <1>1
<1> HIDE DEF o, L
<1>6. /\ q \in Seq(Bytes)
      /\ Len(q) = IF o + 1 <= o + n THEN (o + n) - (o + 1) + 1 ELSE 0
      /\ \A i \in 1..((o + n) - (o + 1) + 1) : q[i] = msg[(o + 1) + i - 1]
  BY <1>1, <1>3, SubSeqProperties
<1> HIDE DEF q
<1>7. Len(q) = n
  BY <1>1, <1>6
<1>8. ASSUME NEW i \in 1..n PROVE q[i] = Encoded(NextFrame)[pos + i]
  <2>1. i \in 1..((o + n) - (o + 1) + 1) /\ (o + 1) + i - 1 = o + i /\ i \in 1..(L - o)
    BY <1>1
  <2>2. q[i] = msg[o + i]
    BY <1>6, <2>1
  <2>3. pos + i <= Len(Encoded(NextFrame))
    BY <1>1
  <2>4. QED
    BY <1>4, <1>5, <2>1, <2>2, <2>3
<1>9. QED
  BY <1>6, <1>7, <1>8 DEF q, o

\* The extended size is the size of the payload.
LEMMA ReadPayloadSizeStep ==
    ASSUME Inv, ReadPayloadSize
    PROVE  Inv'
<1> DEFINE f == NextFrame
           w == SizeWidth(f)
<1>1. TypeInv /\ BytesInv /\ DoneInv /\ FrameInv /\ InMessage /\ Stage = "payload_size"
  BY DEF Inv, ReadPayloadSize, InMessage
<1>2. /\ UNCHANGED <<stream, fed, received, overlapped, call, msg>>
  BY DEF ReadPayloadSize
<1>3. /\ Len(msg) \in Nat /\ msgOffset \in Nat /\ msgOffset <= Len(msg) /\ Start \in Nat
  BY <1>1, Lengths, StreamFacts
<1>4. /\ CurrentFrame = Begun(f) /\ Position = Start + 2 /\ SizeLen = w /\ SizeLen # 0
      /\ PayloadLen = 0 /\ Len(Done) < MaxFrames
  BY <1>1 DEF FrameInv
<1>5. f \in FrameSet
  BY <1>1, <1>4, StreamFacts
<1>6. /\ w \in {2, 8} /\ Len(f.Mask) \in {0, 4} /\ Len(f.Payload) \in Nat
      /\ RestOf(Len(f.Payload))[w] = 0
  BY <1>4, <1>5, FrameType
<1>7. /\ Len(Encoded(f)) \in Nat /\ 2 + w <= Len(Encoded(f))
      /\ \A i \in 1..w : Encoded(f)[2 + i] = Digits(Len(f.Payload), w)[i]
  <2>1. /\ Len(Encoded(f)) \in Nat /\ Len(Header(f)) = 2 + w + Len(f.Mask)
        /\ Len(Encoded(f)) = Len(Header(f)) + Len(f.Payload)
        /\ \A i \in 1..w : Encoded(f)[2 + i] = Digits(Len(f.Payload), w)[i]
    BY <1>5, EncodedIs
  <2>2. 2 + w <= Len(Encoded(f))
    <3> DEFINE e == Len(Encoded(f))
               m == Len(f.Mask)
               p == Len(f.Payload)
    <3>1. e = (2 + w + m) + p /\ m \in Nat /\ p \in Nat /\ w \in Nat
      BY <1>6, <2>1
    <3> HIDE DEF e, m, p, w
    <3>2. 2 + w <= e
      BY <3>1
    <3>3. QED
      BY <3>2 DEF e
  <2>3. QED
    BY <2>1, <2>2
<1> HIDE DEF w
<1>8. CASE Len(msg) - msgOffset < SizeLen /\ WaitForMore
  <2>1. Position = Start + 2 /\ 2 + w <= Len(Encoded(NextFrame))
    BY <1>4, <1>7
  <2>2. w \in Nat /\ Len(msg) - msgOffset < w
    BY <1>4, <1>6, <1>8
  <2>3. Waiting
    BY <1>1, <2>1, <2>2, NotYet
  <2>4. QED
    BY <1>1, <1>2, <1>8, <2>3, WaitStep
<1>9. CASE /\ Len(msg) - msgOffset >= SizeLen
           /\ PayloadLen' = Value(SubSeq(msg, msgOffset + 1, msgOffset + SizeLen))
           /\ Stage' = "mask_key" /\ Consume(SizeLen) /\ SizeLen' = 0
           /\ UNCHANGED <<Buf, CurrentFrame, Frames, pc>>
  <2> DEFINE q == SubSeq(msg, msgOffset + 1, msgOffset + w)
  <2>1. w \in 0..(Len(msg) - msgOffset) /\ w \in 0..8
    BY <1>3, <1>4, <1>6, <1>9
  <2>2. q \in Seq(Bytes) /\ Len(q) = w /\ \A i \in 1..w : q[i] = Encoded(f)[2 + i]
    BY <1>1, <1>4, <1>7, <2>1, Taken
  <2>3. PayloadLen' = Len(f.Payload)
    <3>1. \A i \in 1..w : q[i] = Digits(Len(f.Payload), w)[i]
      BY <1>7, <2>2
    <3> HIDE DEF q
    <3>2. Value(q) = Len(f.Payload)
      BY <1>6, <2>1, <2>2, <3>1, ValueOfDigits
    <3>3. QED
      BY <1>4, <1>9, <3>2 DEF q
  <2>4. pc' = "stage"
    BY <1>9 DEF ReadPayloadSize
  <2>5. /\ TypeInv' /\ BytesInv' /\ DoneInv' /\ ProgressInv' /\ Position' = Position + w
        /\ Done' = Done /\ NextFrame' = NextFrame /\ Start' = Start
    BY <1>1, <1>2, <1>4, <1>9, <2>1, <2>4, Consumed
  <2>6. Position' = Start + 2 + w
    BY <1>4, <2>5
  <2>7. FrameInv'
    BY <1>4, <1>9, <2>3, <2>5, <2>6 DEF FrameInv, w
  <2>8. QED
    BY <2>5, <2>7 DEF Inv
<1>10. QED
  BY <1>8, <1>9 DEF ReadPayloadSize, Leftover

\* The mask is the mask of the frame.
LEMMA ReadMaskKeyStep ==
    ASSUME Inv, ReadMaskKey
    PROVE  Inv'
<1> DEFINE f == NextFrame
           pos == 2 + SizeWidth(f)
           q == SubSeq(msg, msgOffset + 1, msgOffset + 4)
<1>1. TypeInv /\ BytesInv /\ DoneInv /\ FrameInv /\ InMessage /\ Stage = "mask_key"
  BY DEF Inv, ReadMaskKey, InMessage
<1>2. UNCHANGED <<stream, fed, received, overlapped, call, msg>>
  BY DEF ReadMaskKey
<1>3. /\ Len(msg) \in Nat /\ msgOffset \in Nat /\ msgOffset <= Len(msg)
      /\ Start \in Nat /\ Offset \in Nat
  BY <1>1, Lengths, StreamFacts
<1>4. /\ CurrentFrame = Begun(f) /\ Position = Start + 2 + SizeWidth(f)
      /\ SizeLen = 0 /\ PayloadLen = Len(f.Payload) /\ Len(Done) < MaxFrames
  BY <1>1 DEF FrameInv
<1>5. f \in FrameSet
  BY <1>1, <1>4, StreamFacts
<1>6. /\ SizeWidth(f) \in {0, 2, 8} /\ f.IsMasked \in BOOLEAN /\ Len(f.Payload) \in Nat
      /\ Len(f.Mask) = (IF f.IsMasked THEN 4 ELSE 0) /\ f.Mask \in Seq(Bytes)
  BY <1>5, FrameType
<1>7. pos \in Nat /\ Position = Start + pos
  BY <1>3, <1>4, <1>6
<1>8. CurrentFrame.IsMasked = f.IsMasked
  BY <1>4 DEF Begun
<1>9. /\ Len(Encoded(f)) \in Nat /\ Len(Header(f)) = pos + Len(f.Mask)
      /\ Len(Encoded(f)) = Len(Header(f)) + Len(f.Payload)
      /\ \A i \in 1..Len(f.Mask) : Encoded(f)[pos + i] = f.Mask[i]
  BY <1>5, EncodedIs
<1> HIDE DEF pos
<1>10. f.IsMasked => pos + 4 <= Len(Encoded(f))
  <2>1. SUFFICES ASSUME f.IsMasked PROVE pos + 4 <= Len(Encoded(f))
    OBVIOUS
  <2> DEFINE e == Len(Encoded(f))
             p == Len(f.Payload)
  <2>2. Len(f.Mask) = 4 /\ Len(Header(f)) = pos + 4
    BY <1>6, <1>9, <2>1
  <2>3. e = (pos + 4) + p /\ p \in Nat
    BY <1>6, <1>9, <2>2
  <2> HIDE DEF e, p
  <2>4. pos + 4 <= e
    BY <1>7, <2>3
  <2>5. QED
    BY <2>4 DEF e
<1>11. CASE CurrentFrame.IsMasked /\ Len(msg) - msgOffset < 4 /\ WaitForMore
  <2>1. pos + 4 <= Len(Encoded(NextFrame)) /\ 4 \in Nat
    BY <1>8, <1>10, <1>11
  <2>2. Waiting
    BY <1>1, <1>7, <1>11, <2>1, NotYet
  <2>3. QED
    BY <1>1, <1>2, <1>11, <2>2, WaitStep
<1>12. CASE /\ CurrentFrame.IsMasked /\ Len(msg) - msgOffset >= 4
            /\ CurrentFrame' = [CurrentFrame EXCEPT !.Mask = q]
            /\ Consume(4) /\ Stage' = "payload"
            /\ UNCHANGED <<Buf, SizeLen, PayloadLen, Frames, pc>>
  <2>1. 4 \in 0..(Len(msg) - msgOffset)
    BY <1>3, <1>12
  <2>2. f.IsMasked /\ Len(f.Mask) = 4 /\ pos + 4 <= Len(Encoded(f))
    BY <1>6, <1>8, <1>10, <1>12
  <2>3. q \in Seq(Bytes) /\ Len(q) = 4 /\ \A i \in 1..4 : q[i] = Encoded(f)[pos + i]
    BY <1>1, <1>4, <1>7, <2>1, <2>2, Taken
  <2>4. q = f.Mask
    <3>1. \A i \in 1..4 : q[i] = f.Mask[i]
      BY <1>9, <2>2, <2>3
    <3> HIDE DEF q
    <3>2. QED
      BY <1>6, <2>2, <2>3, <3>1, SeqEqual
  <2>5. CurrentFrame' = [Opcode |-> f.Opcode, IsMasked |-> f.IsMasked, Mask |-> f.Mask,
                         Payload |-> <<>>]
    <3> HIDE DEF f, q
    <3>1. QED
      BY <1>4, <1>12, <2>4 DEF Begun
  <2>6. pc' = "stage"
    BY <1>12 DEF ReadMaskKey
  <2>7. /\ TypeInv' /\ BytesInv' /\ DoneInv' /\ ProgressInv' /\ Position' = Position + 4
        /\ Done' = Done /\ NextFrame' = NextFrame /\ Start' = Start
    BY <1>1, <1>2, <1>12, <2>1, <2>6, Consumed
  <2>8. Position' = Start + Len(Header(f))
    BY <1>3, <1>7, <1>9, <2>2, <2>7
  <2>9. FrameInv'
    BY <1>4, <1>12, <2>5, <2>7, <2>8 DEF FrameInv
  <2>10. QED
    BY <2>7, <2>9 DEF Inv
<1>13. CASE /\ ~CurrentFrame.IsMasked /\ Stage' = "payload"
            /\ UNCHANGED <<Buf, Offset, CurrentFrame, SizeLen, PayloadLen, Frames, pc, msgOffset>>
  <2>1. ~f.IsMasked /\ Len(f.Mask) = 0 /\ f.Mask = <<>>
    BY <1>6, <1>8, <1>13, EmptySeq
  <2>2. CurrentFrame' = [Opcode |-> f.Opcode, IsMasked |-> f.IsMasked, Mask |-> f.Mask,
                         Payload |-> <<>>]
    BY <1>4, <1>13, <2>1 DEF Begun
  <2>3. 0 \in 0..(Len(msg) - msgOffset) /\ Consume(0)
    BY <1>3, <1>13 DEF Consume
  <2>4. pc' = "stage"
    BY <1>13 DEF ReadMaskKey
  <2>5. /\ TypeInv' /\ BytesInv' /\ DoneInv' /\ ProgressInv' /\ Position' = Position + 0
        /\ Done' = Done /\ NextFrame' = NextFrame /\ Start' = Start
    BY <1>1, <1>2, <1>13, <2>3, <2>4, Consumed
  <2>6. Position' = Start + Len(Header(f))
    BY <1>3, <1>7, <1>9, <2>1, <2>5
  <2>7. FrameInv'
    BY <1>4, <1>13, <2>2, <2>5, <2>6 DEF FrameInv
  <2>8. QED
    BY <2>5, <2>7 DEF Inv
<1>14. QED
  BY <1>11, <1>12, <1>13 DEF ReadMaskKey, Leftover

\* The last stage: the whole payload makes the frame the next one of the stream.
LEMMA ReadPayloadStep ==
    ASSUME Inv, ReadPayload
    PROVE  Inv'
<1> DEFINE f == NextFrame
           p == Len(f.Payload)
           h == Len(Header(f))
           n == IF Len(msg) - msgOffset >= p THEN p ELSE 0
           raw == SubSeq(msg, msgOffset + 1, msgOffset + p)
<1>1. TypeInv /\ BytesInv /\ DoneInv /\ FrameInv /\ ProgressInv /\ InMessage /\ Stage = "payload"
  BY DEF Inv, ReadPayload, InMessage
<1>2. UNCHANGED <<stream, fed, received, overlapped, call, msg>> /\ pc' = "check"
  BY DEF ReadPayload
<1>3. /\ Len(msg) \in Nat /\ msgOffset \in Nat /\ msgOffset <= Len(msg)
      /\ Start \in Nat /\ Offset \in Nat
  BY <1>1, Lengths, StreamFacts
<1>4. /\ CurrentFrame = [Opcode |-> f.Opcode, IsMasked |-> f.IsMasked, Mask |-> f.Mask,
                         Payload |-> <<>>]
      /\ Position = Start + h
      /\ SizeLen = 0 /\ PayloadLen = p /\ Len(Done) < MaxFrames
  BY <1>1 DEF FrameInv
<1>5. /\ f \in FrameSet /\ Len(Encoded(f)) \in Nat
      /\ EndOf(stream, Len(Done) + 1) = Start + Len(Encoded(f))
  BY <1>1, <1>4, StreamFacts
<1>6. /\ f = [Opcode |-> f.Opcode, IsMasked |-> f.IsMasked, Mask |-> f.Mask,
              Payload |-> f.Payload]
      /\ p \in Nat
  BY <1>5, FrameType
<1>7. /\ h \in Nat /\ Len(Encoded(f)) = h + p
      /\ \A i \in 1..p : Encoded(f)[h + i] = Body(f)[i]
  BY <1>5, EncodedIs
<1>8. /\ Body(f) \in Seq(Bytes) /\ Len(Body(f)) = p
      /\ (IF f.IsMasked THEN Masked(Body(f), f.Mask) ELSE Body(f)) = f.Payload
  BY <1>5, BodyIs
<1>9. Buf' = IF Buf = <<>> THEN SubSeq(msg, msgOffset' + 1, Len(msg)) ELSE Buf
  BY DEF ReadPayload, Bufferize
<1>10. /\ Len(Done) \in Nat /\ MaxFrames \in Nat /\ Done \in Seq(FrameSet)
       /\ received \in Seq(FrameSet) /\ Frames \in Seq(FrameSet) /\ Len(Frames) \in Nat
  BY <1>1, StreamFacts, LenProperties DEF TypeInv
<1> HIDE DEF p, h
<1>11. CASE /\ Len(msg) - msgOffset < PayloadLen
            /\ UNCHANGED <<Offset, CurrentFrame, SizeLen, PayloadLen, Stage, Frames, msgOffset>>
  <2>1. Waiting
    <3>1. h + p <= Len(Encoded(NextFrame)) /\ Len(msg) - msgOffset < p
      BY <1>4, <1>5, <1>7, <1>11
    <3>2. QED
      BY <1>1, <1>4, <1>6, <1>7, <3>1, NotYet
  <2>2. WaitForMore
    BY <1>2, <1>9, <1>11 DEF WaitForMore, Bufferize
  <2>3. QED
    BY <1>1, <1>2, <2>1, <2>2, WaitStep
<1>12. CASE /\ Len(msg) - msgOffset >= PayloadLen
            /\ Flush([CurrentFrame EXCEPT !.Payload =
                        IF CurrentFrame.IsMasked
                        THEN Masked(SubSeq(msg, msgOffset + 1, msgOffset + PayloadLen),
                                    CurrentFrame.Mask)
                        ELSE SubSeq(msg, msgOffset + 1, msgOffset + PayloadLen)])
            /\ Consume(PayloadLen)
  <2>1. p \in 0..(Len(msg) - msgOffset) /\ h + p <= Len(Encoded(f))
    BY <1>3, <1>4, <1>5, <1>6, <1>7, <1>12
  <2>2. raw \in Seq(Bytes) /\ Len(raw) = p /\ \A i \in 1..p : raw[i] = Encoded(f)[h + i]
    BY <1>1, <1>4, <1>7, <2>1, Taken
  <2>3. raw = Body(f)
    <3>1. \A i \in 1..p : raw[i] = Body(f)[i]
      BY <1>7, <2>2
    <3> HIDE DEF raw
    <3>2. QED
      BY <1>8, <2>2, <3>1, SeqEqual
  <2> HIDE DEF f, raw
  <2>4. [CurrentFrame EXCEPT !.Payload =
           IF CurrentFrame.IsMasked THEN Masked(raw, CurrentFrame.Mask) ELSE raw] = f
    <3>1. CurrentFrame.IsMasked = f.IsMasked /\ CurrentFrame.Mask = f.Mask
      BY <1>4
    <3>2. (IF CurrentFrame.IsMasked THEN Masked(raw, CurrentFrame.Mask) ELSE raw) = f.Payload
      BY <1>8, <2>3, <3>1
    <3>3. QED
      BY <1>4, <1>6, <3>2
  <2>5. /\ Frames' = Append(Frames, f)
        /\ CurrentFrame' = NoFrame /\ SizeLen' = 0 /\ PayloadLen' = 0 /\ Stage' = "start"
    <3>1. raw = SubSeq(msg, msgOffset + 1, msgOffset + PayloadLen)
      BY <1>4 DEF raw
    <3>2. QED
      BY <1>12, <2>4, <3>1 DEF Flush
  <2>6. Frames' \in Seq(FrameSet) /\ Len(Frames') = Len(Frames) + 1
    BY <1>5, <1>10, <2>5, AppendProperties
  <2>7. Done' = Append(Done, f)
    BY <1>2, <1>5, <1>10, <2>5 DEF Done
  <2>8. /\ Len(Done') = Len(Done) + 1 /\ Done'[Len(Done) + 1] = f
        /\ \A i \in 1..Len(Done) : Done'[i] = Done[i]
    BY <1>5, <1>10, <2>7, AppendProperties
  <2>9. DoneInv'
    <3>1. f = stream[Len(Done) + 1]
      BY DEF f, NextFrame
    <3>2. ASSUME NEW i \in 1..(Len(Done) + 1) PROVE Done'[i] = stream[i]
      <4>1. CASE i = Len(Done) + 1
        BY <2>8, <3>1, <4>1
      <4>2. CASE i # Len(Done) + 1
        <5>1. i \in 1..Len(Done)
          BY <1>10, <4>2
        <5>2. QED
          BY <1>1, <2>8, <5>1 DEF DoneInv
      <4>3. QED
        BY <4>1, <4>2
    <3>3. Len(Done) + 1 <= MaxFrames
      BY <1>4, <1>10
    <3>4. QED
      BY <1>2, <2>8, <3>2, <3>3 DEF DoneInv
  <2>10. msgOffset' = msgOffset + p /\ Offset' = IF Buf # <<>> THEN Offset + p ELSE Offset
    BY <1>4, <1>12 DEF Consume
  <2>11. TypeInv' /\ BytesInv' /\ Position' = Position + p
    BY <1>1, <1>2, <1>9, <2>1, <2>6, <2>10, Advance
  <2>12. Position' = Start'
    <3>1. Start' = EndOf(stream, Len(Done) + 1)
      BY <1>2, <2>8 DEF Start
    <3>2. Position' = Start + Len(Encoded(f))
      BY <1>3, <1>4, <1>6, <1>7, <2>11
    <3>3. QED
      BY <1>5, <3>1, <3>2
  <2>13. FrameInv'
    BY <2>5, <2>12 DEF FrameInv
  <2>14. ProgressInv'
    <3>1. ~overlapped => frameCount = Len(Frames)
      BY <1>1 DEF ProgressInv
    <3>2. UNCHANGED <<overlapped, frameCount>>
      BY <1>2 DEF call
    <3>3. ~overlapped' => frameCount' # Len(Frames')
      BY <1>10, <2>6, <3>1, <3>2
    <3>4. QED
      BY <1>2, <2>5, <3>3 DEF ProgressInv, InMessage
  <2>15. QED
    BY <2>9, <2>11, <2>13, <2>14 DEF Inv
<1>13. QED
  BY <1>11, <1>12 DEF ReadPayload, Leftover

\* The loop of ParseData stops when no frame was finished, or when nothing is left.
LEMMA CheckProgressStep ==
    ASSUME Inv, CheckProgress
    PROVE  Inv'
<1> USE DEF parser, call
<1>1. TypeInv /\ BytesInv /\ DoneInv /\ FrameInv /\ ProgressInv /\ pc = "check"
  BY DEF Inv, CheckProgress
<1>2. UNCHANGED <<stream, fed, parser, Frames, received, overlapped, data, frameCount,
                  msg, msgOffset>>
  BY DEF CheckProgress
<1>3. Wire' = Wire /\ Done' = Done
  BY <1>2 DEF Wire, Done
<1>4. NextFrame' = NextFrame /\ Start' = Start /\ DoneInv' /\ (Waiting' <=> Waiting)
  BY <1>1, <1>2, <1>3, SameNext
<1>5. /\ Len(Buf) \in Nat /\ Offset \in Nat /\ Offset <= Len(Buf) /\ fed \in Nat
      /\ (Buf = <<>> <=> Len(Buf) = 0) /\ first \in BOOLEAN /\ Start \in Nat
  BY <1>1, Lengths, StreamFacts DEF TypeInv
<1>6. pc' \in {"settle", "loop"} /\ first' \in BOOLEAN /\ (pc' = "loop" => first' = FALSE)
  BY <1>5 DEF CheckProgress
<1>7. TypeInv'
  BY <1>1, <1>2, <1>3, <1>6 DEF TypeInv
<1>8. BytesInv'
  <2>1. EndsAt(Wire, data, fed) /\ EndsAt(Wire, Buf, fed)
    BY <1>1 DEF BytesInv
  <2>2. pc' = "loop" => Buf # <<>>
    BY <1>5 DEF CheckProgress
  <2>3. ~(pc' = "loop" /\ first') /\ ~InMessage' /\ pc' # "header"
    BY <1>6 DEF InMessage
  <2>4. QED
    BY <1>2, <1>3, <2>1, <2>2, <2>3 DEF BytesInv
<1>9. Position = fed - (Len(Buf) - Offset)
  BY <1>1 DEF Position, Unparsed, InMessage
<1>10. FrameInv'
  <2>1. Unparsed' = Len(Buf) - Offset
    BY <1>2, <1>6 DEF Unparsed, InMessage
  <2>2. Position' = Position
    BY <1>2, <1>9, <2>1 DEF Position
  <2>3. QED
    BY <1>1, <1>2, <1>3, <1>4, <2>2 DEF FrameInv
<1>11. ProgressInv'
  <2>1. CASE pc' = "loop"
    BY <2>1 DEF ProgressInv, InMessage
  <2>2. CASE pc' = "settle"
    <3>1. ~overlapped => Waiting
      <4>1. SUFFICES ASSUME ~overlapped, ~Waiting PROVE FALSE
        OBVIOUS
      <4>2. frameCount # Len(Frames) /\ Stage = "start"
        BY <1>1, <4>1 DEF ProgressInv
      <4>3. Len(Buf) = Offset
        BY <2>2, <4>2 DEF CheckProgress
      <4>4. fed = Start
        BY <1>1, <1>5, <1>9, <4>2, <4>3 DEF FrameInv
      <4>5. Len(Done) < MaxFrames /\ ~(fed < EndOf(stream, Len(Done) + 1))
        BY <4>1 DEF Waiting
      <4>6. /\ NextFrame \in FrameSet
            /\ EndOf(stream, Len(Done) + 1) = Start + Len(Encoded(NextFrame))
        BY <1>1, <4>5, StreamFacts
      <4>7. Len(Encoded(NextFrame)) \in Nat /\ 2 <= Len(Encoded(NextFrame))
        BY <4>6, AtLeastTwo
      <4>8. QED
        BY <1>5, <4>4, <4>5, <4>6, <4>7
    <3>2. QED
      BY <1>2, <1>4, <2>2, <3>1 DEF ProgressInv, InMessage
  <2>3. QED
    BY <1>6, <2>1, <2>2
<1>12. QED
  BY <1>4, <1>7, <1>8, <1>10, <1>11 DEF Inv

\* Dropping parsed bytes keeps the unparsed ones.
LEMMA SettleStep ==
    ASSUME Inv, Settle
    PROVE  Inv'
<1>1. TypeInv /\ BytesInv /\ DoneInv /\ FrameInv /\ ProgressInv /\ pc = "settle"
  BY DEF Inv, Settle
<1>2. /\ UNCHANGED <<stream, fed, CurrentFrame, SizeLen, PayloadLen, Stage, Frames, received,
                     overlapped>>
      /\ pc' = "idle" /\ data' = <<>> /\ first' = TRUE /\ msg' = <<>> /\ msgOffset' = 0
  BY DEF Settle
<1>3. Wire' = Wire /\ Done' = Done
  BY <1>2 DEF Wire, Done
<1>4. NextFrame' = NextFrame /\ Start' = Start /\ DoneInv' /\ (Waiting' <=> Waiting)
  BY <1>1, <1>2, <1>3, SameNext
<1>5. /\ Len(Buf) \in Nat /\ Offset \in Nat /\ Offset <= Len(Buf) /\ fed \in Nat
      /\ (Buf = <<>> <=> Len(Buf) = 0) /\ Buf \in Seq(Bytes)
  BY <1>1, Lengths, StreamFacts DEF TypeInv
<1>6. EndsAt(Wire, Buf, fed)
  BY <1>1 DEF BytesInv
<1>7. ChopLimit \in Nat
  BY FormatAssumption
<1>8. /\ Buf' \in Seq(Bytes) /\ Len(Buf') \in Nat /\ EndsAt(Wire, Buf', fed)
      /\ Offset' \in 0..Len(Buf') /\ Len(Buf') - Offset' = Len(Buf) - Offset
      /\ Buf' = <<>> \/ (Offset' < Len(Buf') /\ Offset' <= ChopLimit)
  <2>1. CASE Len(Buf) = Offset /\ Buf' = <<>> /\ Offset' = 0
    <3>1. <<>> \in Seq(Bytes) /\ Len(<<>>) = 0 /\ EndsAt(Wire, <<>>, fed)
      BY <1>5, EndsOfNothing
    <3>2. Len(Buf') = 0 /\ Len(Buf') - Offset' = Len(Buf) - Offset
      BY <1>5, <2>1, <3>1
    <3>3. QED
      BY <2>1, <3>1, <3>2
  <2>2. CASE /\ Len(Buf) # Offset
             /\ Buf' = SubSeq(Buf, Offset + 1, Len(Buf)) /\ Offset' = 0
    <3>1. Offset \in 0..Len(Buf)
      BY <1>5
    <3>2. /\ Buf' \in Seq(Bytes) /\ Len(Buf') = Len(Buf) - Offset /\ EndsAt(Wire, Buf', fed)
      BY <1>5, <1>6, <2>2, <3>1, EndsOfRest
    <3> DEFINE b == Len(Buf')
    <3>3. b \in Nat /\ b = Len(Buf) - Offset /\ b # 0
      BY <1>5, <2>2, <3>2, LenProperties
    <3> HIDE DEF b
    <3>4. 0 \in 0..b /\ b - 0 = Len(Buf) - Offset /\ 0 < b /\ 0 <= ChopLimit
      BY <1>5, <1>7, <3>3
    <3>5. QED
      BY <2>2, <3>2, <3>3, <3>4 DEF b
  <2>3. CASE Len(Buf) # Offset /\ Offset <= ChopLimit /\ UNCHANGED <<Buf, Offset>>
    BY <1>5, <1>6, <2>3
  <2>4. QED
    BY <2>1, <2>2, <2>3 DEF Settle
<1>9. <<>> \in Seq(Bytes) /\ Len(<<>>) = 0 /\ EndsAt(Wire, <<>>, fed)
  BY <1>5, EndsOfNothing
<1>10. TypeInv'
  <2>1. msgOffset' \in 0..Len(msg')
    BY <1>2, <1>9
  <2>2. QED
    BY <1>1, <1>2, <1>3, <1>8, <1>9, <2>1 DEF TypeInv
<1>11. BytesInv'
  BY <1>2, <1>3, <1>8, <1>9 DEF BytesInv, InMessage
<1>12. FrameInv'
  <2>1. Unparsed = Len(Buf) - Offset /\ Unparsed' = Len(Buf') - Offset'
    BY <1>1, <1>2 DEF Unparsed, InMessage
  <2>2. Position' = Position
    BY <1>2, <1>8, <2>1 DEF Position
  <2>3. QED
    BY <1>1, <1>2, <1>3, <1>4, <2>2 DEF FrameInv
<1>13. ProgressInv'
  <2>1. ~overlapped => Waiting
    BY <1>1 DEF ProgressInv
  <2>2. QED
    BY <1>2, <1>4, <1>8, <2>1 DEF ProgressInv, InMessage
<1>14. QED
  BY <1>4, <1>10, <1>11, <1>12, <1>13 DEF Inv

\* A consumer takes the finished frames: none is lost, and the parser is not disturbed.
LEMMA ExtractDataStep ==
    ASSUME Inv, ExtractData
    PROVE  Inv'
<1> USE DEF parser, call
<1>1. TypeInv /\ BytesInv /\ DoneInv /\ FrameInv /\ ProgressInv
  BY DEF Inv
<1>2. /\ UNCHANGED <<stream, fed, parser, pc, call, msg, msgOffset>>
      /\ received' = received \o Frames /\ Frames' = <<>>
      /\ overlapped' = (overlapped \/ pc # "idle")
  BY DEF ExtractData
<1>3. /\ received \in Seq(FrameSet) /\ Frames \in Seq(FrameSet) /\ Done \in Seq(FrameSet)
      /\ overlapped \in BOOLEAN
  BY <1>1, StreamFacts DEF TypeInv
<1>4. Done' = Done
  <2>1. Done' = Done \o <<>>
    BY <1>2 DEF Done
  <2>2. QED
    BY <1>3, <2>1, ConcatEmptySeq
<1>5. Wire' = Wire
  BY <1>2 DEF Wire
<1>6. NextFrame' = NextFrame /\ Start' = Start /\ DoneInv' /\ (Waiting' <=> Waiting)
  BY <1>1, <1>2, <1>4, SameNext
<1>7. TypeInv'
  <2>1. received' \in Seq(FrameSet) /\ Frames' \in Seq(FrameSet)
    BY <1>2, <1>3, <1>4 DEF Done
  <2>2. overlapped' \in BOOLEAN
    BY <1>2, <1>3
  <2>3. QED
    BY <1>1, <1>2, <1>5, <2>1, <2>2 DEF TypeInv
<1>8. BytesInv'
  BY <1>1, <1>2, <1>5 DEF BytesInv, InMessage
<1>9. Position' = Position
  BY <1>2 DEF Position, Unparsed, InMessage
<1>10. FrameInv'
  BY <1>1, <1>2, <1>4, <1>6, <1>9 DEF FrameInv
<1>11. ProgressInv'
  <2>1. CASE pc = "idle"
    BY <1>1, <1>2, <1>6, <2>1 DEF ProgressInv, InMessage
  <2>2. CASE pc # "idle"
    BY <1>2, <2>2 DEF ProgressInv, InMessage
  <2>3. QED
    BY <2>1, <2>2
<1>12. QED
  BY <1>6, <1>7, <1>8, <1>10, <1>11 DEF Inv

LEMMA StutterStep ==
    ASSUME Inv, UNCHANGED vars
    PROVE  Inv'
<1> USE DEF vars, parser, call
<1>1. Wire' = Wire /\ Done' = Done
  BY DEF Wire, Done
<1>2. NextFrame' = NextFrame /\ Start' = Start /\ DoneInv' /\ (Waiting' <=> Waiting)
  BY <1>1, SameNext DEF Inv
<1>3. Position' = Position /\ InMessage' = InMessage
  BY DEF Position, Unparsed, InMessage
<1>4. TypeInv'
  BY <1>1 DEF Inv, TypeInv
<1>5. BytesInv'
  BY <1>1, <1>3 DEF Inv, BytesInv
<1>6. FrameInv'
  BY <1>1, <1>2, <1>3 DEF Inv, FrameInv
<1>7. ProgressInv'
  BY <1>2, <1>3 DEF Inv, ProgressInv
<1>8. QED
  BY <1>2, <1>4, <1>5, <1>6, <1>7 DEF Inv

LEMMA InvStep == Inv /\ [Next]_vars => Inv'
<1> SUFFICES ASSUME Inv, [Next]_vars PROVE Inv'
  OBVIOUS
<1>1. ASSUME NEW n \in 1..Len(Wire), Add(n) PROVE Inv'
  BY <1>1, AddStep
<1>2. CASE StartMessage
  BY <1>2, StartMessageStep
<1>3. CASE ReadHeader
  BY <1>3, ReadHeaderStep
<1>4. CASE ReadPayloadSize
  BY <1>4, ReadPayloadSizeStep
<1>5. CASE ReadMaskKey
  BY <1>5, ReadMaskKeyStep
<1>6. CASE ReadPayload
  BY <1>6, ReadPayloadStep
<1>7. CASE CheckProgress
  BY <1>7, CheckProgressStep
<1>8. CASE Settle
  BY <1>8, SettleStep
<1>9. CASE ExtractData
  BY <1>9, ExtractDataStep
<1>10. CASE UNCHANGED vars
  BY <1>10, StutterStep
<1>11. QED
  BY <1>1, <1>2, <1>3, <1>4, <1>5, <1>6, <1>7, <1>8, <1>9, <1>10 DEF Next

-----------------------------------------------------------------------------
(* The properties.                                                          *)

\* In every reachable state the parser is at a known byte of the stream, with the locals of
\* its stage holding what the frame around that byte says, however the stream was cut and
\* whenever ExtractData ran.
THEOREM Invariance == Spec => []Inv
<1>1. Init => Inv
  BY InitInv
<1>2. Inv /\ [Next]_vars => Inv'
  BY InvStep
<1>3. QED
  BY <1>1, <1>2, PTL DEF Spec

\* The locals of a stage of ProcessMessage exist when it runs: there is a frame from the
\* header on, and the size field is 2 or 8 bytes wide wherever it is read.
THEOREM Types == Spec => []TypeOK
<1>1. Inv => TypeOK
  <2>1. SUFFICES ASSUME Inv PROVE TypeOK
    OBVIOUS
  <2>2. TypeInv /\ DoneInv /\ FrameInv
    BY <2>1 DEF Inv
  <2>3. Stage = "start" <=> CurrentFrame = NoFrame
    BY <2>2, FrameOfStage
  <2>4. /\ (IF Stage = "payload_size" THEN SizeLen \in {2, 8} ELSE SizeLen = 0)
        /\ PayloadLen \in Nat
    <3>1. CASE Stage = "start"
      BY <2>2, <3>1 DEF FrameInv
    <3>2. CASE Stage # "start"
      <4>1. NextFrame \in FrameSet
        BY <2>2, <3>2, StreamFacts DEF FrameInv
      <4>2. SizeWidth(NextFrame) \in {0, 2, 8} /\ Len(NextFrame.Payload) \in Nat
        BY <4>1, FrameType
      <4>3. QED
        BY <2>2, <3>2, <4>2 DEF FrameInv
    <3>3. QED
      BY <3>1, <3>2
  <2>5. QED
    BY <2>2, <2>3, <2>4 DEF TypeOK, TypeInv, FrameInv
<1>2. QED
  BY <1>1, Invariance, PTL

\* However the stream is cut, and whenever a consumer extracts, the frames come out as the
\* peer sent them: in order, none twice, none skipped, each with its own mask removed.
THEOREM FramesInOrder == Spec => []FramesArePrefix
<1>1. Inv => FramesArePrefix
  <2>1. SUFFICES ASSUME Inv PROVE IsPrefix(Done, stream)
    BY DEF FramesArePrefix
  <2>2. /\ TypeInv /\ DoneInv
    BY <2>1 DEF Inv
  <2>3. /\ Done \in Seq(FrameSet) /\ Len(Done) \in Nat /\ Len(Done) <= MaxFrames
        /\ MaxFrames \in Nat
    BY <2>2, StreamFacts
  <2> DEFINE k == Len(Done)
             s == SubSeq(stream, 1, k)
  <2>4. stream \in Seq(FrameSet) /\ Len(stream) = MaxFrames
    BY <2>2, <2>3 DEF TypeInv
  <2>5. \A i \in 1..k : Done[i] = stream[i] /\ stream[i] \in FrameSet
    BY <2>2, <2>3 DEF DoneInv, TypeInv
  <2> HIDE DEF k
  <2>6. k \in Nat
    BY <2>3 DEF k
  <2>7. /\ s \in Seq(FrameSet) /\ Len(s) = (IF 1 <= k THEN k - 1 + 1 ELSE 0)
        /\ \A i \in 1..(k - 1 + 1) : s[i] = stream[1 + i - 1]
    BY <2>5, <2>6, SubSeqProperties
  <2> HIDE DEF s
  <2>8. Len(s) = k
    BY <2>6, <2>7
  <2>9. ASSUME NEW i \in 1..k PROVE s[i] = Done[i]
    <3>1. i \in 1..(k - 1 + 1) /\ 1 + i - 1 = i
      BY <2>6
    <3>2. QED
      BY <2>5, <2>7, <3>1
  <2>10. s = Done
    BY <2>3, <2>7, <2>8, <2>9, SeqEqual DEF k
  <2>11. QED
    BY <2>3, <2>4, <2>10 DEF IsPrefix, s, k
<1>2. QED
  BY <1>1, Invariance, PTL

\* A call during which nobody extracts leaves no complete frame in Buf.
THEOREM NoFrameWaits == Spec => []NothingLeftBehind
<1>1. Inv => NothingLeftBehind
  <2>1. SUFFICES ASSUME Inv, pc = "idle", ~overlapped, Len(Done) < Len(stream)
                 PROVE  fed < BytesOf(Len(Done) + 1)
    BY DEF NothingLeftBehind
  <2>2. TypeInv /\ DoneInv /\ Waiting
    BY <2>1 DEF Inv, ProgressInv
  <2>3. Len(Done) \in Nat /\ MaxFrames \in Nat
    BY <2>2, StreamFacts
  <2>4. Len(stream) = MaxFrames
    BY <2>2, <2>3 DEF TypeInv
  <2>5. Len(Done) + 1 \in Nat
    BY <2>3
  <2>6. BytesOf(Len(Done) + 1) = EndOf(stream, Len(Done) + 1)
    BY <2>5, BytesAreSent
  <2>7. QED
    BY <2>1, <2>2, <2>4, <2>6 DEF Waiting
<1>2. QED
  BY <1>1, Invariance, PTL

\* What is kept between calls is bounded: the parsed part by the chop limit, the rest by
\* one frame.
THEOREM BufferBound == Spec => []BufferIsBounded
<1>1. Inv => BufferIsBounded
  <2>1. SUFFICES ASSUME Inv, pc = "idle", ~overlapped, Buf # <<>>
                 PROVE  Len(Buf) < ChopLimit + Len(Encoded(NextFrame))
    BY DEF BufferIsBounded, NextFrame
  <2>2. TypeInv /\ DoneInv /\ FrameInv /\ Waiting /\ Offset < Len(Buf) /\ Offset <= ChopLimit
    BY <2>1 DEF Inv, ProgressInv
  <2>3. /\ Len(Buf) \in Nat /\ Offset \in Nat /\ fed \in Nat /\ Start \in Nat
        /\ fed <= Len(Wire) /\ ChopLimit \in Nat
    BY <2>2, Lengths, StreamFacts, FormatAssumption
  <2>4. Position = fed - (Len(Buf) - Offset)
    BY <2>1 DEF Position, Unparsed, InMessage
  <2>5. Position >= Start
    <3>1. CASE Stage = "start"
      BY <2>2, <2>3, <3>1 DEF FrameInv
    <3>2. CASE Stage # "start"
      <4>1. NextFrame \in FrameSet
        BY <2>2, <3>2, StreamFacts DEF FrameInv
      <4>2. SizeWidth(NextFrame) \in {0, 2, 8} /\ Len(Header(NextFrame)) \in Nat
        BY <4>1, FrameType, EncodedIs
      <4>3. \/ Position = Start + 2
            \/ Position = Start + 2 + SizeWidth(NextFrame)
            \/ Position = Start + Len(Header(NextFrame))
        BY <2>2, <3>2 DEF FrameInv
      <4>4. QED
        BY <2>3, <4>2, <4>3
    <3>3. QED
      BY <3>1, <3>2
  <2>6. Len(Done) < MaxFrames
    <3>1. Len(Done) # MaxFrames
      BY <2>2, <2>3, <2>4, <2>5, StreamFacts
    <3>2. Len(Done) \in Nat /\ MaxFrames \in Nat /\ Len(Done) <= MaxFrames
      BY <2>2, StreamFacts
    <3>3. QED
      BY <3>1, <3>2
  <2>7. /\ EndOf(stream, Len(Done) + 1) = Start + Len(Encoded(NextFrame))
        /\ Len(Encoded(NextFrame)) \in Nat
    BY <2>2, <2>6, StreamFacts
  <2>8. fed < Start + Len(Encoded(NextFrame))
    BY <2>2, <2>6, <2>7 DEF Waiting
  <2>9. QED
    BY <2>2, <2>3, <2>4, <2>5, <2>7, <2>8
<1>2. QED
  BY <1>1, Invariance, PTL

-----------------------------------------------------------------------------
(* HTTPLikeParser: the inductive invariant.  S is the stream of all bytes    *)
(* sent, and E[k] how many of them the first k messages have.               *)

Laid(S, E) ==
    /\ S \in Seq(Byte)
    /\ E \in [0..Len(sent) -> Nat] /\ E[0] = 0 /\ E[Len(sent)] = Len(S)
    /\ \A i \in 0..Len(sent) : \A j \in i..Len(sent) : E[i] <= E[j]
    /\ \A i \in 1..Len(sent) :
          /\ E[i] = E[i - 1] + Len(sent[i].wire)
          /\ \A j \in 1..Len(sent[i].wire) : S[E[i - 1] + j] = sent[i].wire[j]

\* what was given and what is on the wire are the rest of the stream
InStream(S) ==
    /\ wire \in Seq(Byte) /\ given \in Seq(Byte) /\ at \in 0..Len(given)
    /\ Len(given) + Len(wire) <= Len(S)
    /\ \A j \in 1..Len(wire) : wire[j] = S[(Len(S) - Len(wire)) + j]
    /\ \A j \in 1..Len(given) : given[j] = S[(Len(S) - Len(wire) - Len(given)) + j]

\* how many bytes were taken off the stream
Used(S) == Len(S) - Len(wire) - Len(given) + at

\* reads end where they may, and each starts as a first one
ReadInv ==
    /\ given # <<>> => given[Len(given)].cut
    /\ given = <<>> => at = 0
    /\ at = 0 => IsFirst = TRUE

SentInv ==
    /\ sent \in Seq(Messages)
    /\ \A i \in 1..(Len(sent) - 1) : ~sent[i].bad

ASeq(s) == \E T : s \in Seq(T)

RightOut(out) == \A i \in 1..Len(Good) : i <= Len(out) => out[i] = Good[i].parsed

OutInv ==
    /\ ASeq(ParsedData) /\ ASeq(extracted)
    /\ RightOut(Parsed)

-----------------------------------------------------------------------------
\* Where in a message the parser is, with q bytes of it taken.

\* between two messages, or in front of the CR LF that follows the last chunk
Between(S, E) ==
    /\ CurrentRequest = <<>> /\ InContent = FALSE /\ SizeBuf = <<>>
    /\ Len(Parsed) <= Len(Good)
    /\ \/ Used(S) = E[Len(Parsed)]
       \/ /\ Len(Parsed) > 0 /\ Good[Len(Parsed)].chunks # <<>>
          /\ Used(S) + 2 = E[Len(Parsed)]

InHead(m, q) ==
    /\ q \in 1..(m.head - 1)
    /\ CurrentRequest = SubSeq(m.wire, 1, q) /\ InContent = FALSE /\ SizeBuf = <<>>
    /\ \/ Is(m.wire[q], LF)
       \/ q + 1 < m.head /\ Is(m.wire[q + 1], LF) /\ at \in {0, Len(given)}

\* the request when n bytes of the body are there
Got(m, n) == SubSeq(m.wire, 1, m.head) \o SubSeq(m.parsed.body, 1, n)

HeadRead(m) ==
    /\ InContent = TRUE
    /\ CurrentFirstLine = m.parsed.first /\ CurrentHeaders = m.parsed.headers
    /\ ChunkedEncoding = (m.chunks # <<>>)

InPlain(m, q) ==
    /\ q \in m.head..(Len(m.wire) - 1)
    /\ HeadRead(m) /\ m.chunks = <<>> /\ SizeBuf = <<>>
    /\ CurrentRequest = SubSeq(m.wire, 1, q)
    /\ ContentLength = Len(m.wire) - q
    /\ OriginalContentLength = Len(m.wire) - m.head

AtSize(m, i, q) ==
    LET c == m.chunks[i]
    IN  /\ i \in 1..Len(m.chunks) /\ q \in c.from..(c.start - 1)
        /\ HeadRead(m) /\ SizeBuf = SubSeq(m.wire, c.from + 1, q)
        /\ CurrentRequest = Got(m, c.before)
        /\ ContentLength = 0 /\ OriginalContentLength = c.before

InChunk(m, i, q) ==
    LET c == m.chunks[i]
    IN  /\ i \in 1..Len(m.chunks) /\ q \in c.start..(c.start + c.size - 1)
        /\ HeadRead(m) /\ SizeBuf = <<>>
        /\ CurrentRequest = Got(m, c.before + (q - c.start))
        /\ ContentLength = c.start + c.size - q
        /\ OriginalContentLength = c.before + c.size

Inside(m, q) ==
    \/ InHead(m, q) \/ InPlain(m, q)
    \/ \E i \in 1..Len(m.chunks) : AtSize(m, i, q) \/ InChunk(m, i, q)

InGood(S, E) ==
    /\ threw = FALSE /\ ProcessedLength = at
    /\ \/ Between(S, E)
       \/ /\ Len(Parsed) < Len(Good)
          /\ \E q \in 1..Len(Good[Len(Parsed) + 1].wire) :
                Used(S) = E[Len(Parsed)] + q /\ Inside(Good[Len(Parsed) + 1], q)

\* the well-formed messages are out
InBad(S, E) ==
    Len(Good) <= Len(Parsed) /\ Len(Good) < Len(sent) /\ E[Len(Good)] < Used(S)

StreamInv(S, E) ==
    /\ Laid(S, E) /\ InStream(S)
    /\ InGood(S, E) \/ InBad(S, E)

HTTPInv ==
    /\ SentInv /\ ReadInv /\ OutInv
    /\ \E S, E : StreamInv(S, E)

-----------------------------------------------------------------------------
(* Pieces of sequences.                                                     *)

LEMMA Piece ==
    ASSUME NEW T, NEW s \in Seq(T), NEW a \in Nat, NEW b \in a..Len(s)
    PROVE  /\ SubSeq(s, a + 1, b) \in Seq(T) /\ Len(SubSeq(s, a + 1, b)) = b - a
           /\ \A j \in 1..(b - a) : SubSeq(s, a + 1, b)[j] = s[a + j]
<1>1. Len(s) \in Nat
  BY LenProperties
<1>2. \A j \in (a + 1)..b : s[j] \in T
  <2>1. \A j \in (a + 1)..b : j \in 1..Len(s)
    BY <1>1
  <2>2. QED
    BY <2>1, ElementOfSeq
<1>3. a + 1 \in Int /\ b \in Int /\ b >= a
  BY <1>1
<1>4. /\ SubSeq(s, a + 1, b) \in Seq(T)
      /\ Len(SubSeq(s, a + 1, b)) = IF a + 1 <= b THEN b - (a + 1) + 1 ELSE 0
      /\ \A j \in 1..(b - (a + 1) + 1) : SubSeq(s, a + 1, b)[j] = s[(a + 1) + j - 1]
  BY <1>2, <1>3, SubSeqProperties
<1>5. ASSUME NEW j \in 1..(b - a) PROVE SubSeq(s, a + 1, b)[j] = s[a + j]
  <2>1. j \in 1..(b - (a + 1) + 1) /\ (a + 1) + j - 1 = a + j
    BY <1>3
  <2>2. QED
    BY <1>4, <2>1
<1>6. Len(SubSeq(s, a + 1, b)) = b - a
  BY <1>3, <1>4
<1>7. QED
  BY <1>4, <1>5, <1>6

\* A sequence that has the bytes of a piece is that piece.
LEMMA IsPiece ==
    ASSUME NEW T, NEW s \in Seq(T), NEW a \in Nat, NEW b \in a..Len(s), NEW t \in Seq(T),
           Len(t) = b - a, \A j \in 1..(b - a) : t[j] = s[a + j]
    PROVE  t = SubSeq(s, a + 1, b)
BY Piece, SeqEqual

LEMMA TwoPieces ==
    ASSUME NEW T, NEW s \in Seq(T), NEW a \in Nat, NEW b \in a..Len(s), NEW c \in b..Len(s)
    PROVE  SubSeq(s, a + 1, b) \o SubSeq(s, b + 1, c) = SubSeq(s, a + 1, c)
<1>1. Len(s) \in Nat
  BY LenProperties
<1>2. a + 1 \in 1..(Len(s) + 1) /\ b \in (a + 1 - 1)..Len(s) /\ c \in b..Len(s)
  BY <1>1
<1>3. QED
  BY <1>2, ConcatAdjacentSubSeq

LEMMA PieceAndNext ==
    ASSUME NEW T, NEW s \in Seq(T), NEW a \in Nat, NEW b \in a..(Len(s) - 1)
    PROVE  SubSeq(s, a + 1, b) \o <<s[b + 1]>> = SubSeq(s, a + 1, b + 1)
<1>1. Len(s) \in Nat
  BY LenProperties
<1>2. b + 1 \in (b + 1)..Len(s) /\ b + 1 \in 1..Len(s) /\ b \in a..Len(s) /\ b + 1 \in b..Len(s)
  BY <1>1
<1>3. SubSeq(s, b + 1, b + 1) = <<s[b + 1]>>
  <2>1. s[b + 1] \in T
    BY <1>2, ElementOfSeq
  <2>2. <<s[b + 1]>> \in Seq(T) /\ Len(<<s[b + 1]>>) = 1 /\ <<s[b + 1]>>[1] = s[b + 1]
    BY <2>1
  <2>3. b \in Nat /\ b + 1 \in b..Len(s) /\ (b + 1) - b = 1
    BY <1>1
  <2>4. \A j \in 1..((b + 1) - b) : <<s[b + 1]>>[j] = s[b + j]
    BY <2>2, <2>3
  <2>5. QED
    BY <2>2, <2>3, <2>4, IsPiece
<1>4. SubSeq(s, a + 1, b) \o SubSeq(s, b + 1, b + 1) = SubSeq(s, a + 1, b + 1)
  BY <1>2, TwoPieces
<1>5. QED
  BY <1>3, <1>4

LEMMA EmptyPiece ==
    ASSUME NEW s, NEW a \in Nat
    PROVE  SubSeq(s, a + 1, a) = <<>>
<1>1. a + 1 \in Int /\ a \in Int /\ a < a + 1
  OBVIOUS
<1>2. QED
  BY <1>1, SubSeqEmpty

LEMMA WholePiece ==
    ASSUME NEW T, NEW s \in Seq(T)
    PROVE  SubSeq(s, 1, Len(s)) = s
BY SubSeqFull

-----------------------------------------------------------------------------
(* Least and greatest.                                                      *)

LEMMA MinIs ==
    ASSUME NEW X, X \subseteq Nat, X # {}
    PROVE  Min(X) \in X /\ \A x \in X : Min(X) <= x
BY LeastNatural DEF Min

LEMMA MaxIs ==
    ASSUME NEW X, NEW n \in Nat, X \subseteq 0..n, X # {}
    PROVE  Max(X) \in X /\ \A x \in X : x <= Max(X)
<1> DEFINE Y == {n - x : x \in X}
<1>1. Y \subseteq Nat /\ Y # {}
  <2>1. ASSUME NEW x \in X PROVE n - x \in Nat
    <3>1. x \in 0..n
      OBVIOUS
    <3>2. QED
      BY <3>1
  <2>2. Y \subseteq Nat
    BY <2>1
  <2>3. PICK x \in X : TRUE
    OBVIOUS
  <2>4. n - x \in Y
    OBVIOUS
  <2> HIDE DEF Y
  <2>5. QED
    BY <2>2, <2>4
<1>2. PICK m \in Y : \A y \in Y : m <= y
  <2> HIDE DEF Y
  <2>1. QED
    BY <1>1, LeastNatural
<1>3. PICK x \in X : m = n - x
  BY <1>2
<1>4. \A z \in X : z <= x
  <2> SUFFICES ASSUME NEW z \in X PROVE z <= x
    OBVIOUS
  <2>1. n - z \in Y
    OBVIOUS
  <2> HIDE DEF Y
  <2>2. m <= n - z
    BY <1>2, <2>1
  <2>3. x \in 0..n /\ z \in 0..n
    OBVIOUS
  <2>4. QED
    BY <1>3, <2>2, <2>3
<1>5. \E y \in X : \A z \in X : y >= z
  <2>1. X \subseteq Int
    OBVIOUS
  <2> HIDE DEF Y
  <2>2. QED
    BY <1>4, <2>1
<1>6. Max(X) \in X /\ \A z \in X : Max(X) >= z
  <2> HIDE DEF Y
  <2>1. QED
    BY <1>5 DEF Max
<1>7. QED
  <2>1. X \subseteq Int
    OBVIOUS
  <2> HIDE DEF Y
  <2>2. QED
    BY <1>6, <2>1

-----------------------------------------------------------------------------
(* The line that ParseLine is given.                                        *)

LEMMA StopIs ==
    ASSUME NEW bytes \in Seq(Byte), NEW n \in 0..Len(bytes)
    PROVE  /\ StopOf(bytes, n + 1) \in n..Len(bytes)
           /\ \A j \in (n + 1)..StopOf(bytes, n + 1) : ~Is(bytes[j], LF)
           /\ StopOf(bytes, n + 1) < Len(bytes) => Is(bytes[StopOf(bytes, n + 1) + 1], LF)
<1> DEFINE X == Ends(bytes, n + 1)
<1>1. Len(bytes) \in Nat /\ n \in Nat
  BY LenProperties
<1>2. X \subseteq Nat /\ \A x \in X : x \in (n + 1)..Len(bytes) /\ Is(bytes[x], LF)
  BY <1>1 DEF Ends
<1>3. \A x \in (n + 1)..Len(bytes) : Is(bytes[x], LF) => x \in X
  BY DEF Ends
<1>4. StopOf(bytes, n + 1) = IF X = {} THEN Len(bytes) ELSE Min(X) - 1
  BY DEF StopOf
<1> HIDE DEF X
<1>5. CASE X = {}
  BY <1>1, <1>3, <1>4, <1>5
<1>6. CASE X # {}
  <2>1. Min(X) \in X /\ \A x \in X : Min(X) <= x
    BY <1>2, <1>6, MinIs
  <2>2. Min(X) \in (n + 1)..Len(bytes) /\ Is(bytes[Min(X)], LF)
    BY <1>2, <2>1
  <2>3. StopOf(bytes, n + 1) = Min(X) - 1
    BY <1>4, <1>6
  <2>4. ASSUME NEW j \in (n + 1)..(Min(X) - 1) PROVE ~Is(bytes[j], LF)
    <3>1. j \in (n + 1)..Len(bytes) /\ ~(Min(X) <= j)
      BY <1>1, <2>2
    <3>2. QED
      BY <1>3, <2>1, <3>1
  <2>5. (Min(X) - 1) + 1 = Min(X) /\ Min(X) - 1 \in n..Len(bytes)
    BY <1>1, <2>2
  <2>6. QED
    BY <2>2, <2>3, <2>4, <2>5
<1>7. QED
  BY <1>5, <1>6

LEMMA LineIs ==
    ASSUME given \in Seq(Byte), at \in 0..Len(given)
    PROVE  /\ LineStop \in at..Len(given)
           /\ Line \in Seq(Byte) /\ Len(Line) = LineStop - at
           /\ \A j \in 1..Len(Line) : Line[j] = given[at + j] /\ ~Is(Line[j], LF)
           /\ LineStop < Len(given) => Is(given[LineStop + 1], LF)
<1>1. Len(given) \in Nat /\ at \in Nat
  BY LenProperties
<1>2. /\ LineStop \in at..Len(given)
      /\ \A j \in (at + 1)..LineStop : ~Is(given[j], LF)
      /\ LineStop < Len(given) => Is(given[LineStop + 1], LF)
  BY StopIs DEF LineStop
<1>3. /\ Line \in Seq(Byte) /\ Len(Line) = LineStop - at
      /\ \A j \in 1..(LineStop - at) : Line[j] = given[at + j]
  BY <1>1, <1>2, Piece DEF Line
<1>4. ASSUME NEW j \in 1..(LineStop - at) PROVE ~Is(given[at + j], LF)
  <2>1. at + j \in (at + 1)..LineStop
    BY <1>1, <1>2
  <2>2. QED
    BY <1>2, <2>1
<1>5. QED
  BY <1>2, <1>3, <1>4

\* An end of line was counted where there was one.
LEMMA MoreIs ==
    ASSUME given \in Seq(Byte), at \in 0..Len(given), ProcessedLength = at
    PROVE  Counted = LineStop /\ (More <=> LineStop < Len(given))
<1>1. Len(given) \in Nat
  BY LenProperties
<1>2. LineStop \in at..Len(given) /\ Len(Line) = LineStop - at
  BY LineIs
<1>3. Counted = LineStop
  BY <1>1, <1>2 DEF Counted
<1>4. QED
  BY <1>3 DEF More

-----------------------------------------------------------------------------
(* What was given, in the message at hand.                                  *)

\* S[p] is where message k begins; the parser is at its byte q.
At(S, E, k, q) ==
    /\ Laid(S, E) /\ InStream(S)
    /\ k \in 1..Len(sent) /\ q \in 0..Len(sent[k].wire)
    /\ Used(S) = E[k - 1] + q

LEMMA WireIs ==
    ASSUME SentInv, NEW k \in 1..Len(sent)
    PROVE  sent[k] \in Messages /\ sent[k].wire \in Seq(Byte) /\ Len(sent[k].wire) \in Nat
<1>1. sent[k] \in Messages
  BY ElementOfSeq DEF SentInv
<1>2. sent[k].wire \in Seq(Byte)
  BY <1>1, MessageAssumption
<1>3. QED
  BY <1>1, <1>2, LenProperties

LEMMA StreamTypes ==
    ASSUME NEW S, NEW E, SentInv, Laid(S, E), InStream(S)
    PROVE  /\ Len(S) \in Nat /\ Len(given) \in Nat /\ Len(wire) \in Nat /\ Len(sent) \in Nat
           /\ Used(S) \in Nat /\ Used(S) <= Len(S)
           /\ Used(S) + (Len(given) - at) + Len(wire) = Len(S)
<1>1. Len(S) \in Nat /\ Len(given) \in Nat /\ Len(wire) \in Nat /\ Len(sent) \in Nat
  BY LenProperties DEF Laid, InStream, SentInv
<1>2. at \in 0..Len(given) /\ Len(given) + Len(wire) <= Len(S)
  BY DEF InStream
<1>3. QED
  BY <1>1, <1>2 DEF Used

LEMMA EndsAre ==
    ASSUME NEW S, NEW E, SentInv, Laid(S, E), NEW k \in 1..Len(sent)
    PROVE  /\ E[k - 1] \in Nat /\ E[k] \in Nat /\ E[k] = E[k - 1] + Len(sent[k].wire)
           /\ E[k] <= Len(S)
<1>1. Len(sent) \in Nat
  BY LenProperties DEF SentInv
<1>2. k \in 0..Len(sent) /\ k - 1 \in 0..Len(sent) /\ Len(sent) \in k..Len(sent)
  BY <1>1
<1>3. E \in [0..Len(sent) -> Nat] /\ E[k] = E[k - 1] + Len(sent[k].wire)
  BY DEF Laid
<1>4. E[k] <= E[Len(sent)] /\ E[Len(sent)] = Len(S)
  BY <1>2 DEF Laid
<1>5. QED
  BY <1>2, <1>3, <1>4

\* a byte that was given and not taken is the one of the message
LEMMA GivenIs ==
    ASSUME NEW S, NEW E, NEW k, NEW q, SentInv, At(S, E, k, q),
           NEW j \in 1..(Len(given) - at), q + j <= Len(sent[k].wire)
    PROVE  given[at + j] = sent[k].wire[q + j]
<1> DEFINE n == Len(S) - Len(wire) - Len(given)
<1>1. /\ Len(S) \in Nat /\ Len(given) \in Nat /\ Len(wire) \in Nat
      /\ at \in 0..Len(given) /\ Len(given) + Len(wire) <= Len(S)
  BY StreamTypes DEF At, InStream
<1>2. at + j \in 1..Len(given)
  BY <1>1
<1>3. given[at + j] = S[n + (at + j)]
  BY <1>2 DEF At, InStream
<1>4. /\ k \in 1..Len(sent) /\ E[k - 1] \in Nat /\ q \in 0..Len(sent[k].wire)
      /\ Len(sent[k].wire) \in Nat
  BY EndsAre, WireIs DEF At
<1>5. n + at = E[k - 1] + q
  BY DEF At, Used
<1>6. n + (at + j) = E[k - 1] + (q + j)
  <2>1. n \in Int /\ at \in Nat /\ j \in Nat /\ q \in Nat /\ E[k - 1] \in Nat
    BY <1>1, <1>4
  <2> HIDE DEF n
  <2>2. QED
    BY <1>5, <2>1
<1>7. q + j \in 1..Len(sent[k].wire)
  BY <1>1, <1>4
<1>8. S[E[k - 1] + (q + j)] = sent[k].wire[q + j]
  BY <1>4, <1>7 DEF At, Laid
<1>9. QED
  BY <1>3, <1>6, <1>8

\* where the bytes that were given end, a read may end
LEMMA GivenEnds ==
    ASSUME NEW S, NEW E, NEW k, NEW q, SentInv, At(S, E, k, q), ReadInv, at < Len(given),
           q + (Len(given) - at) <= Len(sent[k].wire)
    PROVE  sent[k].wire[q + (Len(given) - at)].cut
<1>1. Len(given) \in Nat /\ at \in 0..Len(given)
  BY StreamTypes DEF At, InStream
<1>2. given # <<>>
  <2>1. Len(<<>>) = 0
    OBVIOUS
  <2>2. QED
    BY <1>1, <2>1
<1>3. Len(given) - at \in 1..(Len(given) - at) /\ at + (Len(given) - at) = Len(given)
  BY <1>1
<1>4. given[at + (Len(given) - at)] = sent[k].wire[q + (Len(given) - at)]
  BY <1>3, GivenIs
<1>5. QED
  BY <1>2, <1>3, <1>4 DEF ReadInv

\* the line, as far as it is in the message
LEMMA LineInMessage ==
    ASSUME NEW S, NEW E, NEW k, NEW q, SentInv, At(S, E, k, q),
           q + Len(Line) <= Len(sent[k].wire)
    PROVE  Line = SubSeq(sent[k].wire, q + 1, q + Len(Line))
<1> DEFINE w == sent[k].wire
<1>1. /\ k \in 1..Len(sent) /\ q \in 0..Len(w) /\ w \in Seq(Byte) /\ Len(w) \in Nat
      /\ given \in Seq(Byte) /\ at \in 0..Len(given) /\ Len(given) \in Nat
  BY WireIs, StreamTypes DEF At, InStream
<1>2. /\ LineStop \in at..Len(given) /\ Line \in Seq(Byte) /\ Len(Line) = LineStop - at
      /\ \A j \in 1..Len(Line) : Line[j] = given[at + j]
  BY <1>1, LineIs
<1>3. ASSUME NEW j \in 1..Len(Line) PROVE Line[j] = w[q + j]
  <2>1. j \in 1..(Len(given) - at) /\ q + j <= Len(w)
    BY <1>1, <1>2
  <2>2. given[at + j] = w[q + j]
    BY <2>1, GivenIs
  <2>3. QED
    BY <1>2, <2>2
<1>4. q \in Nat /\ q + Len(Line) \in q..Len(w) /\ (q + Len(Line)) - q = Len(Line)
  BY <1>1, <1>2
<1> HIDE DEF w
<1>5. Line = SubSeq(w, q + 1, q + Len(Line))
  BY <1>1, <1>2, <1>3, <1>4, IsPiece
<1>6. QED
  BY <1>5 DEF w

\* A line of the message that goes on to x, or to where what was given ends.
LEMMA LineTo ==
    ASSUME NEW S, NEW E, NEW k, NEW q, SentInv, At(S, E, k, q), ReadInv, at < Len(given),
           ProcessedLength = at,
           NEW x \in (q + 1)..Len(sent[k].wire), Is(sent[k].wire[x], LF),
           \A j \in (q + 1)..(x - 1) : ~Is(sent[k].wire[j], LF)
    PROVE  /\ q + Len(Line) < x /\ Len(Line) \in Nat
           /\ Line = SubSeq(sent[k].wire, q + 1, q + Len(Line))
           /\ More => q + Len(Line) + 1 = x
           /\ ~More => Len(Line) > 0 /\ sent[k].wire[q + Len(Line)].cut
<1> DEFINE w == sent[k].wire
           r == Len(given) - at
<1>1. /\ k \in 1..Len(sent) /\ q \in 0..Len(w) /\ w \in Seq(Byte) /\ Len(w) \in Nat
      /\ given \in Seq(Byte) /\ at \in 0..Len(given) /\ Len(given) \in Nat
  BY WireIs, StreamTypes DEF At, InStream
<1>2. /\ LineStop \in at..Len(given) /\ Len(Line) = LineStop - at
      /\ \A j \in 1..Len(Line) : Line[j] = given[at + j] /\ ~Is(Line[j], LF)
      /\ LineStop < Len(given) => Is(given[LineStop + 1], LF)
  BY <1>1, LineIs
<1>3. More <=> LineStop < Len(given)
  BY <1>1, MoreIs
<1>4. \A j \in 1..r : q + j <= Len(w) => given[at + j] = w[q + j]
  BY GivenIs
<1>5. q + Len(Line) < x
  <2>1. SUFFICES ASSUME x <= q + Len(Line) PROVE FALSE
    BY <1>1, <1>2
  <2>2. x - q \in 1..Len(Line) /\ x - q \in 1..r /\ q + (x - q) = x /\ x <= Len(w)
    BY <1>1, <1>2, <2>1
  <2>3. Line[x - q] = w[x] /\ ~Is(Line[x - q], LF)
    BY <1>2, <1>4, <2>2
  <2>4. QED
    BY <2>3
<1>6. ASSUME More PROVE q + Len(Line) + 1 = x
  <2>1. LineStop < Len(given) /\ Is(given[LineStop + 1], LF)
    BY <1>2, <1>3, <1>6
  <2>2. Len(Line) + 1 \in 1..r /\ q + (Len(Line) + 1) <= Len(w)
        /\ at + (Len(Line) + 1) = LineStop + 1
    BY <1>1, <1>2, <1>5, <2>1
  <2>3. Is(w[q + (Len(Line) + 1)], LF)
    BY <1>4, <2>1, <2>2
  <2>4. ~(q + (Len(Line) + 1) \in (q + 1)..(x - 1))
    BY <2>3
  <2>5. QED
    BY <1>1, <1>2, <1>5, <2>4
<1>7. ASSUME ~More PROVE Len(Line) > 0 /\ w[q + Len(Line)].cut
  <2>1. LineStop = Len(given) /\ Len(Line) = r /\ r > 0
    BY <1>1, <1>2, <1>3, <1>7
  <2>2. q + r <= Len(w)
    BY <1>1, <1>2, <1>5, <2>1
  <2>3. w[q + r].cut
    BY <2>2, GivenEnds
  <2>4. QED
    BY <2>1, <2>3
<1>8. Line = SubSeq(w, q + 1, q + Len(Line))
  <2>1. q + Len(Line) <= Len(w)
    BY <1>1, <1>2, <1>5
  <2>2. QED
    BY <2>1, LineInMessage
<1>9. Len(Line) \in Nat
  BY <1>1, <1>2
<1>10. QED
  BY <1>5, <1>6, <1>7, <1>8, <1>9

\* How far a line moves the parser.
LEMMA TakeMoves ==
    ASSUME NEW S, NEW E, SentInv, Laid(S, E), InStream(S), Take, ProcessedLength = at
    PROVE  /\ InStream(S)' /\ Laid(S, E)' /\ SentInv' /\ extracted' = extracted
           /\ at' = at + Len(Line) + (IF More THEN 1 ELSE 0)
           /\ Used(S)' = Used(S) + Len(Line) + (IF More THEN 1 ELSE 0)
           /\ Len(Line) \in Nat /\ given' = given /\ wire' = wire /\ sent' = sent
           /\ at' > 0 /\ Used(S)' > Used(S)
           /\ ~More => at' = Len(given)
           /\ at < Len(given) /\ ~threw
<1>1. /\ given \in Seq(Byte) /\ at \in 0..Len(given) /\ Len(given) \in Nat
      /\ Len(S) \in Nat /\ Len(wire) \in Nat
  BY StreamTypes DEF InStream
<1>2. LineStop \in at..Len(given) /\ Len(Line) = LineStop - at
  BY <1>1, LineIs
<1>3. More <=> LineStop < Len(given)
  BY <1>1, MoreIs
<1>4. /\ at < Len(given) /\ ~threw
      /\ at' = IF LineStop = Len(given) THEN LineStop ELSE LineStop + 1
      /\ wire' = wire /\ sent' = sent /\ given' = given /\ extracted' = extracted
  BY DEF Take, input
<1>5. /\ at' = at + Len(Line) + (IF More THEN 1 ELSE 0) /\ at' \in 0..Len(given)
      /\ at' > at /\ (~More => at' = Len(given)) /\ Len(Line) \in Nat
  BY <1>1, <1>2, <1>3, <1>4
<1>6. InStream(S)'
  BY <1>4, <1>5 DEF InStream
<1>7. Laid(S, E)' /\ SentInv'
  BY <1>4 DEF Laid, SentInv
<1>8. Used(S)' = Used(S) + (at' - at)
  BY <1>1, <1>4, <1>5 DEF Used
<1>9. Used(S) \in Nat
  BY StreamTypes
<1>10. QED
  BY <1>1, <1>4, <1>5, <1>6, <1>7, <1>8, <1>9

-----------------------------------------------------------------------------
(* A header line.                                                           *)

LEMMA GoodIs ==
    ASSUME NEW m \in Messages, ~m.bad
    PROVE  /\ m.wire \in Seq(Byte) /\ Len(m.wire) \in Nat /\ m.wire # <<>>
           /\ m.head \in 1..Len(m.wire) /\ m.parsed.body \in Seq(Byte)
           /\ m.chunks \in Seq([from : Nat, start : Nat, size : Nat, before : Nat])
           /\ \A j \in 1..Len(m.wire) : Is(m.wire[j], LF) => m.wire[j] = LineEnd
           /\ HasHead(m)
<1>1. /\ m.wire \in Seq(Byte) /\ m.parsed.body \in Seq(Byte) /\ WellFormed(m)
      /\ m.chunks \in Seq([from : Nat, start : Nat, size : Nat, before : Nat])
  BY MessageAssumption
<1>2. Len(m.wire) \in Nat /\ DOMAIN m.wire = 1..Len(m.wire)
  BY <1>1, LenProperties
<1>3. /\ \A j \in 1..Len(m.wire) : Is(m.wire[j], LF) => m.wire[j] = LineEnd
      /\ HasHead(m)
  BY <1>1, <1>2 DEF WellFormed
<1>4. m.wire # <<>> /\ m.head \in 1..Len(m.wire)
  BY <1>2, <1>3 DEF HasHead
<1>5. QED
  BY <1>1, <1>2, <1>3, <1>4

\* a line of w from behind q, with n bytes: is it blank?
LEMMA BlankIs ==
    ASSUME NEW w \in Seq(Byte), NEW q \in Nat, NEW n \in Nat, q + n <= Len(w)
    PROVE  Blank(SubSeq(w, q + 1, q + n)) <=> (n = 0 \/ (n = 1 /\ Is(w[q + 1], CR)))
<1> DEFINE line == SubSeq(w, q + 1, q + n)
<1>1. line \in Seq(Byte) /\ Len(line) = n /\ \A j \in 1..n : line[j] = w[q + j]
  <2>1. Len(w) \in Nat
    BY LenProperties
  <2>2. q + n \in q..Len(w) /\ (q + n) - q = n
    BY <2>1
  <2>3. QED
    BY <2>2, Piece
<1> HIDE DEF line
<1>2. line = <<>> <=> n = 0
  BY <1>1, EmptySeq
<1>3. n = 1 => line[1] = w[q + 1]
  BY <1>1
<1>4. Blank(line) <=> (n = 0 \/ (n = 1 /\ Is(w[q + 1], CR)))
  BY <1>1, <1>2, <1>3 DEF Blank
<1>5. QED
  BY <1>4 DEF line

\* The blank line is the one that ends the headers.
LEMMA EndIsBlank ==
    ASSUME NEW m \in Messages, ~m.bad, NEW q \in 0..(m.head - 1), NEW n \in Nat,
           q + n + 1 <= m.head, Is(m.wire[q + n + 1], LF),
           \A j \in (q + 1)..(q + n) : ~Is(m.wire[j], LF),
           q = 0 \/ Is(m.wire[q], LF)
    PROVE  (n = 0 \/ (n = 1 /\ Is(m.wire[q + 1], CR))) <=> q + n + 1 = m.head
<1> DEFINE w == m.wire
           h == m.head
           y == q + n + 1
<1>1. /\ h \in 1..Len(w) /\ Len(w) \in Nat /\ ~Is(w[1], CR) /\ ~Is(w[1], LF)
      /\ EndsHead(w, h) /\ \A j \in 1..(h - 1) : ~EndsHead(w, j)
  BY GoodIs DEF HasHead
<1>2. /\ \A j \in (q + 1)..(q + n) : ~Is(w[j], LF)
      /\ Is(w[y], LF) /\ y <= h /\ (q = 0 \/ Is(w[q], LF))
  OBVIOUS
<1>3. \A j \in Nat : EndsHead(w, j) <=>
        /\ j > 2 /\ Is(w[j], LF)
        /\ Is(w[j - 1], LF) \/ (Is(w[j - 1], CR) /\ Is(w[j - 2], LF))
  BY DEF EndsHead
<1>4. q \in Nat /\ h \in Nat /\ y \in 1..h
  BY <1>1, <1>2
<1>5. \A byte : ~(Is(byte, CR) /\ Is(byte, LF))
  BY DEF Is, CR, LF
<1> HIDE DEF w, h
<1>6. ASSUME n = 0 PROVE y = h
  <2>1. y = q + 1 /\ q # 0
    BY <1>1, <1>2, <1>4, <1>6
  <2>2. q # 1 /\ Is(w[q], LF)
    BY <1>1, <1>2, <2>1
  <2>3. y > 2 /\ y - 1 = q
    BY <1>4, <2>1, <2>2
  <2>4. EndsHead(w, y)
    BY <1>2, <1>3, <1>4, <2>2, <2>3
  <2>5. QED
    BY <1>1, <1>4, <2>4
<1>7. ASSUME n = 1, Is(w[q + 1], CR) PROVE y = h
  <2>1. y = q + 2 /\ q # 0
    BY <1>1, <1>2, <1>4, <1>7
  <2>2. y > 2 /\ y - 1 = q + 1 /\ y - 2 = q /\ Is(w[q], LF)
    BY <1>2, <1>4, <2>1
  <2>3. EndsHead(w, y)
    BY <1>2, <1>3, <1>4, <1>7, <2>2
  <2>4. QED
    BY <1>1, <1>4, <2>3
<1>8. ASSUME y = h PROVE n = 0 \/ (n = 1 /\ Is(w[q + 1], CR))
  <2>1. y > 2 /\ (Is(w[y - 1], LF) \/ (Is(w[y - 1], CR) /\ Is(w[y - 2], LF)))
    BY <1>1, <1>3, <1>4, <1>8
  <2>2. y - 1 = q + n
    BY <1>4
  <2>3. CASE n = 0
    BY <2>3
  <2>4. CASE n > 0
    <3>1. ~Is(w[y - 1], LF)
      <4>1. y - 1 \in (q + 1)..(q + n)
        BY <1>4, <2>2, <2>4
      <4>2. QED
        BY <1>2, <4>1
    <3>2. Is(w[y - 1], CR) /\ Is(w[y - 2], LF)
      BY <2>1, <3>1
    <3>3. ~(y - 2 \in (q + 1)..(q + n))
      BY <1>2, <3>2
    <3>4. n = 1 /\ y - 1 = q + 1
      BY <1>4, <2>2, <2>4, <3>3
    <3>5. QED
      BY <3>2, <3>4
  <2>5. QED
    BY <2>3, <2>4
<1>9. QED
  BY <1>6, <1>7, <1>8 DEF w, h

\* A line that was begun in an earlier read is not blank.
LEMMA BegunIsNotBlank ==
    ASSUME NEW m \in Messages, ~m.bad, NEW q \in 1..(m.head - 1), q + 1 < m.head,
           Is(m.wire[q + 1], LF), ~Is(m.wire[q], LF)
    PROVE  ~Blank(LastLine(SubSeq(m.wire, 1, q)))
<1> DEFINE w == m.wire
           h == m.head
           bytes == SubSeq(w, 1, q)
           X == Ends(bytes, 1) \cup {0}
           y == Max(X)
<1>1. /\ w \in Seq(Byte) /\ h \in 1..Len(w) /\ Len(w) \in Nat /\ ~Is(w[1], CR)
      /\ \A j \in 1..(h - 1) : ~EndsHead(w, j)
  BY GoodIs DEF HasHead
<1>2. Is(w[q + 1], LF) /\ ~Is(w[q], LF) /\ q + 1 < h /\ q \in 1..Len(w) /\ q \in Nat
  BY <1>1
<1>3. bytes \in Seq(Byte) /\ Len(bytes) = q /\ \A j \in 1..q : bytes[j] = w[j]
  <2>1. 0 \in Nat /\ q \in 0..Len(w) /\ 0 + 1 = 1 /\ q - 0 = q
    BY <1>2
  <2>2. /\ SubSeq(w, 0 + 1, q) \in Seq(Byte) /\ Len(SubSeq(w, 0 + 1, q)) = q - 0
        /\ \A j \in 1..(q - 0) : SubSeq(w, 0 + 1, q)[j] = w[0 + j]
    BY <1>1, <2>1, Piece
  <2>3. \A j \in 1..q : 0 + j = j
    OBVIOUS
  <2>4. QED
    BY <2>1, <2>2, <2>3
<1> HIDE DEF w, h, bytes
<1>4. X \subseteq 0..q /\ X # {} /\ \A x \in X : x = 0 \/ Is(w[x], LF)
  BY <1>2, <1>3 DEF Ends
<1> HIDE DEF X
<1>5. y \in 0..q /\ (y = 0 \/ Is(w[y], LF))
  <2>1. y \in X
    BY <1>2, <1>4, MaxIs
  <2>2. QED
    BY <1>4, <2>1
<1>6. LastLine(bytes) = SubSeq(bytes, y + 1, y + (q - y))
  <2>1. LastLine(bytes) = SubSeq(bytes, y + 1, Len(bytes))
    BY DEF LastLine, X, y
  <2> HIDE DEF y
  <2>2. y + (q - y) = Len(bytes)
    BY <1>2, <1>3, <1>5
  <2>3. QED
    BY <2>1, <2>2
<1>7. y # q
  BY <1>2, <1>5
<1> HIDE DEF y
<1>8. Blank(LastLine(bytes)) => q - y = 1 /\ Is(bytes[y + 1], CR)
  <2>1. y \in Nat /\ q - y \in Nat /\ y + (q - y) <= Len(bytes) /\ q - y # 0
    BY <1>2, <1>3, <1>5, <1>7
  <2> DEFINE n == q - y
  <2>2. n \in Nat /\ y + n <= Len(bytes) /\ n # 0
    BY <2>1
  <2>3. LastLine(bytes) = SubSeq(bytes, y + 1, y + n)
    BY <1>6
  <2> HIDE DEF n
  <2>4. Blank(SubSeq(bytes, y + 1, y + n)) => (n = 0 \/ (n = 1 /\ Is(bytes[y + 1], CR)))
    BY <1>3, <2>1, <2>2, BlankIs
  <2>5. Blank(LastLine(bytes)) => n = 1 /\ Is(bytes[y + 1], CR)
    BY <2>2, <2>3, <2>4
  <2>6. QED
    BY <2>5 DEF n
<1>9. ASSUME q - y = 1, Is(bytes[y + 1], CR) PROVE FALSE
  <2>1. y + 1 = q /\ Is(w[q], CR)
    BY <1>2, <1>3, <1>5, <1>9
  <2>2. y # 0
    BY <1>1, <2>1
  <2>3. q + 1 > 2 /\ (q + 1) - 1 = q /\ (q + 1) - 2 = y /\ Is(w[y], LF)
    BY <1>2, <1>5, <2>1, <2>2
  <2>4. EndsHead(w, q + 1)
    BY <1>2, <2>1, <2>3 DEF EndsHead
  <2>5. q + 1 \in 1..(h - 1)
    BY <1>1, <1>2
  <2>6. QED
    BY <1>1, <2>4, <2>5
<1>10. QED
  BY <1>8, <1>9 DEF bytes, w

\* The headers are complete: a message without a body is queued, the body of another is next.
HeadDone(m, parsed) ==
    \/ /\ m.chunks = <<>> /\ Len(m.wire) = m.head
       /\ ParsedData' = Append(parsed, m.parsed)
       /\ CurrentRequest' = <<>> /\ InContent' = FALSE
    \/ /\ m.chunks # <<>> \/ Len(m.wire) > m.head
       /\ ParsedData' = parsed
       /\ CurrentRequest' = SubSeq(m.wire, 1, m.head)
       /\ InContent' = TRUE /\ ChunkedEncoding' = (m.chunks # <<>>)
       /\ CurrentFirstLine' = m.parsed.first /\ CurrentHeaders' = m.parsed.headers
       /\ ContentLength' = IF m.chunks = <<>> THEN Len(m.wire) - m.head ELSE 0
       /\ OriginalContentLength' = ContentLength'

\* n bytes of a line of the head behind its first q bytes; "more" if its end follows
HeadPiece(m, q, n, isFirst, more) ==
    /\ q + n < m.head
    /\ \A j \in (q + 1)..(q + n) : ~Is(m.wire[j], LF)
    /\ more => Is(m.wire[q + n + 1], LF)
    /\ ~more => n > 0 /\ m.wire[q + n].cut
    /\ \/ q = 0 \/ Is(m.wire[q], LF)
       \/ isFirst = TRUE /\ q + 1 < m.head /\ Is(m.wire[q + 1], LF)

\* The line ends the head, or the parser is in it at y.
HeadTo(m, parsed, q, n) ==
    \/ More /\ q + n + 1 = m.head /\ HeadDone(m, parsed)
    \/ \E y \in 1..(m.head - 1) :
          /\ y = q + n + (IF More THEN 1 ELSE 0)
          /\ CurrentRequest' = SubSeq(m.wire, 1, y) /\ InContent' = FALSE
          /\ ParsedData' = parsed
          /\ Is(m.wire[y], LF) \/ (~More /\ y + 1 < m.head /\ Is(m.wire[y + 1], LF))

LEMMA HeadStep ==
    ASSUME NEW m \in Messages, ~m.bad, NEW q \in 0..(m.head - 1), NEW n \in Nat, NEW parsed,
           NEW isFirst, HeadPiece(m, q, n, isFirst, More),
           HeaderLine(parsed, SubSeq(m.wire, 1, q), SubSeq(m.wire, q + 1, q + n), isFirst)
    PROVE  CountEnd /\ threw' = threw /\ SizeBuf' = SizeBuf /\ HeadTo(m, parsed, q, n)
<1> SUFFICES /\ CountEnd /\ threw' = threw /\ SizeBuf' = SizeBuf
             /\ \/ More /\ q + n + 1 = m.head /\ HeadDone(m, parsed)
                \/ \E y \in 1..(m.head - 1) :
                     /\ y = q + n + (IF More THEN 1 ELSE 0)
                     /\ CurrentRequest' = SubSeq(m.wire, 1, y) /\ InContent' = FALSE
                     /\ ParsedData' = parsed
                     /\ Is(m.wire[y], LF) \/ (~More /\ y + 1 < m.head /\ Is(m.wire[y + 1], LF))
  BY DEF HeadTo
<1> DEFINE w == m.wire
           h == m.head
           bytes == SubSeq(w, 1, q)
           line == SubSeq(w, q + 1, q + n)
           y == q + n + (IF More THEN 1 ELSE 0)
           all == bytes \o line \o (IF More THEN <<LineEnd>> ELSE <<>>)
           continues == isFirst /\ bytes # <<>> /\ ~Is(Last(bytes), LF)
           whole == IF continues THEN LastLine(IF line = <<>> THEN bytes ELSE all) ELSE line
           found == HeadOf(all)
           inContent == found.length > 0 \/ found.chunked
<1>1. /\ w \in Seq(Byte) /\ Len(w) \in Nat /\ h \in 1..Len(w)
      /\ ~Is(w[1], CR) /\ ~Is(w[1], LF) /\ HasHead(m)
      /\ \A j \in 1..Len(w) : Is(w[j], LF) => w[j] = LineEnd
  BY GoodIs DEF HasHead
<1>2. /\ q + n < h
      /\ \A j \in (q + 1)..(q + n) : ~Is(w[j], LF)
      /\ More => Is(w[q + n + 1], LF)
      /\ ~More => n > 0 /\ w[q + n].cut
      /\ q = 0 \/ Is(w[q], LF) \/ (isFirst = TRUE /\ q + 1 < h /\ Is(w[q + 1], LF))
  BY DEF HeadPiece
<1>3. /\ CountEnd /\ threw' = threw /\ SizeBuf' = SizeBuf
      /\ \/ /\ ~Blank(whole)
            /\ CurrentRequest' = all /\ ParsedData' = parsed /\ InContent' = FALSE
         \/ /\ Blank(whole) /\ ~inContent
            /\ ParsedData' = Flushed(parsed, all, found.first, found.headers, 0)
            /\ CurrentRequest' = <<>> /\ InContent' = FALSE
         \/ /\ Blank(whole) /\ inContent
            /\ CurrentRequest' = all
            /\ ParsedData' = parsed
            /\ InContent' = TRUE /\ ChunkedEncoding' = found.chunked
            /\ ContentLength' = found.length /\ OriginalContentLength' = found.length
            /\ CurrentFirstLine' = found.first /\ CurrentHeaders' = found.headers
  BY DEF HeaderLine, Reset
<1>4. q \in Nat /\ h \in Nat /\ y \in 1..h /\ (~More => y < h) /\ q <= Len(w) /\ y <= Len(w)
  BY <1>1, <1>2
<1>5. bytes \in Seq(Byte) /\ Len(bytes) = q /\ \A j \in 1..q : bytes[j] = w[j]
  <2>1. 0 \in Nat /\ q \in 0..Len(w) /\ 0 + 1 = 1 /\ q - 0 = q
    BY <1>4
  <2>2. /\ SubSeq(w, 0 + 1, q) \in Seq(Byte) /\ Len(SubSeq(w, 0 + 1, q)) = q - 0
        /\ \A j \in 1..(q - 0) : SubSeq(w, 0 + 1, q)[j] = w[0 + j]
    BY <1>1, <2>1, Piece
  <2>3. \A j \in 1..q : 0 + j = j
    OBVIOUS
  <2>4. QED
    BY <2>1, <2>2, <2>3
<1>6. all = SubSeq(w, 1, y)
  <2>1. 0 \in Nat /\ q \in 0..Len(w) /\ 0 + 1 = 1 /\ q + n \in q..Len(w)
        /\ q + n \in 0..(Len(w) - 1)
    BY <1>1, <1>2, <1>4
  <2>2. bytes \o line = SubSeq(w, 1, q + n)
    <3>1. SubSeq(w, 0 + 1, q) \o SubSeq(w, q + 1, q + n) = SubSeq(w, 0 + 1, q + n)
      BY <1>1, <2>1, TwoPieces
    <3>2. QED
      BY <2>1, <3>1
  <2>3. CASE More
    <3>1. w[q + n + 1] = LineEnd
      <4>1. q + n + 1 \in 1..Len(w)
        BY <1>1, <2>1
      <4>2. QED
        BY <1>1, <1>2, <2>3, <4>1
    <3>2. SubSeq(w, 0 + 1, q + n) \o <<w[(q + n) + 1]>> = SubSeq(w, 0 + 1, (q + n) + 1)
      BY <1>1, <2>1, PieceAndNext
    <3>3. SubSeq(w, 1, q + n) \o <<LineEnd>> = SubSeq(w, 1, y)
      BY <2>1, <2>3, <3>1, <3>2
    <3>4. QED
      BY <2>2, <2>3, <3>3
  <2>4. CASE ~More
    <3>1. SubSeq(w, 0 + 1, q + n) \in Seq(Byte)
      BY <1>1, <2>1, Piece
    <3>2. SubSeq(w, 1, q + n) \o <<>> = SubSeq(w, 1, q + n)
      BY <2>1, <3>1, ConcatEmptySeq
    <3>3. y = q + n
      BY <2>1, <2>4
    <3>4. QED
      BY <2>2, <2>4, <3>2, <3>3
  <2>5. QED
    BY <2>3, <2>4
<1>7. line = <<>> <=> n = 0
  <2>1. q + n \in q..Len(w) /\ (q + n) - q = n
    BY <1>1, <1>2, <1>4
  <2>2. line \in Seq(Byte) /\ Len(line) = n
    BY <1>1, <1>4, <2>1, Piece
  <2>3. QED
    BY <2>2, EmptySeq
<1> HIDE DEF w, h, bytes, line, all, y
\* a line is blank if and only if it ends the headers, and then its end is there
<1>8. Blank(whole) <=> (More /\ y = h)
  <2>1. CASE q = 0 \/ Is(w[q], LF)
    <3>1. ~continues
      <4>1. bytes # <<>> => q \in 1..q /\ Last(bytes) = bytes[q]
        <5>1. bytes # <<>> => q # 0
          BY <1>5, EmptySeq
        <5>2. QED
          BY <1>4, <1>5, <5>1 DEF Last
      <4>2. bytes # <<>> => Is(Last(bytes), LF)
        BY <1>4, <1>5, <2>1, <4>1
      <4>3. QED
        BY <4>2
    <3>2. whole = line
      BY <3>1
    <3>3. Blank(line) <=> (n = 0 \/ (n = 1 /\ Is(w[q + 1], CR)))
      <4>1. q + n <= Len(w)
        BY <1>1, <1>2, <1>4
      <4>2. QED
        BY <1>1, <1>4, <4>1, BlankIs DEF line
    <3>4. CASE More
      <4>1. q + n + 1 <= h /\ y = q + n + 1
        BY <1>2, <1>4, <3>4 DEF y
      <4>2. (n = 0 \/ (n = 1 /\ Is(w[q + 1], CR))) <=> q + n + 1 = h
        BY <1>2, <2>1, <3>4, <4>1, EndIsBlank DEF w, h
      <4>3. QED
        BY <3>2, <3>3, <3>4, <4>1, <4>2
    <3>5. CASE ~More
      <4>1. n > 0 /\ w[q + n].cut /\ q + n \in 1..(h - 1) /\ ~Is(w[q + n], LF)
        <5>1. n > 0 /\ w[q + n].cut
          BY <1>2, <3>5
        <5>2. q + n \in 1..(h - 1) /\ q + n \in (q + 1)..(q + n)
          BY <1>2, <1>4, <5>1
        <5>3. QED
          BY <1>2, <5>1, <5>2
      <4>2. (q + n) + 1 < h /\ Is(w[(q + n) + 1], LF)
        BY <1>1, <4>1 DEF HasHead, w, h
      <4>3. q + n + 1 <= h /\ Is(w[q + n + 1], LF) /\ q + n + 1 # h
        BY <1>4, <4>2
      <4>4. (n = 0 \/ (n = 1 /\ Is(w[q + 1], CR))) <=> q + n + 1 = h
        BY <1>2, <2>1, <4>3, EndIsBlank DEF w, h
      <4>5. QED
        BY <3>2, <3>3, <3>5, <4>3, <4>4
    <3>6. QED
      BY <3>4, <3>5
  <2>2. CASE q # 0 /\ ~Is(w[q], LF)
    <3>1. isFirst = TRUE /\ q + 1 < h /\ Is(w[q + 1], LF)
      BY <1>2, <2>2
    <3>2. n = 0 /\ More /\ y = q + 1
      <4>1. n = 0
        <5>1. SUFFICES ASSUME n # 0 PROVE FALSE
          OBVIOUS
        <5>2. q + 1 \in (q + 1)..(q + n)
          BY <1>4, <5>1
        <5>3. QED
          BY <1>2, <3>1, <5>2
      <4>2. More
        BY <1>2, <4>1
      <4>3. QED
        BY <1>4, <4>1, <4>2 DEF y
    <3>3. bytes # <<>> /\ ~Is(Last(bytes), LF)
      <4>1. bytes # <<>>
        BY <1>5, <2>2, EmptySeq
      <4>2. Last(bytes) = bytes[q] /\ q \in 1..q
        BY <1>4, <1>5, <2>2 DEF Last
      <4>3. QED
        BY <1>5, <2>2, <4>1, <4>2
    <3>4. whole = LastLine(bytes)
      BY <1>7, <3>1, <3>2, <3>3
    <3>5. ~Blank(LastLine(bytes))
      <4>1. q \in 1..(h - 1)
        BY <1>4, <2>2, <3>1
      <4>2. QED
        BY <2>2, <3>1, <4>1, BegunIsNotBlank DEF w, h, bytes
    <3>6. QED
      BY <1>4, <3>1, <3>2, <3>4, <3>5
  <2>3. QED
    BY <2>1, <2>2
<1> HIDE DEF whole
<1>9. CASE ~Blank(whole)
  <2>1. CurrentRequest' = SubSeq(w, 1, y) /\ ParsedData' = parsed /\ InContent' = FALSE
    BY <1>3, <1>6, <1>9
  <2>2. y \in 1..(h - 1)
    BY <1>4, <1>8, <1>9
  <2>3. Is(w[y], LF) \/ (~More /\ y + 1 < h /\ Is(w[y + 1], LF))
    <3>1. CASE More
      <4>1. y = q + n + 1
        BY <3>1 DEF y
      <4>2. QED
        BY <1>2, <3>1, <4>1
    <3>2. CASE ~More
      <4>1. y = q + n /\ w[y].cut
        BY <1>2, <1>4, <3>2 DEF y
      <4>2. Is(w[y], LF) \/ (y + 1 < h /\ Is(w[y + 1], LF))
        BY <1>1, <2>2, <4>1 DEF HasHead, w, h
      <4>3. QED
        BY <3>2, <4>2
    <3>3. QED
      BY <3>1, <3>2
  <2>4. QED
    BY <1>3, <2>1, <2>2, <2>3 DEF w, h, y
<1>10. CASE Blank(whole)
  <2>1. More /\ y = h /\ all = SubSeq(w, 1, h) /\ q + n + 1 = h
    <3>1. More /\ y = h
      BY <1>8, <1>10
    <3>2. QED
      BY <1>6, <3>1 DEF y
  <2>2. found = [first |-> m.parsed.first, headers |-> m.parsed.headers,
                 length |-> IF m.chunks = <<>> THEN Len(w) - h ELSE 0,
                 chunked |-> m.chunks # <<>>]
    BY <1>1, <2>1 DEF HasHead, w, h
  <2> HIDE DEF found
  <2>3. /\ found.first = m.parsed.first /\ found.headers = m.parsed.headers
        /\ found.length = IF m.chunks = <<>> THEN Len(w) - h ELSE 0
        /\ found.chunked = (m.chunks # <<>>)
    BY <2>2
  <2>4. inContent <=> (m.chunks # <<>> \/ Len(w) > h)
    <3>1. CASE m.chunks = <<>>
      <4>1. found.length = Len(w) - h /\ ~found.chunked
        BY <2>3, <3>1
      <4>2. Len(w) - h > 0 <=> Len(w) > h
        BY <1>1, <1>4
      <4>3. QED
        BY <3>1, <4>1, <4>2
    <3>2. CASE m.chunks # <<>>
      BY <2>3, <3>2
    <3>3. QED
      BY <3>1, <3>2
  <2>5. CASE inContent
    <3>1. /\ CurrentRequest' = SubSeq(w, 1, h) /\ ParsedData' = parsed
          /\ InContent' = TRUE /\ ChunkedEncoding' = (m.chunks # <<>>)
          /\ ContentLength' = found.length /\ OriginalContentLength' = found.length
          /\ CurrentFirstLine' = m.parsed.first /\ CurrentHeaders' = m.parsed.headers
      BY <1>3, <1>10, <2>1, <2>3, <2>5
    <3>2. HeadDone(m, parsed)
      BY <2>3, <2>4, <2>5, <3>1 DEF HeadDone, w, h
    <3>3. QED
      BY <1>3, <2>1, <3>2 DEF h
  <2>6. CASE ~inContent
    <3>1. /\ ParsedData' = Flushed(parsed, all, found.first, found.headers, 0)
          /\ CurrentRequest' = <<>> /\ InContent' = FALSE
      BY <1>3, <1>10, <2>6
    <3>2. m.chunks = <<>> /\ Len(w) = h
      BY <1>1, <1>4, <2>4, <2>6
    <3>3. all = w /\ w # <<>> /\ Len(w) \in Nat
      BY <1>1, <2>1, <3>2, WholePiece, GoodIs DEF w
    <3>4. m.parsed.body = <<>> /\ SubSeq(all, Len(all) - 0 + 1, Len(all)) = <<>>
      <4>1. m.parsed.body = SubSeq(w, h + 1, Len(w))
        BY <3>2, MessageAssumption DEF WellFormed, w, h
      <4>2. SubSeq(w, Len(w) + 1, Len(w)) = <<>>
        BY <3>3, EmptyPiece
      <4>3. Len(w) - 0 + 1 = Len(w) + 1
        BY <3>3
      <4>4. QED
        BY <3>2, <3>3, <4>1, <4>2, <4>3
    <3>5. m.parsed = [first |-> m.parsed.first, headers |-> m.parsed.headers,
                      body |-> m.parsed.body]
      BY MessageAssumption
    <3>6. Flushed(parsed, all, found.first, found.headers, 0) = Append(parsed, m.parsed)
      BY <2>3, <3>3, <3>4, <3>5 DEF Flushed
    <3>7. HeadDone(m, parsed)
      BY <3>1, <3>2, <3>6 DEF HeadDone, w, h
    <3>8. QED
      BY <1>3, <2>1, <3>7 DEF h
  <2>7. QED
    BY <2>5, <2>6
<1>11. QED
  BY <1>9, <1>10

-----------------------------------------------------------------------------
(* What came out.                                                           *)

Extends(s, t) ==
    /\ ASeq(s) /\ ASeq(t) /\ Len(s) <= Len(t)
    /\ \A i \in 1..Len(s) : t[i] = s[i]

LEMMA LenIsNat == ASSUME NEW s, ASeq(s) PROVE Len(s) \in Nat
BY LenProperties DEF ASeq

LEMMA SameExtends == ASSUME NEW s, ASeq(s) PROVE Extends(s, s)
BY LenIsNat DEF Extends

LEMMA AppendExtends ==
    ASSUME NEW s, ASeq(s), NEW e
    PROVE  /\ Extends(s, Append(s, e)) /\ Len(Append(s, e)) = Len(s) + 1
           /\ Append(s, e)[Len(s) + 1] = e
<1>1. PICK T : s \in Seq(T)
  BY DEF ASeq
<1>2. s \in Seq(T \cup {e})
  BY <1>1, SeqMonotonic
<1>3. /\ Append(s, e) \in Seq(T \cup {e}) /\ Len(Append(s, e)) = Len(s) + 1
      /\ \A i \in 1..Len(s) : Append(s, e)[i] = s[i]
      /\ Append(s, e)[Len(s) + 1] = e
  <2>1. e \in T \cup {e}
    OBVIOUS
  <2> DEFINE U == T \cup {e}
  <2>2. s \in Seq(U) /\ e \in U
    BY <1>2, <2>1
  <2> HIDE DEF U
  <2>3. /\ Append(s, e) \in Seq(U) /\ Len(Append(s, e)) = Len(s) + 1
        /\ \A i \in 1..Len(s) : Append(s, e)[i] = s[i]
        /\ Append(s, e)[Len(s) + 1] = e
    BY <2>2, AppendProperties
  <2>4. QED
    BY <2>3 DEF U
<1>4. Len(s) \in Nat
  BY <1>1, LenProperties
<1>5. ASeq(Append(s, e))
  BY <1>3 DEF ASeq
<1>6. QED
  BY <1>3, <1>4, <1>5 DEF Extends

LEMMA ExtendsFurther ==
    ASSUME NEW s, NEW t, NEW u, Extends(s, t), Extends(t, u)
    PROVE  Extends(s, u)
<1>1. Len(s) \in Nat /\ Len(t) \in Nat /\ Len(u) \in Nat
  BY LenIsNat DEF Extends
<1>2. \A i \in 1..Len(s) : i \in 1..Len(t)
  BY <1>1 DEF Extends
<1>3. QED
  BY <1>1, <1>2 DEF Extends

LEMMA JoinIs ==
    ASSUME NEW s, NEW t, ASeq(s), ASeq(t)
    PROVE  /\ ASeq(s \o t) /\ Len(s \o t) = Len(s) + Len(t)
           /\ Len(s) \in Nat /\ Len(t) \in Nat
           /\ \A i \in 1..(Len(s) + Len(t)) :
                 (s \o t)[i] = IF i <= Len(s) THEN s[i] ELSE t[i - Len(s)]
<1>1. PICK T : s \in Seq(T)
  BY DEF ASeq
<1>2. PICK U : t \in Seq(U)
  BY DEF ASeq
<1> DEFINE V == T \cup U
<1>3. s \in Seq(V) /\ t \in Seq(V)
  <2>1. T \subseteq V /\ U \subseteq V
    OBVIOUS
  <2> HIDE DEF V
  <2>2. QED
    BY <1>1, <1>2, <2>1, SeqMonotonic
<1> HIDE DEF V
<1>4. /\ s \o t \in Seq(V) /\ Len(s \o t) = Len(s) + Len(t)
      /\ \A i \in 1..(Len(s) + Len(t)) :
            (s \o t)[i] = IF i <= Len(s) THEN s[i] ELSE t[i - Len(s)]
  BY <1>3, ConcatProperties
<1>5. Len(s) \in Nat /\ Len(t) \in Nat
  BY <1>1, <1>2, LenProperties
<1>6. QED
  BY <1>4, <1>5 DEF ASeq

LEMMA JoinExtends ==
    ASSUME NEW s, NEW t, NEW u, ASeq(s), Extends(t, u)
    PROVE  /\ Extends(s \o t, s \o u)
           /\ Len(s \o u) - Len(s \o t) = Len(u) - Len(t)
           /\ \A i \in 1..Len(u) : (s \o u)[Len(s) + i] = u[i]
<1>1. ASeq(t) /\ ASeq(u) /\ Len(t) <= Len(u) /\ \A i \in 1..Len(t) : u[i] = t[i]
  BY DEF Extends
<1>2. /\ ASeq(s \o t) /\ Len(s \o t) = Len(s) + Len(t) /\ Len(s) \in Nat /\ Len(t) \in Nat
      /\ \A i \in 1..(Len(s) + Len(t)) :
            (s \o t)[i] = IF i <= Len(s) THEN s[i] ELSE t[i - Len(s)]
  BY <1>1, JoinIs
<1>3. /\ ASeq(s \o u) /\ Len(s \o u) = Len(s) + Len(u) /\ Len(u) \in Nat
      /\ \A i \in 1..(Len(s) + Len(u)) :
            (s \o u)[i] = IF i <= Len(s) THEN s[i] ELSE u[i - Len(s)]
  BY <1>1, JoinIs
<1>4. ASSUME NEW i \in 1..(Len(s) + Len(t)) PROVE (s \o u)[i] = (s \o t)[i]
  <2>1. i \in 1..(Len(s) + Len(u))
    BY <1>1, <1>2, <1>3
  <2>2. i > Len(s) => i - Len(s) \in 1..Len(t)
    BY <1>2
  <2>3. QED
    BY <1>1, <1>2, <1>3, <2>1, <2>2
<1>5. ASSUME NEW i \in 1..Len(u) PROVE (s \o u)[Len(s) + i] = u[i]
  <2>1. Len(s) + i \in 1..(Len(s) + Len(u)) /\ ~(Len(s) + i <= Len(s))
        /\ (Len(s) + i) - Len(s) = i
    BY <1>2, <1>3
  <2>2. QED
    BY <1>3, <2>1
<1>6. QED
  BY <1>1, <1>2, <1>3, <1>4, <1>5 DEF Extends

LEMMA GoodAre ==
    ASSUME SentInv
    PROVE  /\ Len(sent) \in Nat /\ Len(Good) \in 0..Len(sent)
           /\ \A i \in 1..Len(Good) :
                 i \in 1..Len(sent) /\ Good[i] = sent[i] /\ Good[i] \in Messages /\ ~Good[i].bad
           /\ Len(Good) < Len(sent) => Len(sent) = Len(Good) + 1 /\ sent[Len(sent)].bad
           /\ Len(Good) = Len(sent) => Good = sent
<1> DEFINE N == Len(sent)
<1>1. N \in Nat /\ sent \in Seq(Messages) /\ \A i \in 1..(N - 1) : ~sent[i].bad
  BY LenProperties DEF SentInv
<1>2. \A i \in 1..N : sent[i] \in Messages
  BY ElementOfSeq DEF SentInv
<1>3. CASE sent # <<>> /\ Last(sent).bad
  <2>1. Good = Front(sent)
    BY <1>3 DEF Good
  <2>2. N # 0 /\ Last(sent) = sent[N]
    BY <1>1, <1>3, EmptySeq DEF Last
  <2>3. Front(sent) = SubSeq(sent, 1, N - 1)
    BY DEF Front
  <2>4. 0 \in Nat /\ N - 1 \in 0..N /\ 0 + 1 = 1 /\ (N - 1) - 0 = N - 1
    BY <1>1, <2>2
  <2>5. /\ Len(SubSeq(sent, 0 + 1, N - 1)) = (N - 1) - 0
        /\ \A j \in 1..((N - 1) - 0) : SubSeq(sent, 0 + 1, N - 1)[j] = sent[0 + j]
    BY <1>1, <2>4, Piece
  <2> HIDE DEF N
  <2>6. Len(Good) = N - 1 /\ \A i \in 1..(N - 1) : Good[i] = sent[i]
    <3>1. \A i \in 1..(N - 1) : 0 + i = i
      OBVIOUS
    <3>2. QED
      BY <2>1, <2>3, <2>4, <2>5, <3>1
  <2>7. \A i \in 1..(N - 1) : i \in 1..N
    BY <1>1
  <2>8. Len(Good) \in 0..N /\ N = Len(Good) + 1 /\ Len(Good) # N
    BY <1>1, <2>2, <2>6
  <2>9. QED
    BY <1>1, <1>2, <1>3, <2>2, <2>6, <2>7, <2>8 DEF N
<1>4. CASE ~(sent # <<>> /\ Last(sent).bad)
  <2>1. Good = sent
    BY <1>4 DEF Good
  <2>2. N # 0 => ~sent[N].bad
    <3>1. ASSUME N # 0 PROVE ~sent[N].bad
      <4>1. sent # <<>> /\ Last(sent) = sent[N]
        BY <1>1, <3>1, EmptySeq DEF Last
      <4>2. QED
        BY <1>4, <4>1
    <3>2. QED
      BY <3>1
  <2>3. \A i \in 1..N : ~sent[i].bad
    <3>1. ASSUME NEW i \in 1..N PROVE ~sent[i].bad
      <4>1. i \in 1..(N - 1) \/ (i = N /\ N # 0)
        BY <1>1
      <4>2. QED
        BY <1>1, <2>2, <4>1
    <3>2. QED
      BY <3>1
  <2>4. QED
    BY <1>1, <1>2, <2>1, <2>3 DEF N
<1>5. QED
  BY <1>3, <1>4

LEMMA ParsedIs ==
    ASSUME OutInv
    PROVE  ASeq(Parsed) /\ Len(Parsed) \in Nat /\ Len(Parsed) = Len(extracted) + Len(ParsedData)
BY JoinIs, LenIsNat DEF OutInv, Parsed

LEMMA SameGood == ASSUME sent' = sent PROVE Good' = Good
BY DEF Good

\* New messages that are those which were sent keep OutInv.
LEMMA OutStep ==
    ASSUME OutInv, SentInv, sent' = sent, extracted' = extracted, Extends(ParsedData, ParsedData'),
           \A i \in (Len(Parsed) + 1)..Len(Good) :
              i <= Len(Parsed') => Parsed'[i] = Good[i].parsed
    PROVE  OutInv' /\ Extends(Parsed, Parsed') /\ Len(Parsed') \in Nat
<1>1. Parsed = extracted \o ParsedData /\ Parsed' = extracted \o ParsedData'
  BY DEF Parsed
<1>2. ASeq(extracted) /\ ASeq(ParsedData) /\ ASeq(ParsedData')
  BY DEF OutInv, Extends
<1>3. Extends(Parsed, Parsed')
  BY <1>1, <1>2, JoinExtends
<1>4. Good' = Good
  BY SameGood
<1>5. Len(Parsed) \in Nat /\ Len(Parsed') \in Nat
  BY <1>3, LenIsNat DEF Extends
<1>6. Len(Good) \in Nat
  BY GoodAre
<1>7. ASSUME NEW i \in 1..Len(Good), i <= Len(Parsed') PROVE Parsed'[i] = Good[i].parsed
  <2>1. CASE i <= Len(Parsed)
    <3>1. i \in 1..Len(Parsed)
      BY <1>5, <2>1
    <3>2. Parsed'[i] = Parsed[i]
      BY <1>3, <3>1 DEF Extends
    <3>3. Parsed[i] = Good[i].parsed
      BY <2>1 DEF OutInv, RightOut
    <3>4. QED
      BY <3>2, <3>3
  <2>2. CASE ~(i <= Len(Parsed))
    <3>1. i \in (Len(Parsed) + 1)..Len(Good)
      BY <1>5, <1>6, <2>2
    <3>2. QED
      BY <1>7, <3>1
  <2>3. QED
    BY <2>1, <2>2
<1>8. ASeq(ParsedData)' /\ ASeq(extracted)'
  BY <1>2 DEF ASeq
<1>9. QED
  BY <1>3, <1>4, <1>5, <1>7, <1>8 DEF OutInv, RightOut

\* One message more comes out, and it is the next that was sent.
LEMMA OneMore ==
    ASSUME SentInv, ASeq(extracted), NEW p, ASeq(p), RightOut(extracted \o p),
           NEW k \in 1..Len(Good), Len(extracted \o p) = k - 1
    PROVE  LET next == Append(p, Good[k].parsed)
           IN  /\ ASeq(next) /\ RightOut(extracted \o next) /\ Len(extracted \o next) = k
               /\ Extends(p, next)
<1> DEFINE next == Append(p, Good[k].parsed)
           out == extracted \o p
           more == extracted \o next
<1>1. Extends(p, next) /\ Len(next) = Len(p) + 1 /\ next[Len(p) + 1] = Good[k].parsed
  BY AppendExtends
<1>2. Len(p) \in Nat /\ Len(extracted) \in Nat /\ Len(out) = Len(extracted) + Len(p)
  BY JoinIs
<1> HIDE DEF next
<1>3. /\ Len(more) - Len(out) = Len(next) - Len(p) /\ Extends(out, more)
      /\ \A i \in 1..Len(next) : more[Len(extracted) + i] = next[i]
  BY <1>1, JoinExtends
<1>4. Len(more) \in Nat /\ Len(out) \in Nat
  BY <1>3, LenIsNat DEF Extends
<1> HIDE DEF out, more
<1>5. Len(Good) \in Nat /\ k \in Nat /\ Len(out) = k - 1
  BY GoodAre DEF out
<1>6. Len(more) = k
  BY <1>1, <1>2, <1>3, <1>4, <1>5
<1>7. more[k] = Good[k].parsed
  <2>1. Len(p) + 1 \in 1..Len(next) /\ Len(extracted) + (Len(p) + 1) = k
    BY <1>1, <1>2, <1>5
  <2>2. QED
    BY <1>1, <1>3, <2>1
<1>8. ASSUME NEW i \in 1..Len(Good), i <= Len(more) PROVE more[i] = Good[i].parsed
  <2>1. CASE i = k
    BY <1>7, <2>1
  <2>2. CASE i # k
    <3>1. i \in 1..Len(out) /\ i <= Len(out)
      BY <1>5, <1>6, <1>8, <2>2
    <3>2. more[i] = out[i]
      BY <1>3, <3>1 DEF Extends
    <3>3. out[i] = Good[i].parsed
      BY <3>1 DEF RightOut, out
    <3>4. QED
      BY <3>2, <3>3
  <2>3. QED
    BY <2>1, <2>2
<1>9. RightOut(more) /\ ASeq(next)
  BY <1>1, <1>8 DEF RightOut, Extends
<1>10. QED
  BY <1>1, <1>6, <1>9 DEF next, more

LEMMA NoneMore ==
    ASSUME OutInv, SentInv, sent' = sent, extracted' = extracted, ParsedData' = ParsedData
    PROVE  OutInv' /\ Parsed' = Parsed
<1>1. Parsed' = Parsed
  BY DEF Parsed
<1>2. Len(Parsed) \in Nat /\ Len(Good) \in Nat
  BY ParsedIs, GoodAre
<1>3. \A i \in (Len(Parsed) + 1)..Len(Good) : ~(i <= Len(Parsed'))
  BY <1>1, <1>2
<1>4. Extends(ParsedData, ParsedData')
  BY SameExtends DEF OutInv
<1>5. QED
  BY <1>1, <1>3, <1>4, OutStep

-----------------------------------------------------------------------------
(* A step of ParseLine, wherever it is.                                     *)

LEMMA FlushedExtends ==
    ASSUME NEW parsed, ASeq(parsed), NEW bytes, NEW begin, NEW headers, NEW n
    PROVE  Extends(parsed, Flushed(parsed, bytes, begin, headers, n))
BY SameExtends, AppendExtends DEF Flushed

LEMMA HeaderExtends ==
    ASSUME NEW parsed, ASeq(parsed), NEW bytes, NEW line, NEW isFirst,
           HeaderLine(parsed, bytes, line, isFirst)
    PROVE  Extends(parsed, ParsedData')
<1>1. \/ ParsedData' = parsed
      \/ \E b, f, s : ParsedData' = Flushed(parsed, b, f, s, 0)
  BY DEF HeaderLine
<1>2. QED
  BY <1>1, SameExtends, FlushedExtends

ParseStep ==
    SkipBlank \/ BufferChunkSize \/ ChunkSize \/ ChunkEnds \/ BodyGoesOn \/ BodyEnds
      \/ HeaderGoesOn

LEMMA ParseExtends ==
    ASSUME OutInv, ParseStep
    PROVE  Take /\ Extends(ParsedData, ParsedData')
<1>1. ASeq(ParsedData)
  BY DEF OutInv
<1>2. CASE SkipBlank
  BY <1>1, <1>2, SameExtends DEF SkipBlank
<1>3. CASE BufferChunkSize
  BY <1>1, <1>3, SameExtends DEF BufferChunkSize
<1>4. CASE ChunkSize
  <2>1. Take /\ (ParsedData' = ParsedData
                   \/ \E b, f, s, n : ParsedData' = Flushed(ParsedData, b, f, s, n))
    BY <1>4 DEF ChunkSize
  <2>2. QED
    BY <1>1, <2>1, SameExtends, FlushedExtends
<1>5. CASE ChunkEnds
  BY <1>1, <1>5, SameExtends DEF ChunkEnds
<1>6. CASE BodyGoesOn
  <2>1. Take /\ (ParsedData' = ParsedData
                   \/ \E b, f, s, n : ParsedData' = Flushed(ParsedData, b, f, s, n))
    BY <1>6 DEF BodyGoesOn
  <2>2. QED
    BY <1>1, <2>1, SameExtends, FlushedExtends
<1>7. CASE BodyEnds
  <2> DEFINE parsed == Flushed(ParsedData, Content, CurrentFirstLine, CurrentHeaders,
                               OriginalContentLength)
  <2>1. Take /\ (ParsedData' = parsed \/ HeaderLine(parsed, <<>>, Rest, TRUE))
    BY <1>7 DEF BodyEnds
  <2>2. Extends(ParsedData, parsed)
    BY <1>1, FlushedExtends
  <2> HIDE DEF parsed
  <2>3. ASeq(parsed)
    BY <2>2 DEF Extends
  <2>4. Extends(parsed, ParsedData')
    <3>1. CASE ParsedData' = parsed
      BY <2>3, <3>1, SameExtends
    <3>2. CASE HeaderLine(parsed, <<>>, Rest, TRUE)
      BY <2>3, <3>2, HeaderExtends
    <3>3. QED
      BY <2>1, <3>1, <3>2
  <2>5. QED
    BY <2>1, <2>2, <2>4, ExtendsFurther
<1>8. CASE HeaderGoesOn
  BY <1>1, <1>8, HeaderExtends DEF HeaderGoesOn
<1>9. QED
  BY <1>2, <1>3, <1>4, <1>5, <1>6, <1>7, <1>8 DEF ParseStep

\* Bytes are taken off what was given.
LEMMA TakeKeeps ==
    ASSUME NEW S, NEW E, SentInv, ReadInv, Laid(S, E), InStream(S), Take
    PROVE  /\ SentInv' /\ ReadInv' /\ Laid(S, E)' /\ InStream(S)'
           /\ sent' = sent /\ extracted' = extracted /\ given' = given /\ wire' = wire
           /\ at \in 0..(Len(given) - 1) /\ Len(given) \in Nat
           /\ at' \in Nat /\ at' > at
           /\ Used(S) \in Nat /\ Used(S)' \in Nat /\ Used(S)' > Used(S) /\ Used(S)' <= Len(S)
<1>1. /\ given \in Seq(Byte) /\ at \in 0..Len(given) /\ Len(given) \in Nat
      /\ Len(S) \in Nat /\ Len(wire) \in Nat /\ Used(S) \in Nat
  BY StreamTypes DEF InStream
<1>2. LineStop \in at..Len(given)
  BY <1>1, LineIs
<1>3. /\ at < Len(given)
      /\ at' = IF LineStop = Len(given) THEN LineStop ELSE LineStop + 1
      /\ wire' = wire /\ sent' = sent /\ given' = given /\ extracted' = extracted
  BY DEF Take, input
<1>4. at' \in 0..Len(given) /\ at' > at
  BY <1>1, <1>2, <1>3
<1>5. InStream(S)'
  BY <1>3, <1>4 DEF InStream
<1>6. Laid(S, E)' /\ SentInv'
  BY <1>3 DEF Laid, SentInv
<1>7. Used(S)' = Used(S) + (at' - at)
  BY <1>1, <1>3, <1>4 DEF Used
<1>8. Used(S)' <= Len(S)
  BY <1>1, <1>3, <1>4, <1>5 DEF Used, InStream
<1>9. ReadInv'
  <2>1. given # <<>> /\ at' # 0
    <3>1. Len(<<>>) = 0
      OBVIOUS
    <3>2. QED
      BY <1>1, <1>3, <1>4, <3>1
  <2>2. QED
    BY <1>3, <2>1 DEF ReadInv
<1>10. QED
  BY <1>1, <1>3, <1>4, <1>5, <1>6, <1>7, <1>8, <1>9

\* Behind the well-formed messages nothing that was right becomes wrong.
LEMMA BadStep ==
    ASSUME NEW S, NEW E, SentInv, ReadInv, OutInv, Laid(S, E), InStream(S), InBad(S, E), ParseStep
    PROVE  OutInv' /\ InBad(S, E)'
<1>1. Take /\ Extends(ParsedData, ParsedData')
  BY ParseExtends
<1>2. sent' = sent /\ extracted' = extracted /\ Used(S)' > Used(S) /\ Used(S)' \in Nat /\ Used(S) \in Nat
  BY <1>1, TakeKeeps
<1>3. Len(Parsed) \in Nat /\ Len(Good) \in Nat /\ Len(Good) <= Len(Parsed)
  BY ParsedIs, GoodAre DEF InBad
<1>4. \A i \in (Len(Parsed) + 1)..Len(Good) : FALSE
  BY <1>3
<1>5. OutInv' /\ Extends(Parsed, Parsed') /\ Len(Parsed') \in Nat
  BY <1>1, <1>2, <1>4, OutStep
<1>6. Good' = Good
  BY <1>2, SameGood
<1>7. E[Len(Good)] \in Nat
  <2>1. Len(Good) \in 0..Len(sent)
    BY GoodAre
  <2>2. QED
    BY <2>1 DEF Laid
<1>8. Len(Good) <= Len(Parsed')
  BY <1>3, <1>5 DEF Extends
<1>9. QED
  BY <1>2, <1>5, <1>6, <1>7, <1>8 DEF InBad

-----------------------------------------------------------------------------
(* The peer, the reads and the consumer.                                    *)

LEMMA EmptyIs == ASeq(<<>>) /\ Len(<<>>) = 0 /\ \A T : <<>> \in Seq(T)
BY EmptySeq DEF ASeq

LEMMA HTTPInitInv == HTTPInit => HTTPInv
<1> SUFFICES ASSUME HTTPInit PROVE HTTPInv
  OBVIOUS
<1> DEFINE S == <<>>
           E == [k \in 0..0 |-> 0]
<1>1. /\ sent = <<>> /\ wire = <<>> /\ given = <<>> /\ at = 0 /\ ParsedData = <<>>
      /\ extracted = <<>> /\ threw = FALSE /\ CurrentRequest = <<>> /\ InContent = FALSE
      /\ SizeBuf = <<>> /\ ProcessedLength = 0 /\ IsFirst = TRUE
  BY DEF HTTPInit
<1>2. SentInv
  BY <1>1, EmptyIs DEF SentInv
<1>3. ReadInv
  BY <1>1 DEF ReadInv
<1>4. Parsed = <<>> /\ Good = <<>>
  <2>1. \A T : <<>> \in Seq(T) => <<>> \o <<>> = <<>>
    BY ConcatEmptySeq
  <2>2. <<>> \o <<>> = <<>>
    BY <2>1, EmptyIs
  <2>3. QED
    BY <1>1, <2>2 DEF Parsed, Good
<1>5. OutInv
  BY <1>1, <1>4, EmptyIs DEF OutInv, RightOut
<1>6. Laid(S, E)
  <2>1. E \in [0..0 -> Nat] /\ E[0] = 0
    OBVIOUS
  <2> HIDE DEF E
  <2>2. QED
    BY <1>1, <2>1, EmptyIs DEF Laid
<1>7. InStream(S) /\ Used(S) = 0
  <2>1. Len(S) = 0 /\ Len(wire) = 0 /\ Len(given) = 0 /\ at = 0
        /\ wire \in Seq(Byte) /\ given \in Seq(Byte)
    BY <1>1, EmptyIs
  <2>2. \A j \in 1..0 : FALSE
    OBVIOUS
  <2> HIDE DEF S
  <2>3. QED
    BY <2>1, <2>2 DEF InStream, Used
<1>8. InGood(S, E)
  <2>1. E[0] = 0
    OBVIOUS
  <2> HIDE DEF E
  <2>2. Between(S, E)
    BY <1>1, <1>4, <1>7, <2>1, EmptyIs DEF Between
  <2>3. QED
    BY <1>1, <2>2 DEF InGood
<1>9. QED
  <2> HIDE DEF S, E
  <2>1. StreamInv(S, E)
    BY <1>6, <1>7, <1>8 DEF StreamInv
  <2>2. QED
    BY <1>2, <1>3, <1>5, <2>1 DEF HTTPInv

\* What the parser keeps does not depend on what else is sent, and a read may begin anywhere.
LEMMA SameInside ==
    ASSUME NEW m, NEW q, Inside(m, q), request' = request,
           at' = 0 \/ (at' = at /\ given' = given)
    PROVE  Inside(m, q)'
<1>1. /\ CurrentRequest' = CurrentRequest /\ InContent' = InContent /\ SizeBuf' = SizeBuf
      /\ ContentLength' = ContentLength /\ OriginalContentLength' = OriginalContentLength
      /\ ChunkedEncoding' = ChunkedEncoding /\ CurrentFirstLine' = CurrentFirstLine
      /\ CurrentHeaders' = CurrentHeaders
  BY DEF request
<1>2. InHead(m, q) => InHead(m, q)'
  BY <1>1 DEF InHead
<1>3. HeadRead(m) => HeadRead(m)'
  BY <1>1 DEF HeadRead
<1>4. InPlain(m, q) => InPlain(m, q)'
  BY <1>1, <1>3 DEF InPlain
<1>5. \A i : AtSize(m, i, q) => AtSize(m, i, q)'
  BY <1>1, <1>3 DEF AtSize
<1>6. \A i : InChunk(m, i, q) => InChunk(m, i, q)'
  BY <1>1, <1>3 DEF InChunk
<1>7. QED
  BY <1>2, <1>4, <1>5, <1>6 DEF Inside

\* A step that takes nothing off the stream and leaves the request alone.
LEMMA NothingTaken ==
    ASSUME NEW S, NEW E, SentInv, OutInv, InGood(S, E) \/ InBad(S, E),
           request' = request, threw' = threw,
           at' = 0 \/ (at' = at /\ given' = given),
           ProcessedLength' = at' \/ (ProcessedLength' = ProcessedLength /\ at' = at),
           Used(S)' = Used(S), sent' = sent, Parsed' = Parsed
    PROVE  (InGood(S, E) \/ InBad(S, E))'
<1>1. Good' = Good
  BY SameGood
<1>2. CASE InGood(S, E)
  <2>1. /\ threw' = FALSE /\ ProcessedLength' = at'
        /\ CurrentRequest' = CurrentRequest /\ InContent' = InContent /\ SizeBuf' = SizeBuf
    BY <1>2 DEF InGood, request
  <2>2. CASE Between(S, E)
    <3>1. Between(S, E)'
      BY <1>1, <2>1, <2>2 DEF Between
    <3>2. QED
      BY <2>1, <3>1 DEF InGood
  <2>3. CASE /\ Len(Parsed) < Len(Good)
             /\ \E q \in 1..Len(Good[Len(Parsed) + 1].wire) :
                   Used(S) = E[Len(Parsed)] + q /\ Inside(Good[Len(Parsed) + 1], q)
    <3>1. PICK q \in 1..Len(Good[Len(Parsed) + 1].wire) :
             Used(S) = E[Len(Parsed)] + q /\ Inside(Good[Len(Parsed) + 1], q)
      BY <2>3
    <3> DEFINE m == Good[Len(Parsed) + 1]
    <3>2. m' = m
      BY <1>1
    <3>3. Inside(m, q)'
      BY <3>1, <3>2, SameInside
    <3>4. Used(S)' = E[Len(Parsed')] + q /\ Len(Parsed') < Len(Good') /\ q \in 1..Len(m'.wire)
      BY <1>1, <2>3, <3>1
    <3>5. QED
      BY <2>1, <3>3, <3>4 DEF InGood
  <2>4. QED
    BY <1>2, <2>2, <2>3 DEF InGood
<1>3. CASE InBad(S, E)
  BY <1>1, <1>3 DEF InBad
<1>4. QED
  BY <1>2, <1>3

LEMMA WithoutTaking ==
    ASSUME HTTPInv, request' = request, threw' = threw,
           at' = 0 \/ (at' = at /\ given' = given),
           ProcessedLength' = at' \/ (ProcessedLength' = ProcessedLength /\ at' = at),
           sent' = sent, Parsed' = Parsed, ReadInv', OutInv',
           \A S : (Len(S) \in Nat /\ InStream(S)) => InStream(S)' /\ Used(S)' = Used(S)
    PROVE  HTTPInv'
<1>1. PICK S, E : StreamInv(S, E)
  BY DEF HTTPInv
<1>2. SentInv /\ OutInv /\ Laid(S, E) /\ InStream(S) /\ (InGood(S, E) \/ InBad(S, E))
  BY <1>1 DEF HTTPInv, StreamInv
<1>3. Len(S) \in Nat
  BY <1>2, StreamTypes
<1>4. InStream(S)' /\ Used(S)' = Used(S)
  BY <1>2, <1>3
<1>5. (InGood(S, E) \/ InBad(S, E))'
  BY <1>2, <1>4, NothingTaken
<1>6. SentInv' /\ Laid(S, E)'
  BY <1>2 DEF SentInv, Laid
<1>7. StreamInv(S, E)'
  BY <1>4, <1>5, <1>6 DEF StreamInv
<1>8. QED
  BY <1>6, <1>7 DEF HTTPInv

LEMMA HTTPAddStep ==
    ASSUME HTTPInv, NEW n \in DOMAIN wire, HTTPAdd(n), ~torn'
    PROVE  HTTPInv'
<1>1. PICK S, E : StreamInv(S, E)
  BY DEF HTTPInv
<1>2. SentInv /\ ReadInv /\ OutInv /\ wire \in Seq(Byte) /\ Len(wire) \in Nat
  BY <1>1, LenProperties DEF HTTPInv, StreamInv, InStream
<1>3. /\ given = <<>> /\ wire[n].cut /\ at' = 0 /\ ProcessedLength' = 0 /\ IsFirst' = TRUE
      /\ given' = SubSeq(wire, 1, n) /\ wire' = SubSeq(wire, n + 1, Len(wire))
      /\ sent' = sent /\ ParsedData' = ParsedData /\ extracted' = extracted /\ threw' = threw
      /\ request' = request
  <2>1. torn' = (torn \/ ~wire[n].cut)
    BY DEF HTTPAdd
  <2>2. wire[n].cut
    BY <2>1
  <2>3. QED
    BY <2>2 DEF HTTPAdd
<1>4. n \in 1..Len(wire) /\ n \in Nat
  <2>1. n \in 1..Len(wire)
    BY <1>2, LenProperties
  <2>2. QED
    BY <1>2, <2>1
<1>5. given' \in Seq(Byte) /\ Len(given') = n /\ \A j \in 1..n : given'[j] = wire[j]
  <2>1. 0 \in Nat /\ n \in 0..Len(wire) /\ 0 + 1 = 1 /\ n - 0 = n
    BY <1>4
  <2>2. /\ SubSeq(wire, 0 + 1, n) \in Seq(Byte) /\ Len(SubSeq(wire, 0 + 1, n)) = n - 0
        /\ \A j \in 1..(n - 0) : SubSeq(wire, 0 + 1, n)[j] = wire[0 + j]
    BY <1>2, <2>1, Piece
  <2>3. \A j \in 1..n : 0 + j = j
    OBVIOUS
  <2>4. QED
    BY <1>3, <2>1, <2>2, <2>3
<1>6. /\ wire' \in Seq(Byte) /\ Len(wire') = Len(wire) - n
      /\ \A j \in 1..(Len(wire) - n) : wire'[j] = wire[n + j]
  <2>1. Len(wire) \in n..Len(wire)
    BY <1>2, <1>4
  <2>2. QED
    BY <1>2, <1>3, <1>4, <2>1, Piece
<1>7. ASSUME NEW Z, Len(Z) \in Nat, InStream(Z)
      PROVE  InStream(Z)' /\ Used(Z)' = Used(Z)
  <2>1. /\ Len(given) = 0 /\ at = 0 /\ Len(wire) <= Len(Z)
        /\ \A j \in 1..Len(wire) : wire[j] = Z[(Len(Z) - Len(wire)) + j]
    BY <1>2, <1>3, <1>7, EmptyIs DEF InStream
  <2>2. Len(given') + Len(wire') <= Len(Z) /\ at' \in 0..Len(given')
    BY <1>2, <1>3, <1>4, <1>5, <1>6, <2>1
  <2>3. ASSUME NEW j \in 1..Len(wire') PROVE wire'[j] = Z[(Len(Z) - Len(wire')) + j]
    <3>1. n + j \in 1..Len(wire) /\ j \in 1..(Len(wire) - n)
          /\ (Len(Z) - Len(wire)) + (n + j) = (Len(Z) - Len(wire')) + j
      BY <1>2, <1>4, <1>6, <1>7
    <3>2. QED
      BY <1>6, <2>1, <3>1
  <2>4. ASSUME NEW j \in 1..Len(given')
        PROVE  given'[j] = Z[(Len(Z) - Len(wire') - Len(given')) + j]
    <3>1. j \in 1..Len(wire) /\ j \in 1..n
          /\ (Len(Z) - Len(wire') - Len(given')) + j = (Len(Z) - Len(wire)) + j
      BY <1>2, <1>4, <1>5, <1>6, <1>7
    <3>2. QED
      BY <1>5, <2>1, <3>1
  <2>5. Used(Z)' = Used(Z)
    BY <1>2, <1>3, <1>4, <1>5, <1>6, <1>7, <2>1 DEF Used
  <2>6. QED
    BY <1>5, <1>6, <2>2, <2>3, <2>4, <2>5 DEF InStream
<1>8. ReadInv'
  <2>1. given'[Len(given')].cut
    BY <1>3, <1>4, <1>5
  <2>2. QED
    BY <1>3, <2>1 DEF ReadInv
<1>9. OutInv' /\ Parsed' = Parsed
  BY <1>2, <1>3, NoneMore
<1>10. QED
  BY <1>3, <1>7, <1>8, <1>9, WithoutTaking

LEMMA AddReturnsStep ==
    ASSUME HTTPInv, AddReturns
    PROVE  HTTPInv'
<1>1. PICK S, E : StreamInv(S, E)
  BY DEF HTTPInv
<1>2. SentInv /\ ReadInv /\ OutInv /\ given \in Seq(Byte) /\ Len(given) \in Nat
      /\ wire \in Seq(Byte) /\ Len(wire) \in Nat
  BY <1>1, LenProperties DEF HTTPInv, StreamInv, InStream
<1>3. /\ at = Len(given) /\ given' = <<>> /\ at' = 0 /\ ProcessedLength' = 0 /\ IsFirst' = TRUE
      /\ sent' = sent /\ wire' = wire /\ ParsedData' = ParsedData /\ extracted' = extracted
      /\ threw' = threw /\ request' = request
  BY DEF AddReturns, input
<1>4. given' \in Seq(Byte) /\ Len(given') = 0
  BY <1>3, EmptyIs
<1>5. ASSUME NEW Z, Len(Z) \in Nat, InStream(Z)
      PROVE  InStream(Z)' /\ Used(Z)' = Used(Z)
  <2>1. /\ Len(given) + Len(wire) <= Len(Z)
        /\ \A j \in 1..Len(wire) : wire[j] = Z[(Len(Z) - Len(wire)) + j]
    BY <1>5 DEF InStream
  <2>2. Len(given') + Len(wire') <= Len(Z) /\ at' \in 0..Len(given')
    BY <1>2, <1>3, <1>4, <1>5, <2>1
  <2>3. \A j \in 1..Len(given') : FALSE
    BY <1>4
  <2>4. Used(Z)' = Used(Z)
    BY <1>2, <1>3, <1>4, <1>5 DEF Used
  <2>5. QED
    BY <1>2, <1>3, <1>4, <2>1, <2>2, <2>3, <2>4 DEF InStream
<1>6. ReadInv'
  BY <1>3 DEF ReadInv
<1>7. OutInv' /\ Parsed' = Parsed
  BY <1>2, <1>3, NoneMore
<1>8. QED
  BY <1>3, <1>5, <1>6, <1>7, WithoutTaking

LEMMA HTTPExtractStep ==
    ASSUME HTTPInv, HTTPExtract
    PROVE  HTTPInv'
<1>1. SentInv /\ ReadInv /\ OutInv
  BY DEF HTTPInv
<1>2. /\ extracted' = extracted \o ParsedData /\ ParsedData' = <<>>
      /\ sent' = sent /\ wire' = wire /\ given' = given /\ at' = at /\ threw' = threw
      /\ request' = request /\ ProcessedLength' = ProcessedLength /\ IsFirst' = IsFirst
  BY DEF HTTPExtract, input, local
<1>3. ASeq(extracted \o ParsedData)
  BY <1>1, JoinIs DEF OutInv
<1>4. Parsed' = Parsed
  <2>1. PICK T : extracted \o ParsedData \in Seq(T)
    BY <1>3 DEF ASeq
  <2>2. (extracted \o ParsedData) \o <<>> = extracted \o ParsedData
    BY <2>1, ConcatEmptySeq
  <2>3. QED
    BY <1>2, <2>2 DEF Parsed
<1>5. OutInv'
  <2>1. Good' = Good
    BY <1>2, SameGood
  <2>2. ASeq(extracted)' /\ ASeq(ParsedData)'
    BY <1>2, <1>3, EmptyIs DEF ASeq
  <2>3. QED
    BY <1>1, <1>4, <2>1, <2>2 DEF OutInv, RightOut
<1>6. ReadInv'
  BY <1>1, <1>2 DEF ReadInv
<1>7. \A Z : InStream(Z) => InStream(Z)' /\ Used(Z)' = Used(Z)
  BY <1>2 DEF InStream, Used
<1>8. QED
  BY <1>2, <1>4, <1>5, <1>6, <1>7, WithoutTaking

LEMMA HTTPStutter ==
    ASSUME HTTPInv, UNCHANGED httpVars
    PROVE  HTTPInv'
<1>1. SentInv /\ ReadInv /\ OutInv
  BY DEF HTTPInv
<1>2. /\ extracted' = extracted /\ ParsedData' = ParsedData
      /\ sent' = sent /\ wire' = wire /\ given' = given /\ at' = at /\ threw' = threw
      /\ request' = request /\ ProcessedLength' = ProcessedLength /\ IsFirst' = IsFirst
  BY DEF httpVars, input, local
<1>3. OutInv' /\ Parsed' = Parsed
  BY <1>1, <1>2, NoneMore
<1>4. ReadInv'
  BY <1>1, <1>2 DEF ReadInv
<1>5. \A Z : InStream(Z) => InStream(Z)' /\ Used(Z)' = Used(Z)
  BY <1>2 DEF InStream, Used
<1>6. QED
  BY <1>2, <1>3, <1>4, <1>5, WithoutTaking

LEMMA SendStep ==
    ASSUME HTTPInv, NEW m \in Messages, Send(m)
    PROVE  HTTPInv'
<1> DEFINE N == Len(sent)
           n == Len(m.wire)
<1>1. PICK S, E : StreamInv(S, E)
  BY DEF HTTPInv
<1>2. /\ SentInv /\ ReadInv /\ OutInv /\ Laid(S, E) /\ InStream(S) /\ (InGood(S, E) \/ InBad(S, E))
      /\ sent \in Seq(Messages) /\ N \in Nat
  BY <1>1, LenProperties DEF HTTPInv, StreamInv, SentInv
<1>3. /\ \A i \in 1..N : ~sent[i].bad
      /\ sent' = Append(sent, m) /\ wire' = wire \o m.wire
      /\ given' = given /\ at' = at /\ ParsedData' = ParsedData /\ extracted' = extracted
      /\ threw' = threw /\ request' = request
      /\ ProcessedLength' = ProcessedLength /\ IsFirst' = IsFirst
  <2>1. DOMAIN sent = 1..N
    BY <1>2, LenProperties
  <2>2. QED
    BY <2>1 DEF Send, local
<1>4. m.wire \in Seq(Byte) /\ n \in Nat
  BY MessageAssumption, LenProperties
<1>5. /\ sent' \in Seq(Messages) /\ Len(sent') = N + 1
      /\ \A i \in 1..N : sent'[i] = sent[i]
      /\ sent'[N + 1] = m
  BY <1>2, <1>3, AppendProperties
<1>6. SentInv'
  BY <1>2, <1>3, <1>5 DEF SentInv
<1>7. Good = sent
  BY <1>2, <1>3, GoodAre
<1>8. Len(Good') \in N..(N + 1) /\ \A i \in 1..N : Good'[i] = Good[i]
  <2>1. sent' # <<>> /\ Last(sent') = m
    BY <1>2, <1>5, EmptyIs DEF Last
  <2>2. CASE m.bad
    <3>1. Good' = SubSeq(sent', 1, N)
      <4>1. Good' = Front(sent')
        BY <2>1, <2>2 DEF Good
      <4>2. Front(sent') = SubSeq(sent', 1, Len(sent') - 1)
        BY DEF Front
      <4>3. Len(sent') - 1 = N
        BY <1>2, <1>5
      <4>4. QED
        BY <4>1, <4>2, <4>3
    <3>2. 0 \in Nat /\ N \in 0..Len(sent') /\ 0 + 1 = 1 /\ N - 0 = N
      BY <1>2, <1>5
    <3>3. Len(SubSeq(sent', 0 + 1, N)) = N - 0
          /\ \A j \in 1..(N - 0) : SubSeq(sent', 0 + 1, N)[j] = sent'[0 + j]
      BY <1>5, <3>2, Piece
    <3>4. \A j \in 1..N : 0 + j = j
      OBVIOUS
    <3>5. Len(Good') = N /\ \A j \in 1..N : Good'[j] = sent'[j]
      BY <3>1, <3>2, <3>3, <3>4
    <3>6. QED
      BY <1>2, <1>5, <1>7, <3>5
  <2>3. CASE ~m.bad
    <3>1. Good' = sent'
      BY <2>1, <2>3 DEF Good
    <3>2. QED
      BY <1>2, <1>5, <1>7, <3>1
  <2>4. QED
    BY <2>2, <2>3
<1>9. InGood(S, E) /\ ~InBad(S, E)
  BY <1>2, <1>7 DEF InBad
<1>10. Parsed' = Parsed /\ Len(Parsed) \in 0..N
  <2>1. Parsed' = Parsed
    BY <1>3 DEF Parsed
  <2>2. Len(Parsed) \in Nat /\ Len(Parsed) <= Len(Good)
    BY <1>2, <1>7, <1>9, ParsedIs DEF InGood, Between
  <2>3. QED
    BY <1>7, <2>1, <2>2
<1>11. OutInv'
  <2>1. ASSUME NEW i \in 1..Len(Good'), i <= Len(Parsed') PROVE Parsed'[i] = Good'[i].parsed
    <3>1. i \in 1..N /\ i \in 1..Len(Good) /\ i <= Len(Parsed)
      BY <1>2, <1>7, <1>8, <1>10, <2>1
    <3>2. Parsed[i] = Good[i].parsed
      BY <1>2, <3>1 DEF OutInv, RightOut
    <3>3. QED
      BY <1>8, <1>10, <3>1, <3>2
  <2>2. ASeq(ParsedData)' /\ ASeq(extracted)'
    BY <1>2, <1>3 DEF OutInv, ASeq
  <2>3. QED
    BY <2>1, <2>2 DEF OutInv, RightOut
<1>12. ReadInv'
  BY <1>2, <1>3 DEF ReadInv
<1>20. PICK Z : Z = S \o m.wire
  OBVIOUS
<1>21. PICK F : F = [k \in 0..(N + 1) |-> IF k <= N THEN E[k] ELSE Len(S) + n]
  OBVIOUS
<1>13. /\ S \in Seq(Byte) /\ Len(S) \in Nat /\ E \in [0..N -> Nat] /\ E[0] = 0 /\ E[N] = Len(S)
       /\ \A i \in 0..N : \A j \in i..N : E[i] <= E[j]
       /\ \A i \in 1..N : E[i] = E[i - 1] + Len(sent[i].wire)
                          /\ \A j \in 1..Len(sent[i].wire) : S[E[i - 1] + j] = sent[i].wire[j]
  BY <1>2, LenProperties DEF Laid
<1>14. /\ Z \in Seq(Byte) /\ Len(Z) = Len(S) + n
       /\ \A j \in 1..Len(S) : Z[j] = S[j]
       /\ \A j \in 1..n : Z[Len(S) + j] = m.wire[j]
  <2>1. /\ Z \in Seq(Byte) /\ Len(Z) = Len(S) + n
        /\ \A i \in 1..(Len(S) + n) : Z[i] = IF i <= Len(S) THEN S[i] ELSE m.wire[i - Len(S)]
    BY <1>4, <1>13, <1>20, ConcatProperties
  <2> HIDE DEF n
  <2>2. \A j \in 1..Len(S) : j \in 1..(Len(S) + n) /\ j <= Len(S)
    BY <1>4, <1>13
  <2>3. \A j \in 1..n : Len(S) + j \in 1..(Len(S) + n) /\ ~(Len(S) + j <= Len(S))
                        /\ (Len(S) + j) - Len(S) = j
    BY <1>4, <1>13
  <2>4. QED
    BY <2>1, <2>2, <2>3
<1>15. /\ F \in [0..(N + 1) -> Nat] /\ F[N + 1] = Len(S) + n
       /\ \A k \in 0..N : F[k] = E[k]
  <2>1. ASSUME NEW k \in 0..(N + 1) PROVE (IF k <= N THEN E[k] ELSE Len(S) + n) \in Nat
    <3>1. k <= N => k \in 0..N
      BY <1>2
    <3>2. QED
      BY <1>4, <1>13, <3>1
  <2>2. F \in [0..(N + 1) -> Nat]
    BY <1>21, <2>1
  <2>3. F[N + 1] = Len(S) + n
    BY <1>2, <1>21
  <2>4. \A k \in 0..N : F[k] = E[k]
    BY <1>2, <1>21
  <2>5. QED
    BY <2>2, <2>3, <2>4
<1> HIDE DEF N, n
<1>16. Laid(Z, F)'
  <2>1. F[0] = 0 /\ F[N + 1] = Len(Z)
    BY <1>2, <1>13, <1>14, <1>15
  <2>2. ASSUME NEW i \in 0..(N + 1), NEW j \in i..(N + 1) PROVE F[i] <= F[j]
    <3>1. CASE j <= N
      <4>1. i \in 0..N /\ j \in i..N
        BY <1>2, <3>1
      <4>2. j \in 0..N
        BY <1>2, <4>1
      <4>3. E[i] <= E[j]
        BY <1>13, <4>1
      <4>4. QED
        BY <1>15, <4>1, <4>2, <4>3
    <3>2. CASE i <= N /\ ~(j <= N)
      <4>1. i \in 0..N /\ j = N + 1 /\ N \in i..N
        BY <1>2, <3>2
      <4>2. E[i] <= E[N]
        BY <1>13, <4>1
      <4>3. F[i] \in Nat /\ F[j] = Len(S) + n /\ F[i] <= Len(S)
        BY <1>13, <1>15, <4>1, <4>2
      <4>4. QED
        BY <1>4, <1>13, <4>3
    <3>3. CASE ~(i <= N)
      <4>1. i = N + 1 /\ j = N + 1
        BY <1>2, <3>3
      <4>2. QED
        BY <1>4, <1>13, <1>15, <4>1
    <3>4. QED
      BY <3>1, <3>2, <3>3
  <2>3. ASSUME NEW i \in 1..(N + 1)
        PROVE  /\ F[i] = F[i - 1] + Len(sent'[i].wire)
               /\ \A j \in 1..Len(sent'[i].wire) : Z[F[i - 1] + j] = sent'[i].wire[j]
    <3>1. CASE i <= N
      <4>1. i \in 1..N /\ i \in 0..N /\ i - 1 \in 0..N /\ sent'[i] = sent[i]
        BY <1>2, <1>5, <3>1 DEF N
      <4>2. F[i] = E[i] /\ F[i - 1] = E[i - 1]
        BY <1>15, <4>1
      <4>3. ASSUME NEW j \in 1..Len(sent[i].wire) PROVE Z[E[i - 1] + j] = sent[i].wire[j]
        <5>1. S[E[i - 1] + j] = sent[i].wire[j]
          BY <1>13, <4>1
        <5>2. E[i - 1] + j \in 1..Len(S)
          <6>1. E[i] <= Len(S) /\ E[i] = E[i - 1] + Len(sent[i].wire) /\ E[i - 1] \in Nat
                /\ Len(sent[i].wire) \in Nat
            BY <1>2, <4>1, EndsAre, WireIs DEF N
          <6>2. QED
            BY <1>13, <6>1
        <5>3. QED
          BY <1>14, <5>1, <5>2
      <4>4. QED
        BY <1>13, <4>1, <4>2, <4>3
    <3>2. CASE ~(i <= N)
      <4>1. i = N + 1 /\ i - 1 = N /\ N \in 0..N
        BY <1>2, <3>2
      <4>2. sent'[i] = m /\ F[i - 1] = Len(S) /\ F[i] = Len(S) + n
        BY <1>5, <1>13, <1>15, <4>1 DEF N
      <4>3. QED
        BY <1>14, <4>2 DEF n
    <3>3. QED
      BY <3>1, <3>2
  <2>4. Len(sent') = N + 1
    BY <1>5 DEF N
  <2>5. QED
    BY <1>14, <1>15, <2>1, <2>2, <2>3, <2>4 DEF Laid
<1>17. InStream(Z)' /\ Used(Z)' = Used(S)
  <2>1. /\ wire \in Seq(Byte) /\ Len(wire) \in Nat /\ given \in Seq(Byte) /\ Len(given) \in Nat
        /\ at \in 0..Len(given) /\ Len(given) + Len(wire) <= Len(S)
        /\ \A j \in 1..Len(wire) : wire[j] = S[(Len(S) - Len(wire)) + j]
        /\ \A j \in 1..Len(given) : given[j] = S[(Len(S) - Len(wire) - Len(given)) + j]
    BY <1>2, StreamTypes DEF InStream
  <2>2. /\ wire' \in Seq(Byte) /\ Len(wire') = Len(wire) + n
        /\ \A j \in 1..(Len(wire) + n) :
              wire'[j] = IF j <= Len(wire) THEN wire[j] ELSE m.wire[j - Len(wire)]
    BY <1>3, <1>4, <2>1, ConcatProperties DEF n
  <2>3. Len(Z) - Len(wire') = Len(S) - Len(wire)
    BY <1>4, <1>13, <1>14, <2>1, <2>2
  <2>4. ASSUME NEW j \in 1..Len(wire') PROVE wire'[j] = Z[(Len(Z) - Len(wire')) + j]
    <3>1. CASE j <= Len(wire)
      <4>1. j \in 1..Len(wire) /\ j \in 1..(Len(wire) + n)
            /\ (Len(S) - Len(wire)) + j \in 1..Len(S)
        BY <1>4, <1>13, <2>1, <2>2, <3>1
      <4>2. QED
        BY <1>14, <2>1, <2>2, <2>3, <3>1, <4>1
    <3>2. CASE ~(j <= Len(wire))
      <4>1. j \in 1..(Len(wire) + n) /\ j - Len(wire) \in 1..n
            /\ (Len(S) - Len(wire)) + j = Len(S) + (j - Len(wire))
        BY <1>4, <1>13, <2>1, <2>2, <3>2
      <4>2. QED
        BY <1>14, <2>2, <2>3, <3>2, <4>1
    <3>3. QED
      BY <3>1, <3>2
  <2>5. ASSUME NEW j \in 1..Len(given)
        PROVE  given[j] = Z[(Len(Z) - Len(wire') - Len(given)) + j]
    <3>1. (Len(S) - Len(wire) - Len(given)) + j \in 1..Len(S)
      BY <1>13, <2>1
    <3>2. QED
      BY <1>14, <2>1, <2>3, <3>1
  <2>6. Len(given) + Len(wire') <= Len(Z)
    BY <1>4, <1>13, <1>14, <2>1, <2>2
  <2>7. Used(Z)' = Used(S)
    BY <1>3, <2>3 DEF Used
  <2>8. QED
    BY <1>3, <2>1, <2>2, <2>4, <2>5, <2>6, <2>7 DEF InStream
<1>18. InGood(Z, F)'
  <2>1. /\ threw' = FALSE /\ ProcessedLength' = at'
        /\ CurrentRequest' = CurrentRequest /\ InContent' = InContent /\ SizeBuf' = SizeBuf
    BY <1>3, <1>9 DEF InGood, request
  <2>2. F[Len(Parsed')] = E[Len(Parsed)] /\ Len(Parsed') = Len(Parsed)
    BY <1>10, <1>15 DEF N
  <2>3. Len(Good) = N
    BY <1>7 DEF N
  <2>4. CASE Between(S, E)
    <3>1. Len(Parsed) > 0 => Good'[Len(Parsed)] = Good[Len(Parsed)]
      <4>1. Len(Parsed) > 0 => Len(Parsed) \in 1..N
        BY <1>2, <1>10 DEF N
      <4>2. QED
        BY <1>8, <4>1 DEF N
    <3>2. Len(Parsed') <= Len(Good')
      BY <1>2, <1>8, <1>10 DEF N
    <3>3. Between(Z, F)'
      BY <1>10, <1>17, <2>1, <2>2, <2>4, <3>1, <3>2 DEF Between
    <3>4. QED
      BY <2>1, <3>3 DEF InGood
  <2>5. CASE /\ Len(Parsed) < Len(Good)
             /\ \E q \in 1..Len(Good[Len(Parsed) + 1].wire) :
                   Used(S) = E[Len(Parsed)] + q /\ Inside(Good[Len(Parsed) + 1], q)
    <3>1. PICK q \in 1..Len(Good[Len(Parsed) + 1].wire) :
             Used(S) = E[Len(Parsed)] + q /\ Inside(Good[Len(Parsed) + 1], q)
      BY <2>5
    <3> DEFINE g == Good[Len(Parsed) + 1]
    <3>2. Good'[Len(Parsed') + 1] = g /\ Len(Parsed') < Len(Good')
      <4>1. Len(Parsed) + 1 \in 1..N /\ Len(Parsed) < Len(Good')
        BY <1>2, <1>8, <1>10, <2>3, <2>5 DEF N
      <4>2. QED
        BY <1>8, <1>10, <4>1 DEF N
    <3>3. Inside(g, q)'
      <4>1. g' = Good'[Len(Parsed') + 1]
        OBVIOUS
      <4>2. g' = g
        BY <3>2, <4>1
      <4>3. Inside(g, q)
        BY <3>1
      <4>4. QED
        BY <1>3, <4>2, <4>3, SameInside
    <3>4. Used(Z)' = F[Len(Parsed')] + q /\ q \in 1..Len(Good'[Len(Parsed') + 1].wire)
      BY <1>17, <2>2, <3>1, <3>2
    <3>5. QED
      BY <2>1, <3>2, <3>3, <3>4 DEF InGood
  <2>6. QED
    BY <1>9, <2>4, <2>5 DEF InGood
<1>19. QED
  <2>1. StreamInv(Z, F)'
    BY <1>16, <1>17, <1>18 DEF StreamInv
  <2>2. \E X, Y : StreamInv(X, Y)'
    BY <2>1
  <2>3. QED
    BY <1>6, <1>11, <1>12, <2>2 DEF HTTPInv

-----------------------------------------------------------------------------
(* Steps of ParseLine in the well-formed messages.  out is what came out.   *)

LEMMA GoesOnInside ==
    ASSUME NEW S, NEW E, sent' = sent, NEW k \in 1..Len(Good), SentInv, Len(Parsed') = k - 1,
           NEW m, m = Good[k], NEW q \in 1..Len(m.wire), Used(S)' = E[k - 1] + q, Inside(m, q)',
           threw' = FALSE, ProcessedLength' = at'
    PROVE  InGood(S, E)'
<1>1. Good' = Good /\ Len(Good) \in Nat
  BY SameGood, GoodAre
<1>2. Len(Parsed') + 1 = k /\ Len(Parsed') < Len(Good')
  BY <1>1
<1>3. Good'[Len(Parsed') + 1] = m
  BY <1>1, <1>2
<1>4. Inside(Good[Len(Parsed) + 1], q)'
  BY <1>1, <1>3
<1>5. /\ Used(S)' = E[Len(Parsed')] + q /\ Len(Parsed') < Len(Good')
      /\ q \in 1..Len(Good'[Len(Parsed') + 1].wire)
  BY <1>2, <1>3
<1>6. QED
  BY <1>4, <1>5 DEF InGood

LEMMA IsBetween ==
    ASSUME NEW S, NEW E, sent' = sent, SentInv, NEW k \in 0..Len(Good), Len(Parsed') = k,
           CurrentRequest' = <<>>, InContent' = FALSE, SizeBuf' = <<>>,
           \/ Used(S)' = E[k]
           \/ k > 0 /\ Good[k].chunks # <<>> /\ Used(S)' + 2 = E[k],
           threw' = FALSE, ProcessedLength' = at'
    PROVE  InGood(S, E)'
<1>1. Good' = Good /\ Len(Good) \in Nat
  BY SameGood, GoodAre
<1>2. Between(S, E)'
  BY <1>1 DEF Between
<1>3. QED
  BY <1>2 DEF InGood

LEMMA IsPast ==
    ASSUME NEW S, NEW E, sent' = sent, SentInv, Laid(S, E), Len(Good) <= Len(Parsed'),
           E[Len(Good)] < Used(S)', Used(S)' <= Len(S), Used(S)' \in Nat
    PROVE  InBad(S, E)'
<1>1. Good' = Good /\ Len(Good) \in 0..Len(sent) /\ Len(sent) \in Nat
  BY SameGood, GoodAre
<1>2. E[Len(sent)] = Len(S) /\ E[Len(Good)] \in Nat /\ Len(S) \in Nat
  BY <1>1, LenProperties DEF Laid
<1>3. Len(Good) < Len(sent)
  BY <1>1, <1>2
<1>4. QED
  BY <1>1, <1>3 DEF InBad

LEMMA GoodEnds ==
    ASSUME NEW S, NEW E, SentInv, Laid(S, E), NEW k \in 1..Len(Good)
    PROVE  /\ k \in 1..Len(sent) /\ Good[k] = sent[k] /\ Good[k] \in Messages /\ ~Good[k].bad
           /\ E[k - 1] \in Nat /\ E[k] \in Nat /\ E[k] = E[k - 1] + Len(Good[k].wire)
           /\ Len(Good[k].wire) \in Nat /\ Good[k].wire \in Seq(Byte)
BY GoodAre, EndsAre, WireIs

\* the lines of chunk sizes and chunks of a message
LEMMA ChunkIs ==
    ASSUME NEW m \in Messages, ~m.bad, m.chunks # <<>>
    PROVE  /\ Len(m.chunks) \in Nat /\ 1 \in 1..Len(m.chunks)
           /\ m.chunks[1].from = m.head /\ m.chunks[1].before = 0
           /\ \A i \in 1..Len(m.chunks) :
                LET c == m.chunks[i] IN
                /\ c.from \in Nat /\ c.start \in Nat /\ c.size \in Nat /\ c.before \in Nat
                /\ IsChunk(m, c)
                /\ c.size = 0 <=> i = Len(m.chunks)
                /\ i < Len(m.chunks) =>
                     /\ m.chunks[i + 1].from = c.start + c.size + 2
                     /\ m.chunks[i + 1].before = c.before + c.size
                /\ i = Len(m.chunks) =>
                     Len(m.wire) = c.start + c.size + 2 /\ Len(m.parsed.body) = c.before
<1> DEFINE C == [from : Nat, start : Nat, size : Nat, before : Nat]
<1>1. m.chunks \in Seq(C) /\ HasChunks(m)
  BY MessageAssumption DEF WellFormed
<1> HIDE DEF C
<1>2. Len(m.chunks) \in Nat /\ DOMAIN m.chunks = 1..Len(m.chunks) /\ Len(m.chunks) # 0
  BY <1>1, LenProperties, EmptySeq
<1>3. \A c \in C : c.from \in Nat /\ c.start \in Nat /\ c.size \in Nat /\ c.before \in Nat
  BY DEF C
<1>4. ASSUME NEW i \in 1..Len(m.chunks) PROVE m.chunks[i] \in C
  BY <1>1, ElementOfSeq
<1>5. Len(m.chunks) \in Nat /\ 1 \in 1..Len(m.chunks)
  BY <1>2
<1>6. m.chunks[1].from = m.head /\ m.chunks[1].before = 0
  BY <1>1 DEF HasChunks
<1>7. ASSUME NEW i \in 1..Len(m.chunks)
      PROVE  LET c == m.chunks[i] IN
                /\ c.from \in Nat /\ c.start \in Nat /\ c.size \in Nat /\ c.before \in Nat
                /\ IsChunk(m, c)
                /\ c.size = 0 <=> i = Len(m.chunks)
                /\ i < Len(m.chunks) =>
                     /\ m.chunks[i + 1].from = c.start + c.size + 2
                     /\ m.chunks[i + 1].before = c.before + c.size
                /\ i = Len(m.chunks) =>
                     Len(m.wire) = c.start + c.size + 2 /\ Len(m.parsed.body) = c.before
  BY <1>1, <1>2, <1>3, <1>4 DEF HasChunks
<1>8. QED
  BY <1>5, <1>6, <1>7

LEMMA GotNothing ==
    ASSUME NEW m \in Messages, ~m.bad
    PROVE  Got(m, 0) = SubSeq(m.wire, 1, m.head)
<1>1. m.wire \in Seq(Byte) /\ m.head \in 1..Len(m.wire) /\ Len(m.wire) \in Nat
  BY GoodIs
<1>2. 0 \in Nat /\ m.head \in 0..Len(m.wire) /\ 0 + 1 = 1
  BY <1>1
<1>3. SubSeq(m.wire, 0 + 1, m.head) \in Seq(Byte)
  BY <1>1, <1>2, Piece
<1>4. SubSeq(m.parsed.body, 0 + 1, 0) = <<>>
  BY <1>2, EmptyPiece
<1>5. SubSeq(m.wire, 1, m.head) \o <<>> = SubSeq(m.wire, 1, m.head)
  BY <1>2, <1>3, ConcatEmptySeq
<1>6. QED
  BY <1>2, <1>4, <1>5 DEF Got

\* A header line leads on in the head, to the body or to the end of the message.
LEMMA HeadGoes ==
    ASSUME NEW S, NEW E, SentInv, Laid(S, E), sent' = sent, extracted' = extracted,
           ASeq(extracted), NEW p, ASeq(p), RightOut(extracted \o p),
           NEW k \in 1..Len(Good), Len(extracted \o p) = k - 1, NEW m, m = Good[k],
           NEW q \in 0..(m.head - 1), NEW n \in Nat, NEW isFirst,
           HeadPiece(m, q, n, isFirst, More),
           HeaderLine(p, SubSeq(m.wire, 1, q), SubSeq(m.wire, q + 1, q + n), isFirst),
           Used(S)' = E[k - 1] + q + n + (IF More THEN 1 ELSE 0),
           CountEnd => ProcessedLength' = at', ~More => at' = Len(given'),
           threw = FALSE, SizeBuf = <<>>
    PROVE  OutInv' /\ InGood(S, E)'
<1> DEFINE w == m.wire
           h == m.head
<1>0. /\ m \in Messages /\ ~m.bad /\ E[k - 1] \in Nat /\ E[k] = E[k - 1] + Len(m.wire)
  BY GoodEnds
<1>1. /\ m \in Messages /\ ~m.bad /\ E[k - 1] \in Nat /\ E[k] = E[k - 1] + Len(w)
      /\ Len(w) \in Nat /\ w \in Seq(Byte) /\ h \in 1..Len(w)
      /\ Len(Good) \in Nat /\ k \in Nat /\ Good' = Good
  <2>1. Len(w) \in Nat /\ w \in Seq(Byte) /\ h \in 1..Len(w)
    BY <1>0, GoodIs
  <2>2. Len(Good) \in Nat /\ k \in Nat
    BY GoodAre
  <2>3. Good' = Good
    BY SameGood
  <2>4. QED
    BY <1>0, <2>1, <2>2, <2>3
<1>y. CountEnd /\ threw' = threw /\ SizeBuf' = SizeBuf /\ HeadTo(m, p, q, n)
  BY <1>0, HeadStep
<1>2. /\ CountEnd /\ threw' = threw /\ SizeBuf' = SizeBuf
      /\ \/ More /\ q + n + 1 = h /\ HeadDone(m, p)
         \/ \E y \in 1..(h - 1) :
              /\ y = q + n + (IF More THEN 1 ELSE 0)
              /\ CurrentRequest' = SubSeq(w, 1, y) /\ InContent' = FALSE
              /\ ParsedData' = p
              /\ Is(w[y], LF) \/ (~More /\ y + 1 < h /\ Is(w[y + 1], LF))
  BY <1>y DEF HeadTo
<1>3. threw' = FALSE /\ ProcessedLength' = at' /\ SizeBuf' = <<>>
  BY <1>2
<1>4. ASSUME ParsedData' = p PROVE OutInv' /\ Len(Parsed') = k - 1
  <2>1. ASeq(ParsedData)' /\ ASeq(extracted)' /\ Parsed' = extracted \o p
    BY <1>4 DEF ASeq, Parsed
  <2>2. QED
    BY <1>1, <2>1 DEF OutInv, RightOut
<1> HIDE DEF w, h
<1>5. CASE More /\ q + n + 1 = h /\ HeadDone(m, p)
  <2>1. Used(S)' = E[k - 1] + h
    BY <1>1, <1>5 DEF h
  <2>2. CASE /\ m.chunks = <<>> /\ Len(w) = h /\ ParsedData' = Append(p, m.parsed)
             /\ CurrentRequest' = <<>> /\ InContent' = FALSE
    <3>1. /\ ASeq(ParsedData') /\ RightOut(extracted \o ParsedData')
          /\ Len(extracted \o ParsedData') = k
      BY <2>2, OneMore
    <3>2. ASeq(extracted)' /\ ASeq(ParsedData)' /\ Parsed' = extracted \o ParsedData'
      BY <3>1 DEF ASeq, Parsed
    <3>3. OutInv'
      BY <1>1, <3>1, <3>2 DEF OutInv, RightOut
    <3>4. Used(S)' = E[k] /\ k \in 0..Len(Good)
      BY <1>1, <2>1, <2>2
    <3>5. InGood(S, E)'
      BY <1>3, <2>2, <3>1, <3>2, <3>4, IsBetween
    <3>6. QED
      BY <3>3, <3>5
  <2>3. CASE /\ m.chunks # <<>> \/ Len(w) > h
             /\ ParsedData' = p
             /\ CurrentRequest' = SubSeq(w, 1, h)
             /\ InContent' = TRUE /\ ChunkedEncoding' = (m.chunks # <<>>)
             /\ CurrentFirstLine' = m.parsed.first /\ CurrentHeaders' = m.parsed.headers
             /\ ContentLength' = IF m.chunks = <<>> THEN Len(w) - h ELSE 0
             /\ OriginalContentLength' = ContentLength'
    <3>1. HeadRead(m)'
      BY <2>3 DEF HeadRead
    <3>2. w' = w /\ h' = h
      BY DEF w, h
    <3>3. Inside(m, h)'
      <4>1. CASE m.chunks = <<>>
        <5>1. h \in h..(Len(w) - 1)
          BY <1>1, <2>3, <4>1
        <5>2. InPlain(m, h)'
          BY <1>3, <2>3, <3>1, <3>2, <4>1, <5>1 DEF InPlain, w, h
        <5>3. QED
          BY <5>2 DEF Inside
      <4>2. CASE m.chunks # <<>>
        <5>1. /\ 1 \in 1..Len(m.chunks) /\ m.chunks[1].from = h /\ m.chunks[1].before = 0
              /\ m.chunks[1].start \in Nat /\ m.chunks[1].from < m.chunks[1].start
          BY <1>1, <4>2, ChunkIs DEF IsChunk, h
        <5>2. h \in m.chunks[1].from..(m.chunks[1].start - 1) /\ h \in Nat
          BY <1>1, <5>1
        <5>3. SubSeq(w, h + 1, h) = <<>>
          BY <5>2, EmptyPiece
        <5>4. Got(m, 0) = SubSeq(w, 1, h)
          BY <1>1, GotNothing DEF w, h
        <5>5. AtSize(m, 1, h)'
          BY <1>3, <2>3, <3>1, <3>2, <4>2, <5>1, <5>2, <5>3, <5>4 DEF AtSize, Got, w, h
        <5>6. QED
          BY <3>2, <5>1, <5>5 DEF Inside
      <4>3. QED
        BY <4>1, <4>2
    <3>4. OutInv' /\ Len(Parsed') = k - 1
      BY <1>4, <2>3
    <3>5. InGood(S, E)'
      <4>1. h \in 1..Len(m.wire)
        BY <1>1 DEF w
      <4>2. QED
        BY <1>3, <2>1, <3>3, <3>4, <4>1, GoesOnInside
    <3>6. QED
      BY <3>4, <3>5
  <2>4. QED
    BY <1>5, <2>2, <2>3 DEF HeadDone, w, h
<1>6. CASE \E y \in 1..(h - 1) :
              /\ y = q + n + (IF More THEN 1 ELSE 0)
              /\ CurrentRequest' = SubSeq(w, 1, y) /\ InContent' = FALSE
              /\ ParsedData' = p
              /\ Is(w[y], LF) \/ (~More /\ y + 1 < h /\ Is(w[y + 1], LF))
  <2>1. PICK y \in 1..(h - 1) :
              /\ y = q + n + (IF More THEN 1 ELSE 0)
              /\ CurrentRequest' = SubSeq(w, 1, y) /\ InContent' = FALSE
              /\ ParsedData' = p
              /\ Is(w[y], LF) \/ (~More /\ y + 1 < h /\ Is(w[y + 1], LF))
    BY <1>6
  <2>3. InHead(m, y)'
    BY <1>3, <2>1 DEF InHead, w, h
  <2>4. Inside(m, y)'
    BY <2>3 DEF Inside
  <2>5. Used(S)' = E[k - 1] + y /\ y \in 1..Len(m.wire)
    <3>1. y \in 1..Len(m.wire) /\ m.head \in Nat
      BY <1>1, <2>1 DEF w, h
    <3>2. q \in Nat
      BY <3>1
    <3>3. CASE More
      BY <1>0, <2>1, <3>1, <3>2, <3>3
    <3>4. CASE ~More
      BY <1>0, <2>1, <3>1, <3>2, <3>4
    <3>5. QED
      BY <3>3, <3>4
  <2>6. OutInv' /\ Len(Parsed') = k - 1
    BY <1>4, <2>1
  <2>7. InGood(S, E)'
    BY <1>3, <2>4, <2>5, <2>6, GoesOnInside
  <2>8. QED
    BY <2>6, <2>7
<1>7. QED
  BY <1>2, <1>5, <1>6

-----------------------------------------------------------------------------
(* What a step of ParseLine starts from when all went well so far.          *)

Parsing(S, E) ==
    /\ SentInv /\ ReadInv /\ OutInv /\ Laid(S, E) /\ InStream(S)
    /\ threw = FALSE /\ ProcessedLength = at

\* q bytes of the message m, which is the next to come out, were taken
Reads(S, E, k, m, q) ==
    /\ k \in 1..Len(Good) /\ Len(Parsed) = k - 1 /\ m = Good[k]
    /\ q \in 0..Len(m.wire) /\ Used(S) = E[k - 1] + q

\* what it ends in
Onward(S, E) == OutInv' /\ (InGood(S, E) \/ InBad(S, E))'

LEMMA Moved ==
    ASSUME NEW S, NEW E, Parsing(S, E), Take
    PROVE  /\ Len(Line) \in Nat /\ Line \in Seq(Byte)
           /\ CountEnd => ProcessedLength' = at'
           /\ ~More => Counted = at' /\ at' = Len(given')
           /\ Used(S) \in Nat /\ Used(S)' \in Nat /\ Used(S)' > Used(S) /\ Used(S)' <= Len(S)
           /\ Used(S)' = Used(S) + Len(Line) + (IF More THEN 1 ELSE 0)
           /\ sent' = sent /\ extracted' = extracted /\ given' = given /\ wire' = wire
           /\ at \in 0..(Len(given) - 1) /\ Len(given) \in Nat
<1>1. SentInv /\ ReadInv /\ Laid(S, E) /\ InStream(S) /\ ProcessedLength = at
  BY DEF Parsing
<1>2. /\ given \in Seq(Byte) /\ at \in 0..Len(given)
      /\ sent' = sent /\ extracted' = extracted /\ given' = given /\ wire' = wire
      /\ at \in 0..(Len(given) - 1) /\ Len(given) \in Nat
      /\ Used(S) \in Nat /\ Used(S)' \in Nat /\ Used(S)' > Used(S) /\ Used(S)' <= Len(S)
  BY <1>1, TakeKeeps DEF InStream
<1>3. Line \in Seq(Byte) /\ Len(Line) \in Nat /\ Len(Line) = LineStop - at
  BY <1>2, LineIs, LenProperties
<1>4. /\ at' = at + Len(Line) + (IF More THEN 1 ELSE 0)
      /\ Used(S)' = Used(S) + Len(Line) + (IF More THEN 1 ELSE 0)
      /\ ~More => at' = Len(given)
  BY <1>1, TakeMoves
<1>5. Counted = at + Len(Line)
  BY <1>1 DEF Counted
<1>6. CountEnd => ProcessedLength' = at'
  <2>1. CASE More
    BY <1>4, <1>5, <2>1 DEF CountEnd
  <2>2. CASE ~More
    BY <1>2, <1>3, <1>4, <1>5, <2>2 DEF CountEnd
  <2>3. QED
    BY <2>1, <2>2
<1>7. ~More => Counted = at'
  BY <1>2, <1>3, <1>4, <1>5
<1>8. QED
  BY <1>2, <1>3, <1>4, <1>6, <1>7

LEMMA MessageRead ==
    ASSUME NEW S, NEW E, NEW k, NEW m, NEW q, Parsing(S, E), Reads(S, E, k, m, q)
    PROVE  /\ At(S, E, k, q) /\ sent[k] = m /\ m \in Messages /\ ~m.bad
           /\ k \in 1..Len(Good) /\ k \in Nat /\ Len(Good) \in Nat /\ Len(Parsed) = k - 1
           /\ E[k - 1] \in Nat /\ E[k] \in Nat /\ E[k] = E[k - 1] + Len(m.wire)
           /\ Len(m.wire) \in Nat /\ m.wire \in Seq(Byte)
           /\ q \in 0..Len(m.wire) /\ Used(S) = E[k - 1] + q
<1>1. /\ SentInv /\ Laid(S, E) /\ InStream(S) /\ k \in 1..Len(Good) /\ m = Good[k]
      /\ q \in 0..Len(m.wire) /\ Used(S) = E[k - 1] + q /\ Len(Parsed) = k - 1
  BY DEF Parsing, Reads
<1>2. /\ k \in 1..Len(sent) /\ Good[k] = sent[k] /\ Good[k] \in Messages /\ ~Good[k].bad
      /\ E[k - 1] \in Nat /\ E[k] \in Nat /\ E[k] = E[k - 1] + Len(Good[k].wire)
      /\ Len(Good[k].wire) \in Nat /\ Good[k].wire \in Seq(Byte)
  BY <1>1, GoodEnds
<1>3. At(S, E, k, q)
  BY <1>1, <1>2 DEF At
<1>4. Len(Good) \in Nat
  BY <1>1, GoodAre
<1>5. QED
  BY <1>1, <1>2, <1>3, <1>4

\* what was given is the stream from where the parser is
LEMMA StreamByte ==
    ASSUME NEW S, NEW E, Parsing(S, E), NEW j \in 1..(Len(given) - at)
    PROVE  given[at + j] = S[Used(S) + j]
<1> DEFINE n == Len(S) - Len(wire) - Len(given)
<1>1. /\ Len(S) \in Nat /\ Len(given) \in Nat /\ Len(wire) \in Nat
      /\ at \in 0..Len(given) /\ Len(given) + Len(wire) <= Len(S)
  BY StreamTypes DEF Parsing, InStream
<1>2. at + j \in 1..Len(given)
  BY <1>1
<1>3. given[at + j] = S[n + (at + j)]
  BY <1>2 DEF Parsing, InStream
<1>4. n + (at + j) = Used(S) + j
  BY <1>1 DEF Used
<1>5. QED
  BY <1>3, <1>4

\* the next end of a line in a head
LEMMA NextEnd ==
    ASSUME NEW m \in Messages, ~m.bad, NEW q \in 0..(m.head - 1)
    PROVE  \E x \in (q + 1)..m.head :
             Is(m.wire[x], LF) /\ \A j \in (q + 1)..(x - 1) : ~Is(m.wire[j], LF)
<1> DEFINE X == {x \in (q + 1)..m.head : Is(m.wire[x], LF)}
<1>1. m.head \in Nat /\ m.head \in 1..Len(m.wire) /\ Is(m.wire[m.head], LF)
  <2>1. m.head \in 1..Len(m.wire) /\ Len(m.wire) \in Nat /\ HasHead(m)
    BY GoodIs
  <2>2. Is(m.wire[m.head], LF)
    BY <2>1 DEF HasHead, EndsHead
  <2>3. QED
    BY <2>1, <2>2
<1>2. m.head \in X /\ X \subseteq Nat
  BY <1>1
<1>3. \A x : x \in X <=> x \in (q + 1)..m.head /\ Is(m.wire[x], LF)
  OBVIOUS
<1> HIDE DEF X
<1>4. PICK x \in X : \A y \in X : x <= y
  BY <1>2, LeastNatural
<1>5. x \in (q + 1)..m.head /\ Is(m.wire[x], LF)
  BY <1>3
<1>6. ASSUME NEW j \in (q + 1)..(x - 1) PROVE ~Is(m.wire[j], LF)
  <2>1. j \in (q + 1)..m.head /\ j < x /\ j \in Int /\ x \in Int
    BY <1>1, <1>5
  <2>2. ~(x <= j)
    BY <2>1
  <2>3. QED
    BY <1>3, <1>4, <2>1, <2>2
<1>7. QED
  BY <1>5, <1>6

\* the bytes of a line that goes on to the next end x, in a message
LEMMA LineOf ==
    ASSUME NEW S, NEW E, NEW k, NEW m, NEW q, Parsing(S, E), Reads(S, E, k, m, q), Take,
           NEW x \in (q + 1)..Len(m.wire), Is(m.wire[x], LF),
           \A j \in (q + 1)..(x - 1) : ~Is(m.wire[j], LF)
    PROVE  /\ q + Len(Line) < x /\ Len(Line) \in Nat
           /\ Line = SubSeq(m.wire, q + 1, q + Len(Line))
           /\ More => q + Len(Line) + 1 = x
           /\ ~More => Len(Line) > 0 /\ m.wire[q + Len(Line)].cut
<1>1. SentInv /\ ReadInv /\ ProcessedLength = at /\ at < Len(given)
  BY DEF Parsing, Take
<1>2. At(S, E, k, q) /\ sent[k] = m
  BY MessageRead
<1>3. x \in (q + 1)..Len(sent[k].wire) /\ Is(sent[k].wire[x], LF)
  BY <1>2
<1>4. \A j \in (q + 1)..(x - 1) : ~Is(sent[k].wire[j], LF)
  BY <1>2
<1>5. /\ q + Len(Line) < x /\ Len(Line) \in Nat
      /\ Line = SubSeq(sent[k].wire, q + 1, q + Len(Line))
      /\ More => q + Len(Line) + 1 = x
      /\ ~More => Len(Line) > 0 /\ sent[k].wire[q + Len(Line)].cut
  BY <1>1, <1>2, <1>3, <1>4, LineTo
<1>6. QED
  BY <1>2, <1>5

\* A line in the head of a message.
LEMMA HeadLine ==
    ASSUME NEW S, NEW E, NEW k, NEW m, NEW q, Parsing(S, E), Reads(S, E, k, m, q), ParseStep,
           q < m.head, CurrentRequest = SubSeq(m.wire, 1, q), InContent = FALSE, SizeBuf = <<>>,
           \/ q = 0 \/ Is(m.wire[q], LF)
           \/ q + 1 < m.head /\ Is(m.wire[q + 1], LF) /\ at \in {0, Len(given)}
    PROVE  Onward(S, E)
<1>1. /\ m \in Messages /\ ~m.bad /\ m.wire \in Seq(Byte) /\ Len(m.wire) \in Nat
      /\ m.head \in 1..Len(m.wire) /\ HasHead(m) /\ q \in 0..(m.head - 1) /\ q \in Nat
      /\ k \in 1..Len(Good) /\ k \in Nat /\ Len(Parsed) = k - 1
      /\ E[k - 1] \in Nat /\ Used(S) = E[k - 1] + q
  <2>1. m \in Messages /\ ~m.bad
    BY MessageRead
  <2>2. m.head \in 1..Len(m.wire) /\ HasHead(m)
    BY <2>1, GoodIs
  <2>3. QED
    BY <2>1, <2>2, MessageRead
<1>2. Take
  BY ParseExtends DEF Parsing
<1>3. /\ CountEnd => ProcessedLength' = at'
      /\ ~More => at' = Len(given')
      /\ Used(S)' = Used(S) + Len(Line) + (IF More THEN 1 ELSE 0)
      /\ sent' = sent /\ extracted' = extracted
      /\ at \in 0..(Len(given) - 1) /\ Len(given) \in Nat
  BY <1>2, Moved
<1>4. PICK x \in (q + 1)..m.head :
             Is(m.wire[x], LF) /\ \A j \in (q + 1)..(x - 1) : ~Is(m.wire[j], LF)
  BY <1>1, NextEnd
<1>5. /\ q + Len(Line) < x /\ Len(Line) \in Nat
      /\ Line = SubSeq(m.wire, q + 1, q + Len(Line))
      /\ More => q + Len(Line) + 1 = x
      /\ ~More => Len(Line) > 0 /\ m.wire[q + Len(Line)].cut
  <2>1. x \in (q + 1)..Len(m.wire)
    BY <1>1, <1>4
  <2>2. QED
    BY <1>2, <1>4, <2>1, LineOf
<1>6. PICK n \in Nat : n = Len(Line)
  BY <1>5
<1>7. q + n < m.head /\ q + n < x /\ x \in Nat
  BY <1>1, <1>4, <1>5, <1>6
<1>8. HeaderGoesOn
  <2>1. ~SkipBlank
    <3>1. SUFFICES ASSUME SkipBlank PROVE FALSE
      OBVIOUS
    <3>2. CurrentRequest = <<>> /\ Blank(Line)
      BY <3>1 DEF SkipBlank
    <3>3. q = 0
      <4>1. 0 \in Nat /\ q \in 0..Len(m.wire) /\ 0 + 1 = 1 /\ q - 0 = q
        BY <1>1
      <4>2. Len(SubSeq(m.wire, 0 + 1, q)) = q - 0
        BY <1>1, <4>1, Piece
      <4>3. Len(<<>>) = 0
        OBVIOUS
      <4>4. QED
        BY <3>2, <4>1, <4>2, <4>3
    <3>4. n = 0 \/ (n = 1 /\ Is(m.wire[q + 1], CR))
      <4>1. q + n <= Len(m.wire)
        BY <1>1, <1>7
      <4>2. Blank(SubSeq(m.wire, q + 1, q + n))
        BY <1>5, <1>6, <3>2
      <4>3. QED
        BY <1>1, <4>1, <4>2, BlankIs
    <3>5. ~Is(m.wire[1], CR) /\ ~Is(m.wire[1], LF)
      BY <1>1 DEF HasHead
    <3>6. n = 0 /\ More
      BY <1>5, <1>6, <3>3, <3>4, <3>5
    <3>7. x = 1
      BY <1>5, <1>6, <3>3, <3>6
    <3>8. QED
      BY <1>4, <3>5, <3>7
  <2>2. ~(BufferChunkSize \/ ChunkSize \/ ChunkEnds \/ BodyGoesOn \/ BodyEnds)
    BY DEF BufferChunkSize, ChunkSize, ChunkEnds, BodyGoesOn, BodyEnds, AtChunkSize, InBody
  <2>3. QED
    BY <2>1, <2>2 DEF ParseStep
<1>9. HeaderLine(ParsedData, SubSeq(m.wire, 1, q), SubSeq(m.wire, q + 1, q + n), IsFirst)
  BY <1>5, <1>6, <1>8 DEF HeaderGoesOn
<1>10. HeadPiece(m, q, n, IsFirst, More)
  <2>1. \A j \in (q + 1)..(q + n) : ~Is(m.wire[j], LF)
    <3>1. \A j \in (q + 1)..(q + n) : j \in (q + 1)..(x - 1)
      BY <1>1, <1>7
    <3>2. QED
      BY <1>4, <3>1
  <2>2. More => Is(m.wire[q + n + 1], LF)
    BY <1>4, <1>5, <1>6
  <2>3. ~More => n > 0 /\ m.wire[q + n].cut
    BY <1>5, <1>6
  <2>4. at \in {0, Len(given)} => IsFirst = TRUE
    BY <1>3 DEF Parsing, ReadInv
  <2>5. QED
    BY <1>7, <2>1, <2>2, <2>3, <2>4 DEF HeadPiece
<1>11. Used(S)' = E[k - 1] + q + n + (IF More THEN 1 ELSE 0)
  BY <1>1, <1>3, <1>6
<1>12. /\ SentInv /\ Laid(S, E) /\ ASeq(extracted) /\ ASeq(ParsedData)
       /\ RightOut(extracted \o ParsedData) /\ threw = FALSE
       /\ Len(extracted \o ParsedData) = k - 1 /\ m = Good[k]
  BY <1>1 DEF Parsing, OutInv, Parsed, Reads
<1>13. OutInv' /\ InGood(S, E)'
  BY <1>1, <1>3, <1>9, <1>10, <1>11, <1>12, HeadGoes
<1>14. QED
  BY <1>13 DEF Onward

\* Nothing came out, and the parser is in the message.
LEMMA StaysInside ==
    ASSUME NEW S, NEW E, NEW k, NEW m, NEW q, Parsing(S, E), Reads(S, E, k, m, q), Take,
           ParsedData' = ParsedData, threw' = FALSE, ProcessedLength' = at',
           NEW y \in 1..Len(m.wire), y = q + Len(Line) + (IF More THEN 1 ELSE 0), Inside(m, y)'
    PROVE  Onward(S, E)
<1>1. /\ Used(S)' = Used(S) + Len(Line) + (IF More THEN 1 ELSE 0)
      /\ sent' = sent /\ extracted' = extracted /\ Len(Line) \in Nat
  BY Moved
<1>2. /\ k \in 1..Len(Good) /\ Len(Parsed) = k - 1 /\ E[k - 1] \in Nat
      /\ q \in 0..Len(m.wire) /\ Used(S) = E[k - 1] + q
  BY MessageRead
<1>3. SentInv /\ OutInv /\ m = Good[k]
  BY DEF Parsing, Reads
<1>4. OutInv' /\ Parsed' = Parsed
  BY <1>1, <1>3, NoneMore
<1>5. Used(S)' = E[k - 1] + y
  <2>1. CASE More
    BY <1>1, <1>2, <2>1
  <2>2. CASE ~More
    BY <1>1, <1>2, <2>2
  <2>3. QED
    BY <2>1, <2>2
<1>6. Len(Parsed') = k - 1
  BY <1>2, <1>4
<1>7. InGood(S, E)'
  BY <1>1, <1>2, <1>3, <1>5, <1>6, GoesOnInside
<1>8. QED
  BY <1>4, <1>7 DEF Onward

\* The message came out.
LEMMA ComesOut ==
    ASSUME NEW S, NEW E, NEW k, NEW m, NEW q, Parsing(S, E), Reads(S, E, k, m, q), Take,
           ParsedData' = Append(ParsedData, m.parsed), threw' = FALSE, ProcessedLength' = at',
           CurrentRequest' = <<>>, InContent' = FALSE, SizeBuf' = <<>>,
           \/ Used(S)' = E[k]
           \/ m.chunks # <<>> /\ Used(S)' + 2 = E[k]
           \/ k = Len(Good) /\ Used(S)' > E[k]
    PROVE  Onward(S, E)
<1>1. /\ sent' = sent /\ extracted' = extracted
      /\ Used(S)' \in Nat /\ Used(S)' <= Len(S)
  BY Moved
<1>2. k \in 1..Len(Good) /\ k \in Nat /\ Len(Good) \in Nat /\ Len(Parsed) = k - 1
  BY MessageRead
<1>3. SentInv /\ OutInv /\ Laid(S, E) /\ m = Good[k]
  BY DEF Parsing, Reads
<1>4. /\ ASeq(extracted) /\ ASeq(ParsedData) /\ RightOut(extracted \o ParsedData)
      /\ Len(extracted \o ParsedData) = k - 1
  BY <1>2, <1>3 DEF OutInv, Parsed
<1>5. /\ ASeq(ParsedData') /\ RightOut(extracted \o ParsedData')
      /\ Len(extracted \o ParsedData') = k
  BY <1>2, <1>3, <1>4, OneMore
<1>6. Parsed' = extracted \o ParsedData' /\ Good' = Good
  BY <1>1, SameGood DEF Parsed
<1>7. OutInv'
  BY <1>1, <1>4, <1>5, <1>6 DEF OutInv, RightOut, ASeq
<1>8. Len(Parsed') = k /\ k \in 0..Len(Good)
  BY <1>2, <1>5, <1>6
<1>9. CASE Used(S)' = E[k] \/ (m.chunks # <<>> /\ Used(S)' + 2 = E[k])
  <2>1. \/ Used(S)' = E[k]
        \/ k > 0 /\ Good[k].chunks # <<>> /\ Used(S)' + 2 = E[k]
    BY <1>2, <1>3, <1>9
  <2>2. InGood(S, E)'
    BY <1>1, <1>3, <1>8, <2>1, IsBetween
  <2>3. QED
    BY <1>7, <2>2 DEF Onward
<1>10. CASE k = Len(Good) /\ Used(S)' > E[k]
  <2>1. E[k] \in Nat
    BY MessageRead
  <2>2. Len(Good) <= Len(Parsed') /\ E[Len(Good)] < Used(S)'
    BY <1>1, <1>2, <1>8, <1>10, <2>1
  <2>3. InBad(S, E)'
    BY <1>1, <1>3, <2>2, IsPast
  <2>4. QED
    BY <1>7, <2>3 DEF Onward
<1>11. QED
  BY <1>9, <1>10

\* After the last well-formed message anything may come out.
LEMMA AfterGood ==
    ASSUME NEW S, NEW E, Parsing(S, E), ParseStep, Len(Parsed) = Len(Good),
           Used(S) = E[Len(Good)]
    PROVE  Onward(S, E)
<1>1. Take /\ Extends(ParsedData, ParsedData') /\ SentInv /\ OutInv /\ Laid(S, E)
  BY ParseExtends DEF Parsing
<1>2. /\ sent' = sent /\ extracted' = extracted
      /\ Used(S) \in Nat /\ Used(S)' \in Nat /\ Used(S)' <= Len(S) /\ Used(S)' > Used(S)
  BY <1>1, Moved
<1>3. Len(Parsed) \in Nat /\ Len(Good) \in Nat
  BY <1>1, ParsedIs, GoodAre
<1>4. \A i \in (Len(Parsed) + 1)..Len(Good) : FALSE
  BY <1>3
<1>5. OutInv' /\ Extends(Parsed, Parsed')
  BY <1>1, <1>2, <1>4, OutStep
<1>6. Len(Good) <= Len(Parsed') /\ E[Len(Good)] < Used(S)'
  BY <1>2, <1>5 DEF Extends
<1>7. InBad(S, E)'
  BY <1>1, <1>2, <1>6, IsPast
<1>8. QED
  BY <1>5, <1>7 DEF Onward

\* the line that ends the wire, of which two bytes are left
LEMMA LastTwo ==
    ASSUME NEW S, NEW E, NEW k, NEW m, NEW z, SentInv, ReadInv, At(S, E, k, z), sent[k] = m,
           at < Len(given), ProcessedLength = at, z \in Nat, Len(m.wire) = z + 2,
           Is(m.wire[z + 1], CR), ~m.wire[z + 1].cut, Is(m.wire[z + 2], LF)
    PROVE  More /\ Len(Line) = 1 /\ Line = SubSeq(m.wire, z + 1, z + 1)
<1>1. z + 2 \in (z + 1)..Len(sent[k].wire) /\ Is(sent[k].wire[z + 2], LF)
  OBVIOUS
<1>2. \A j \in (z + 1)..((z + 2) - 1) : ~Is(sent[k].wire[j], LF)
  <2>1. \A j \in (z + 1)..((z + 2) - 1) : j = z + 1
    OBVIOUS
  <2>2. QED
    BY <2>1 DEF Is, CR, LF
<1>3. /\ z + Len(Line) < z + 2 /\ Len(Line) \in Nat
      /\ Line = SubSeq(sent[k].wire, z + 1, z + Len(Line))
      /\ More => z + Len(Line) + 1 = z + 2
      /\ ~More => Len(Line) > 0 /\ sent[k].wire[z + Len(Line)].cut
  BY <1>1, <1>2, LineTo
<1>4. Len(Line) < 2
  BY <1>3
<1>5. More
  <2>1. SUFFICES ASSUME ~More PROVE FALSE
    OBVIOUS
  <2>2. Len(Line) > 0 /\ sent[k].wire[z + Len(Line)].cut
    BY <1>3, <2>1
  <2>3. Len(Line) = 1
    BY <1>3, <1>4, <2>2
  <2>4. QED
    BY <2>2, <2>3
<1>6. z + Len(Line) + 1 = z + 2
  BY <1>3, <1>5
<1>7. Len(Line) = 1
  BY <1>3, <1>6
<1>8. QED
  BY <1>3, <1>5, <1>7

\* The CR LF behind the last chunk is skipped.
LEMMA LastLineEnd ==
    ASSUME NEW S, NEW E, Parsing(S, E), ParseStep, CurrentRequest = <<>>, InContent = FALSE,
           SizeBuf = <<>>, NEW k \in 1..Len(Good), Len(Parsed) = k, Good[k].chunks # <<>>,
           Used(S) + 2 = E[k]
    PROVE  Onward(S, E)
<1>1. Take /\ SentInv /\ ReadInv /\ OutInv /\ Laid(S, E) /\ InStream(S) /\ threw = FALSE
      /\ ProcessedLength = at
  BY ParseExtends DEF Parsing
<1>2. /\ sent' = sent /\ extracted' = extracted /\ at < Len(given)
      /\ Used(S) \in Nat /\ Used(S)' \in Nat /\ Len(Line) \in Nat
      /\ Used(S)' = Used(S) + Len(Line) + (IF More THEN 1 ELSE 0)
      /\ CountEnd => ProcessedLength' = at'
  <2>1. at \in 0..(Len(given) - 1) /\ Len(given) \in Nat
    BY <1>1, Moved
  <2>2. QED
    BY <1>1, <2>1, Moved
<1>3. PICK m : m = Good[k]
  OBVIOUS
<1>4. /\ k \in 1..Len(sent) /\ sent[k] = m /\ m \in Messages /\ ~m.bad
      /\ E[k - 1] \in Nat /\ E[k] \in Nat /\ E[k] = E[k - 1] + Len(m.wire)
      /\ Len(m.wire) \in Nat /\ m.wire \in Seq(Byte) /\ m.chunks # <<>>
  BY <1>1, <1>3, GoodEnds
<1>5. PICK c : c = m.chunks[Len(m.chunks)]
  OBVIOUS
<1>6. /\ c.start \in Nat /\ c.from \in Nat /\ IsChunk(m, c) /\ c.size = 0
      /\ Len(m.wire) = c.start + c.size + 2
  <2>1. Len(m.chunks) \in 1..Len(m.chunks)
    BY <1>4, ChunkIs
  <2>2. QED
    BY <1>4, <1>5, <2>1, ChunkIs
<1>z. PICK z : z = c.start
  OBVIOUS
<1>7. /\ Is(m.wire[z + 1], CR) /\ ~m.wire[z + 1].cut /\ Is(m.wire[z + 2], LF)
      /\ Len(m.wire) = z + 2 /\ z \in Nat
  <2>1. c.start + c.size = z /\ c.size = 0
    BY <1>6, <1>z
  <2>2. QED
    BY <1>6, <1>z, <2>1 DEF IsChunk
<1>8. At(S, E, k, z)
  <2>1. z \in 0..Len(sent[k].wire) /\ Used(S) = E[k - 1] + z
    <3>1. z \in Nat /\ Len(sent[k].wire) = z + 2 /\ E[k - 1] \in Nat /\ Used(S) \in Nat
      BY <1>2, <1>4, <1>7
    <3>2. Used(S) + 2 = E[k - 1] + (z + 2)
      BY <1>4, <1>7
    <3>3. PICK e \in Nat : e = E[k - 1]
      BY <3>1
    <3>4. PICK u \in Nat : u = Used(S)
      BY <3>1
    <3>5. u + 2 = e + (z + 2)
      BY <3>2, <3>3, <3>4
    <3>6. u = e + z
      BY <3>1, <3>5
    <3>7. z \in 0..Len(sent[k].wire)
      BY <3>1
    <3>8. QED
      BY <3>3, <3>4, <3>6, <3>7
  <2>2. QED
    BY <1>1, <1>4, <2>1 DEF At
<1>9. SentInv /\ ReadInv /\ at < Len(given) /\ ProcessedLength = at /\ sent[k] = m
  BY <1>1, <1>2, <1>4
<1>10. More /\ Len(Line) = 1 /\ Line = SubSeq(m.wire, z + 1, z + 1)
  BY <1>7, <1>8, <1>9, LastTwo
<1>11. Blank(Line)
  <2>1. Blank(SubSeq(m.wire, z + 1, z + 1))
    <3>1. z \in Nat /\ 1 \in Nat /\ z + 1 <= Len(m.wire)
      BY <1>7
    <3>2. QED
      BY <1>4, <1>7, <3>1, BlankIs
  <2>2. QED
    BY <1>10, <2>1
<1>12. SkipBlank
  BY <1>11 DEF ParseStep, HeaderGoesOn, BufferChunkSize, ChunkSize, ChunkEnds, BodyGoesOn, BodyEnds,
       AtChunkSize, InBody
<1>13. ProcessedLength' = at' /\ ParsedData' = ParsedData /\ threw' = FALSE
       /\ CurrentRequest' = <<>> /\ InContent' = FALSE /\ SizeBuf' = <<>>
  BY <1>1, <1>2, <1>10, <1>12 DEF SkipBlank, CountEnd, request
<1>14. OutInv' /\ Parsed' = Parsed
  BY <1>1, <1>2, <1>13, NoneMore
<1>15. Used(S)' = E[k]
  BY <1>2, <1>4, <1>10
<1>16. InGood(S, E)'
  <2>1. k \in 0..Len(Good) /\ Len(Parsed') = k
    BY <1>1, <1>14, GoodAre
  <2>2. QED
    BY <1>1, <1>2, <1>13, <1>15, <2>1, IsBetween
<1>17. QED
  BY <1>14, <1>16 DEF Onward

LEMMA BetweenStep ==
    ASSUME NEW S, NEW E, Parsing(S, E), Between(S, E), ParseStep
    PROVE  Onward(S, E)
<1>1. SentInv /\ OutInv /\ Laid(S, E)
  BY DEF Parsing
<1>2. Len(Parsed) \in Nat /\ Len(Good) \in Nat /\ Len(Parsed) <= Len(Good)
  BY <1>1, ParsedIs, GoodAre DEF Between
<1>3. CurrentRequest = <<>> /\ InContent = FALSE /\ SizeBuf = <<>>
  BY DEF Between
<1>4. CASE Used(S) = E[Len(Parsed)] /\ Len(Parsed) = Len(Good)
  BY <1>4, AfterGood
<1>5. CASE Used(S) = E[Len(Parsed)] /\ Len(Parsed) < Len(Good)
  <2>1. PICK k \in 1..Len(Good) : k = Len(Parsed) + 1
    BY <1>2, <1>5
  <2>2. PICK m : m = Good[k]
    OBVIOUS
  <2>3. /\ m \in Messages /\ ~m.bad /\ E[k - 1] \in Nat /\ Len(m.wire) \in Nat
    BY <1>1, <2>1, <2>2, GoodEnds
  <2>4. m.head \in 1..Len(m.wire)
    BY <2>3, GoodIs
  <2>5. Len(Parsed) = k - 1 /\ Used(S) = E[k - 1] + 0 /\ 0 \in 0..Len(m.wire)
    BY <1>2, <1>5, <2>1, <2>3
  <2>6. Reads(S, E, k, m, 0)
    BY <2>1, <2>2, <2>5 DEF Reads
  <2>7. SubSeq(m.wire, 1, 0) = <<>>
    <3>1. SubSeq(m.wire, 0 + 1, 0) = <<>>
      BY EmptyPiece
    <3>2. QED
      BY <3>1
  <2>8. 0 < m.head
    BY <2>4
  <2>9. QED
    BY <1>3, <2>6, <2>7, <2>8, HeadLine
<1>6. CASE Len(Parsed) > 0 /\ Good[Len(Parsed)].chunks # <<>> /\ Used(S) + 2 = E[Len(Parsed)]
  <2>1. PICK k \in 1..Len(Good) : k = Len(Parsed)
    BY <1>2, <1>6
  <2>2. QED
    BY <1>3, <1>6, <2>1, LastLineEnd
<1>7. QED
  BY <1>2, <1>4, <1>5, <1>6 DEF Between

LEMMA InHeadStep ==
    ASSUME NEW S, NEW E, NEW k, NEW m, NEW q, Parsing(S, E), Reads(S, E, k, m, q), ParseStep,
           InHead(m, q)
    PROVE  Onward(S, E)
<1>1. m \in Messages /\ ~m.bad
  BY MessageRead
<1>2. m.head \in 1..Len(m.wire) /\ Len(m.wire) \in Nat
  BY <1>1, GoodIs
<1>3. q < m.head
  BY <1>2 DEF InHead
<1>4. QED
  BY <1>3, HeadLine DEF InHead

-----------------------------------------------------------------------------
(* Steps in a plain body.                                                   *)

\* A line within a message, and its end.
LEMMA LineInside ==
    ASSUME NEW S, NEW E, NEW k, NEW m, NEW q, Parsing(S, E), Reads(S, E, k, m, q), Take,
           q + Len(Line) <= Len(m.wire)
    PROVE  /\ Line = SubSeq(m.wire, q + 1, q + Len(Line))
           /\ \A j \in (q + 1)..(q + Len(Line)) : ~Is(m.wire[j], LF)
           /\ More /\ q + Len(Line) < Len(m.wire) =>
                 Is(m.wire[q + Len(Line) + 1], LF) /\ m.wire[q + Len(Line) + 1] = LineEnd
           /\ ~More => Len(Line) > 0 /\ m.wire[q + Len(Line)].cut
<1>1. /\ SentInv /\ ReadInv /\ ProcessedLength = at /\ at < Len(given) /\ OutInv
      /\ Laid(S, E) /\ InStream(S)
  BY DEF Parsing, Take
<1>2. /\ At(S, E, k, q) /\ sent[k] = m /\ m \in Messages /\ ~m.bad
      /\ Len(m.wire) \in Nat /\ m.wire \in Seq(Byte) /\ q \in 0..Len(m.wire)
  BY MessageRead
<1>3. given \in Seq(Byte) /\ at \in 0..Len(given) /\ Len(given) \in Nat
  BY <1>1, StreamTypes DEF InStream
<1>4. /\ LineStop \in at..Len(given) /\ Len(Line) = LineStop - at /\ Len(Line) \in Nat
      /\ \A j \in 1..Len(Line) : Line[j] = given[at + j] /\ ~Is(Line[j], LF)
      /\ LineStop < Len(given) => Is(given[LineStop + 1], LF)
  BY <1>3, LineIs
<1>5. More <=> LineStop < Len(given)
  BY <1>1, <1>3, MoreIs
<1>6. Line = SubSeq(m.wire, q + 1, q + Len(Line))
  <2>1. q + Len(Line) <= Len(sent[k].wire)
    BY <1>2
  <2>2. QED
    BY <1>1, <1>2, <2>1, LineInMessage
<1>7. \A j \in 1..(Len(given) - at) : q + j <= Len(m.wire) => given[at + j] = m.wire[q + j]
  <2>1. ASSUME NEW j \in 1..(Len(given) - at), q + j <= Len(sent[k].wire)
        PROVE  given[at + j] = sent[k].wire[q + j]
    BY <1>1, <1>2, <2>1, GivenIs
  <2>2. QED
    BY <1>2, <2>1
<1>8. ASSUME NEW j \in (q + 1)..(q + Len(Line)) PROVE ~Is(m.wire[j], LF)
  <2>1. PICK i : i = j - q
    OBVIOUS
  <2>2. /\ i \in 1..Len(Line) /\ i \in 1..(Len(given) - at) /\ q + i = j /\ q + i <= Len(m.wire)
    BY <1>2, <1>3, <1>4, <2>1
  <2>3. given[at + i] = m.wire[q + i] /\ Line[i] = given[at + i] /\ ~Is(Line[i], LF)
    BY <1>4, <1>7, <2>2
  <2>4. QED
    BY <2>2, <2>3
<1>9. ASSUME More, q + Len(Line) < Len(m.wire)
      PROVE  Is(m.wire[q + Len(Line) + 1], LF) /\ m.wire[q + Len(Line) + 1] = LineEnd
  <2>1. PICK i : i = Len(Line) + 1
    OBVIOUS
  <2>2. LineStop < Len(given)
    BY <1>5, <1>9
  <2>3. /\ i \in 1..(Len(given) - at) /\ at + i = LineStop + 1 /\ q + i <= Len(m.wire)
        /\ q + i = q + Len(Line) + 1 /\ q + i \in 1..Len(m.wire)
    BY <1>2, <1>3, <1>4, <1>9, <2>1, <2>2
  <2>4. Is(given[at + i], LF) /\ given[at + i] = m.wire[q + i]
    BY <1>4, <1>7, <2>2, <2>3
  <2>5. \A j \in 1..Len(m.wire) : Is(m.wire[j], LF) => m.wire[j] = LineEnd
    BY <1>2, GoodIs
  <2>6. QED
    BY <2>3, <2>4, <2>5
<1>10. ASSUME ~More PROVE Len(Line) > 0 /\ m.wire[q + Len(Line)].cut
  <2>1. LineStop = Len(given) /\ Len(Line) = Len(given) - at
    BY <1>3, <1>4, <1>5, <1>10
  <2>2. q + (Len(given) - at) <= Len(sent[k].wire)
    BY <1>2, <2>1
  <2>3. sent[k].wire[q + (Len(given) - at)].cut
    BY <1>1, <1>2, <2>2, GivenEnds
  <2>4. QED
    BY <1>1, <1>2, <1>3, <2>1, <2>3
<1>11. QED
  BY <1>6, <1>8, <1>9, <1>10

\* What a line adds to the bytes in front of it, without its end and with it.
LEMMA LineAlone ==
    ASSUME NEW w, NEW a, NEW q, NEW n, NEW line, w \in Seq(Byte), a \in Nat, q \in a..Len(w),
           n \in Nat, q + n <= Len(w), line = SubSeq(w, q + 1, q + n)
    PROVE  /\ SubSeq(w, a + 1, q) \o line = SubSeq(w, a + 1, q + n)
           /\ SubSeq(w, a + 1, q) \o line \o <<>> = SubSeq(w, a + 1, q + n)
<1>1. Len(w) \in Nat /\ q \in Nat /\ q + n \in q..Len(w) /\ q + n \in a..Len(w)
  BY LenProperties
<1>2. SubSeq(w, a + 1, q) \o line = SubSeq(w, a + 1, q + n)
  BY <1>1, TwoPieces
<1>3. SubSeq(w, a + 1, q + n) \in Seq(Byte)
  BY <1>1, Piece
<1>4. SubSeq(w, a + 1, q + n) \o <<>> = SubSeq(w, a + 1, q + n)
  BY <1>3, ConcatEmptySeq
<1>5. QED
  BY <1>2, <1>4

LEMMA LineEnded ==
    ASSUME NEW w, NEW a, NEW q, NEW n, NEW line, w \in Seq(Byte), a \in Nat, q \in a..Len(w),
           n \in Nat, q + n < Len(w), line = SubSeq(w, q + 1, q + n), w[q + n + 1] = LineEnd
    PROVE  SubSeq(w, a + 1, q) \o line \o <<LineEnd>> = SubSeq(w, a + 1, q + n + 1)
<1>1. Len(w) \in Nat /\ q \in Nat /\ q + n <= Len(w) /\ q + n \in a..(Len(w) - 1)
  BY LenProperties
<1>2. SubSeq(w, a + 1, q) \o line = SubSeq(w, a + 1, q + n)
  BY <1>1, LineAlone
<1>3. SubSeq(w, a + 1, q + n) \o <<w[q + n + 1]>> = SubSeq(w, a + 1, q + n + 1)
  BY <1>1, PieceAndNext
<1>4. QED
  BY <1>2, <1>3

\* A plain message is complete.
LEMMA PlainFlushed ==
    ASSUME NEW m \in Messages, ~m.bad, m.chunks = <<>>, NEW parsed
    PROVE  Flushed(parsed, m.wire, m.parsed.first, m.parsed.headers, Len(m.wire) - m.head)
              = Append(parsed, m.parsed)
<1>1. m.wire # <<>> /\ Len(m.wire) \in Nat /\ m.head \in 1..Len(m.wire)
  BY GoodIs
<1>2. m.parsed.body = SubSeq(m.wire, m.head + 1, Len(m.wire))
  BY MessageAssumption DEF WellFormed
<1>3. m.parsed = [first |-> m.parsed.first, headers |-> m.parsed.headers, body |-> m.parsed.body]
  BY MessageAssumption
<1>4. Len(m.wire) - (Len(m.wire) - m.head) + 1 = m.head + 1
  BY <1>1
<1>5. QED
  BY <1>1, <1>2, <1>3, <1>4 DEF Flushed

LEMMA PlainGoesOn ==
    ASSUME NEW S, NEW E, NEW k, NEW m, NEW q, Parsing(S, E), Reads(S, E, k, m, q), BodyGoesOn,
           InPlain(m, q)
    PROVE  Onward(S, E)
<1>1. /\ m \in Messages /\ ~m.bad /\ Len(m.wire) \in Nat /\ m.wire \in Seq(Byte)
      /\ E[k] = E[k - 1] + Len(m.wire) /\ E[k - 1] \in Nat /\ Used(S) = E[k - 1] + q
  BY MessageRead
<1>2. m.head \in 1..Len(m.wire)
  BY <1>1, GoodIs
<1>3. /\ q \in m.head..(Len(m.wire) - 1) /\ HeadRead(m) /\ m.chunks = <<>> /\ SizeBuf = <<>>
      /\ CurrentRequest = SubSeq(m.wire, 1, q) /\ ContentLength = Len(m.wire) - q
      /\ OriginalContentLength = Len(m.wire) - m.head
  BY DEF InPlain
<1>4. /\ CurrentFirstLine = m.parsed.first /\ CurrentHeaders = m.parsed.headers
      /\ ChunkedEncoding = FALSE
  BY <1>3 DEF HeadRead
<1>5. Take /\ Len(Line) < ContentLength /\ threw' = threw /\ SizeBuf' = SizeBuf /\ CountEnd
  BY DEF BodyGoesOn
<1>6. /\ Len(Line) \in Nat /\ (CountEnd => ProcessedLength' = at')
      /\ Used(S)' = Used(S) + Len(Line) + (IF More THEN 1 ELSE 0)
  BY <1>5, Moved
<1>7. ProcessedLength' = at' /\ threw' = FALSE /\ SizeBuf' = <<>>
  BY <1>3, <1>5, <1>6 DEF Parsing
<1>8. q + Len(Line) < Len(m.wire) /\ q + Len(Line) <= Len(m.wire) /\ q \in Nat
  BY <1>1, <1>2, <1>3, <1>5, <1>6
<1>9. /\ Line = SubSeq(m.wire, q + 1, q + Len(Line))
      /\ More => m.wire[q + Len(Line) + 1] = LineEnd
      /\ ~More => Len(Line) > 0
  BY <1>5, <1>8, LineInside
<1>n. PICK n \in Nat : n = Len(Line)
  BY <1>6
<1>d. PICK d \in {0, 1} : d = IF More THEN 1 ELSE 0
  OBVIOUS
<1>e. PICK end : end = IF More THEN <<LineEnd>> ELSE <<>>
  OBVIOUS
<1>y. PICK y \in Nat : y = q + n + d
  BY <1>8, <1>n
<1> DEFINE bytes == CurrentRequest \o Line \o end
           left == ContentLength - n - d
<1>10. \/ ~More /\ end = <<>> /\ d = 0
       \/ More /\ end = <<LineEnd>> /\ d = 1
  BY <1>d, <1>e
<1>11. bytes = SubSeq(m.wire, 1, y) /\ y \in q..Len(m.wire)
  <2>0. PICK a \in Nat : a = 0
    OBVIOUS
  <2>1. q \in a..Len(m.wire) /\ a + 1 = 1
    BY <1>1, <1>8, <2>0
  <2>2. /\ m.wire \in Seq(Byte) /\ a \in Nat /\ q \in a..Len(m.wire) /\ n \in Nat
        /\ Line = SubSeq(m.wire, q + 1, q + n) /\ q + n < Len(m.wire) /\ q + n <= Len(m.wire)
    BY <1>1, <1>8, <1>9, <1>n, <2>1
  <2>3. CASE ~More
    <3>1. SubSeq(m.wire, a + 1, q) \o Line \o <<>> = SubSeq(m.wire, a + 1, q + n)
      BY <2>2, LineAlone
    <3>2. y = q + n /\ end = <<>>
      BY <1>8, <1>10, <1>y, <2>3
    <3>3. QED
      <4>1. CurrentRequest \o Line \o <<>> = SubSeq(m.wire, 1, y)
        BY <1>3, <2>1, <3>1, <3>2
      <4>2. y \in q..Len(m.wire)
        BY <1>1, <1>8, <2>2, <3>2
      <4>3. QED
        BY <3>2, <4>1, <4>2
  <2>4. CASE More
    <3>1. m.wire[q + n + 1] = LineEnd
      BY <1>9, <1>n, <2>4
    <3>2. SubSeq(m.wire, a + 1, q) \o Line \o <<LineEnd>> = SubSeq(m.wire, a + 1, q + n + 1)
      BY <2>2, <3>1, LineEnded
    <3>3. y = q + n + 1 /\ end = <<LineEnd>>
      BY <1>10, <1>y, <2>4
    <3>4. QED
      <4>1. CurrentRequest \o Line \o <<LineEnd>> = SubSeq(m.wire, 1, y)
        BY <1>3, <2>1, <3>2, <3>3
      <4>2. y \in q..Len(m.wire)
        BY <1>1, <1>8, <2>2, <3>3
      <4>3. QED
        BY <3>3, <4>1, <4>2
  <2>5. QED
    BY <2>3, <2>4
<1>12. left = Len(m.wire) - y /\ Used(S)' = E[k - 1] + y /\ y \in 1..Len(m.wire) /\ y \in Nat
  <2>1. Used(S)' = Used(S) + n + d
    BY <1>6, <1>d, <1>n
  <2>2. q \in Nat /\ 1 <= q
    BY <1>2, <1>3, <1>8
  <2>3. Used(S)' = E[k - 1] + y
    BY <1>1, <1>y, <2>1, <2>2
  <2>4. y \in 1..Len(m.wire)
    BY <1>1, <1>11, <2>2
  <2>5. left = Len(m.wire) - y
    BY <1>1, <1>3, <1>y, <2>2
  <2>6. QED
    BY <2>3, <2>4, <2>5
<1>13. \/ /\ Complete(left)
          /\ ParsedData' = Flushed(ParsedData, bytes, CurrentFirstLine, CurrentHeaders,
                                   OriginalContentLength)
          /\ Reset
       \/ /\ ~Complete(left)
          /\ CurrentRequest' = bytes /\ ContentLength' = left
          /\ UNCHANGED <<ParsedData, headVars, OriginalContentLength>>
  BY <1>d, <1>e, <1>n DEF BodyGoesOn
<1> HIDE DEF bytes, left
<1>14. CASE Complete(left) /\ Reset
            /\ ParsedData' = Flushed(ParsedData, bytes, CurrentFirstLine, CurrentHeaders,
                                     OriginalContentLength)
  <2>1. left = 0
    BY <1>14 DEF Complete
  <2>2. y = Len(m.wire)
    BY <1>1, <1>12, <2>1
  <2>3. bytes = m.wire
    BY <1>1, <1>11, <2>2, WholePiece
  <2>4. ParsedData' = Append(ParsedData, m.parsed)
    BY <1>1, <1>3, <1>4, <1>14, <2>3, PlainFlushed
  <2>5. Used(S)' = E[k] /\ CurrentRequest' = <<>> /\ InContent' = FALSE
    BY <1>1, <1>12, <1>14, <2>2 DEF Reset
  <2>6. QED
    BY <1>5, <1>7, <2>4, <2>5, ComesOut
<1>15. CASE /\ ~Complete(left)
            /\ CurrentRequest' = bytes /\ ContentLength' = left
            /\ UNCHANGED <<ParsedData, headVars, OriginalContentLength>>
  <2>1. left # 0
    BY <1>4, <1>15 DEF Complete
  <2>2. y \in m.head..(Len(m.wire) - 1)
    BY <1>1, <1>2, <1>3, <1>11, <1>12, <2>1
  <2>3. HeadRead(m)'
    BY <1>3, <1>15 DEF HeadRead, headVars
  <2>4. InPlain(m, y)'
    BY <1>3, <1>7, <1>11, <1>12, <1>15, <2>2, <2>3 DEF InPlain
  <2>5. Inside(m, y)'
    BY <2>4 DEF Inside
  <2>6. y = q + Len(Line) + (IF More THEN 1 ELSE 0)
    BY <1>d, <1>n, <1>y
  <2>7. ParsedData' = ParsedData
    BY <1>15
  <2>8. QED
    BY <1>5, <1>7, <1>12, <2>5, <2>6, <2>7, StaysInside
<1>16. QED
  BY <1>13, <1>14, <1>15

\* A line that has the end of a body: what is behind it.
LEMMA BehindBody ==
    ASSUME NEW S, NEW E, NEW k, NEW m, NEW q, Parsing(S, E), Reads(S, E, k, m, q), Take,
           NEW n, n = ContentLength, n \in Nat, q + n = Len(m.wire), Len(Line) >= n
    PROVE  /\ SubSeq(Line, 1, ContentLength) = SubSeq(m.wire, q + 1, Len(m.wire))
           /\ Rest \in Seq(Byte) /\ Len(Rest) \in Nat /\ Len(Rest) = Len(Line) - n
           /\ \A j \in 1..Len(Rest) : Rest[j] = S[E[k] + j] /\ ~Is(S[E[k] + j], LF)
           /\ More => Is(S[E[k] + (Len(Rest) + 1)], LF)
           /\ ~More /\ Len(Rest) > 0 => S[E[k] + Len(Rest)].cut
           /\ Used(S)' = E[k] + Len(Rest) + (IF More THEN 1 ELSE 0)
<1>1. /\ SentInv /\ ReadInv /\ ProcessedLength = at /\ at < Len(given)
      /\ Laid(S, E) /\ InStream(S)
  BY DEF Parsing, Take
<1>2. /\ At(S, E, k, q) /\ sent[k] = m
      /\ Len(m.wire) \in Nat /\ m.wire \in Seq(Byte) /\ q \in 0..Len(m.wire)
      /\ E[k - 1] \in Nat /\ E[k] \in Nat /\ E[k] = E[k - 1] + Len(m.wire)
      /\ Used(S) = E[k - 1] + q
  BY MessageRead
<1>3. given \in Seq(Byte) /\ at \in 0..Len(given) /\ Len(given) \in Nat
  BY <1>1, StreamTypes DEF InStream
<1>4. /\ LineStop \in at..Len(given) /\ Len(Line) = LineStop - at /\ Len(Line) \in Nat
      /\ Line \in Seq(Byte)
      /\ \A j \in 1..Len(Line) : Line[j] = given[at + j] /\ ~Is(Line[j], LF)
      /\ LineStop < Len(given) => Is(given[LineStop + 1], LF)
  BY <1>3, LineIs
<1>5. More <=> LineStop < Len(given)
  BY <1>1, <1>3, MoreIs
<1>6. \A j \in 1..(Len(given) - at) : given[at + j] = S[Used(S) + j]
  BY StreamByte
<1>7. Used(S) + n = E[k] /\ q \in Nat /\ Used(S) \in Nat
  BY <1>2
<1>8. SubSeq(Line, 1, ContentLength) = SubSeq(m.wire, q + 1, Len(m.wire))
  <2>0. PICK a \in Nat : a = 0
    OBVIOUS
  <2>1. n \in a..Len(Line) /\ a + 1 = 1 /\ n - a = n
    BY <1>4, <2>0
  <2>2. /\ SubSeq(Line, a + 1, n) \in Seq(Byte) /\ Len(SubSeq(Line, a + 1, n)) = n - a
        /\ \A j \in 1..(n - a) : SubSeq(Line, a + 1, n)[j] = Line[a + j]
    BY <1>4, <2>1, Piece
  <2>3. PICK t : t = SubSeq(Line, 1, n)
    OBVIOUS
  <2>4. t \in Seq(Byte) /\ Len(t) = n /\ \A j \in 1..n : t[j] = Line[j]
    BY <2>0, <2>1, <2>2, <2>3
  <2>5. ASSUME NEW j \in 1..n PROVE t[j] = m.wire[q + j]
    <3>1. j \in 1..(Len(given) - at) /\ q + j <= Len(sent[k].wire) /\ j \in 1..Len(Line)
      BY <1>2, <1>3, <1>4
    <3>2. SentInv /\ At(S, E, k, q)
      BY <1>1, <1>2
    <3>3. given[at + j] = sent[k].wire[q + j]
      BY <3>1, <3>2, GivenIs
    <3>4. QED
      BY <1>2, <1>4, <2>4, <3>1, <3>3
  <2>6. PICK b \in q..Len(m.wire) : b = Len(m.wire)
    BY <1>2
  <2>7. b - q = n
    BY <1>2, <1>7, <2>6
  <2>8. t = SubSeq(m.wire, q + 1, b)
    BY <1>2, <1>7, <2>4, <2>5, <2>7, IsPiece
  <2>9. QED
    BY <2>3, <2>6, <2>8
<1>9. PICK l \in Nat : l = Len(Line)
  BY <1>4
<1>10. PICK r \in Nat : r = l - n
  <2>1. l \in Nat /\ n \in Nat /\ l >= n
    BY <1>9
  <2>2. l - n \in Nat
    BY <2>1
  <2>3. QED
    BY <2>2
<1>11. /\ Rest \in Seq(Byte) /\ Len(Rest) = r
       /\ \A j \in 1..r : Rest[j] = Line[n + j]
  <2>1. l \in n..Len(Line)
    BY <1>9
  <2>2. /\ SubSeq(Line, n + 1, l) \in Seq(Byte) /\ Len(SubSeq(Line, n + 1, l)) = l - n
        /\ \A j \in 1..(l - n) : SubSeq(Line, n + 1, l)[j] = Line[n + j]
    BY <1>4, <2>1, Piece
  <2>3. Rest = SubSeq(Line, n + 1, l)
    BY <1>9 DEF Rest
  <2>4. QED
    BY <1>10, <2>2, <2>3
<1>12. ASSUME NEW j \in 1..r PROVE Rest[j] = S[E[k] + j] /\ ~Is(S[E[k] + j], LF)
  <2>1. PICK i : i = n + j
    OBVIOUS
  <2>2. i \in 1..Len(Line) /\ i \in 1..(Len(given) - at)
    BY <1>3, <1>4, <1>9, <1>10, <2>1
  <2>3. Rest[j] = Line[i] /\ Line[i] = given[at + i] /\ ~Is(Line[i], LF)
        /\ given[at + i] = S[Used(S) + i]
    BY <1>4, <1>6, <1>11, <2>1, <2>2
  <2>4. Used(S) + i = E[k] + j
    BY <1>2, <1>7, <2>1
  <2>5. QED
    BY <2>3, <2>4
<1>13. ASSUME More PROVE Is(S[E[k] + (r + 1)], LF)
  <2>1. PICK i : i = n + r + 1
    OBVIOUS
  <2>2. LineStop < Len(given)
    BY <1>5, <1>13
  <2>3. i \in 1..(Len(given) - at) /\ at + i = LineStop + 1
    BY <1>3, <1>4, <1>9, <1>10, <2>1, <2>2
  <2>4. Is(S[Used(S) + i], LF)
    BY <1>4, <1>6, <2>2, <2>3
  <2>5. Used(S) + i = E[k] + (r + 1)
    <3>1. PICK u \in Nat : u = Used(S)
      BY <1>7
    <3>2. PICK e \in Nat : e = E[k]
      BY <1>2
    <3>3. u + n = e
      BY <1>7, <3>1, <3>2
    <3>4. u + i = e + (r + 1)
      BY <2>1, <3>3
    <3>5. QED
      BY <3>1, <3>2, <3>4
  <2>6. QED
    BY <2>4, <2>5
<1>14. ASSUME ~More, r > 0 PROVE S[E[k] + r].cut
  <2>1. LineStop = Len(given)
    BY <1>3, <1>4, <1>5, <1>14
  <2>2. PICK i : i = n + r
    OBVIOUS
  <2>3. i \in 1..(Len(given) - at) /\ at + i = Len(given)
    <3>1. i = l /\ i > 0
      BY <1>10, <1>14, <2>2
    <3>2. i = Len(given) - at
      BY <1>4, <1>9, <2>1, <3>1
    <3>3. QED
      BY <1>3, <3>1, <3>2
  <2>4. given[Len(given)] = S[Used(S) + i]
    BY <1>6, <2>3
  <2>5. Used(S) + i = E[k] + r
    BY <1>2, <1>7, <1>10, <2>2
  <2>6. given # <<>>
    <3>1. Len(<<>>) = 0
      OBVIOUS
    <3>2. QED
      BY <1>1, <1>3, <3>1
  <2>7. QED
    BY <1>1, <2>4, <2>5, <2>6 DEF ReadInv
<1>15. Used(S)' = E[k] + r + (IF More THEN 1 ELSE 0)
  <2>1. Used(S)' = Used(S) + l + (IF More THEN 1 ELSE 0)
    BY <1>9, Moved
  <2>2. Used(S) + l = E[k] + r
    <3>1. PICK u \in Nat : u = Used(S)
      BY <1>7
    <3>2. PICK e \in Nat : e = E[k]
      BY <1>2
    <3>3. u + n = e
      BY <1>7, <3>1, <3>2
    <3>4. u + l = e + r
      BY <1>10, <3>3
    <3>5. QED
      BY <3>1, <3>2, <3>4
  <2>3. QED
    BY <1>2, <1>7, <2>1, <2>2
<1>16. QED
  BY <1>4, <1>8, <1>9, <1>10, <1>11, <1>12, <1>13, <1>14, <1>15

\* the bytes of the next message are next in the stream
LEMMA NextInStream ==
    ASSUME NEW S, NEW E, SentInv, Laid(S, E), NEW k, NEW k2, k \in Nat, k2 = k + 1,
           k2 \in 1..Len(Good), NEW m2, m2 = Good[k2]
    PROVE  /\ m2 \in Messages /\ ~m2.bad /\ Len(m2.wire) \in Nat /\ m2.wire \in Seq(Byte)
           /\ m2.head \in 1..Len(m2.wire) /\ HasHead(m2)
           /\ ~Is(m2.wire[1], CR) /\ ~Is(m2.wire[1], LF)
           /\ \A j \in 1..Len(m2.wire) : S[E[k] + j] = m2.wire[j]
<1>1. /\ k2 \in 1..Len(sent) /\ sent[k2] = m2 /\ m2 \in Messages /\ ~m2.bad
      /\ Len(m2.wire) \in Nat /\ m2.wire \in Seq(Byte)
  BY GoodEnds
<1>2. m2.head \in 1..Len(m2.wire) /\ HasHead(m2)
  BY <1>1, GoodIs
<1>3. ~Is(m2.wire[1], CR) /\ ~Is(m2.wire[1], LF)
  BY <1>2 DEF HasHead
<1>4. \A j \in 1..Len(sent[k2].wire) : S[E[k2 - 1] + j] = sent[k2].wire[j]
  BY <1>1 DEF Laid
<1>5. k2 - 1 = k
  OBVIOUS
<1>6. QED
  BY <1>1, <1>2, <1>3, <1>4, <1>5

\* The message came out, and a line of what follows it is there.
LEMMA NextHead ==
    ASSUME NEW S, NEW E, NEW k, NEW m, NEW q, Parsing(S, E), Reads(S, E, k, m, q), Take,
           NEW p, p = Append(ParsedData, m.parsed), NEW k2, k2 = k + 1, k2 \in 1..Len(Good),
           NEW rest, rest \in Seq(Byte), NEW n, n = Len(rest), n > 0,
           \A j \in 1..n : rest[j] = S[E[k] + j] /\ ~Is(S[E[k] + j], LF),
           More => Is(S[E[k] + (n + 1)], LF), ~More => S[E[k] + n].cut,
           Used(S)' = E[k] + n + (IF More THEN 1 ELSE 0), SizeBuf = <<>>,
           HeaderLine(p, <<>>, rest, TRUE)
    PROVE  Onward(S, E)
<1>1. /\ SentInv /\ OutInv /\ Laid(S, E) /\ threw = FALSE
  BY DEF Parsing
<1>2. /\ k \in 1..Len(Good) /\ k \in Nat /\ Len(Parsed) = k - 1 /\ m = Good[k] /\ E[k] \in Nat
  BY MessageRead DEF Reads
<1>3. PICK m2 : m2 = Good[k2]
  OBVIOUS
<1>4. /\ m2 \in Messages /\ ~m2.bad /\ Len(m2.wire) \in Nat /\ m2.wire \in Seq(Byte)
      /\ m2.head \in 1..Len(m2.wire) /\ HasHead(m2)
      /\ \A j \in 1..Len(m2.wire) : S[E[k] + j] = m2.wire[j]
  <2>1. SentInv /\ Laid(S, E) /\ k \in Nat
    BY <1>1, <1>2
  <2>2. QED
    BY <1>3, <2>1, NextInStream
<1>5. /\ (CountEnd => ProcessedLength' = at') /\ (~More => at' = Len(given'))
      /\ sent' = sent /\ extracted' = extracted
  BY Moved
<1>6. n \in Nat
  BY LenProperties
<1>7. PICK z \in 0..(m2.head - 1) : z = 0
  BY <1>4
<1>8. PICK x \in (z + 1)..m2.head :
             Is(m2.wire[x], LF) /\ \A j \in (z + 1)..(x - 1) : ~Is(m2.wire[j], LF)
  BY <1>4, <1>7, NextEnd
<1>9. x \in 1..m2.head /\ x \in 1..Len(m2.wire) /\ x \in Nat /\ m2.head \in Nat
  BY <1>4, <1>7, <1>8
<1>10. n < x
  <2>1. SUFFICES ASSUME x <= n PROVE FALSE
    BY <1>6, <1>9
  <2>2. x \in 1..n
    BY <1>6, <1>9, <2>1
  <2>3. QED
    BY <1>4, <1>8, <1>9, <2>2
<1>11. rest = SubSeq(m2.wire, z + 1, z + n)
  <2>1. PICK b \in z..Len(m2.wire) : b = z + n
    BY <1>4, <1>6, <1>7, <1>9, <1>10
  <2>2. Len(rest) = b - z /\ b - z = n /\ z \in Nat
    BY <1>6, <1>7, <2>1
  <2>3. \A j \in 1..(b - z) : rest[j] = m2.wire[z + j]
    <3>1. \A j \in 1..n : j \in 1..Len(m2.wire) /\ z + j = j
      BY <1>4, <1>6, <1>7, <1>9, <1>10
    <3>2. QED
      BY <1>4, <2>2, <3>1
  <2>4. rest = SubSeq(m2.wire, z + 1, b)
    BY <1>4, <2>2, <2>3, IsPiece
  <2>5. QED
    BY <2>1, <2>4
<1>12. SubSeq(m2.wire, 1, z) = <<>>
  <2>1. SubSeq(m2.wire, z + 1, z) = <<>>
    BY <1>7, EmptyPiece
  <2>2. QED
    BY <1>7, <2>1
<1>13. HeadPiece(m2, z, n, TRUE, More)
  <2>1. z + n < m2.head
    BY <1>6, <1>7, <1>9, <1>10
  <2>2. ASSUME NEW j \in (z + 1)..(z + n) PROVE ~Is(m2.wire[j], LF)
    <3>1. j \in (z + 1)..(x - 1)
      BY <1>6, <1>7, <1>9, <1>10
    <3>2. QED
      BY <1>8, <3>1
  <2>3. n + 1 \in 1..Len(m2.wire) /\ n \in 1..Len(m2.wire) /\ z + n = n
    BY <1>4, <1>6, <1>7, <1>9, <1>10
  <2>4. More => Is(m2.wire[z + n + 1], LF)
    BY <1>4, <2>3
  <2>5. ~More => n > 0 /\ m2.wire[z + n].cut
    BY <1>4, <2>3
  <2>6. QED
    BY <1>7, <2>1, <2>2, <2>4, <2>5 DEF HeadPiece
<1>14. /\ ASeq(extracted) /\ ASeq(p) /\ RightOut(extracted \o p) /\ Len(extracted \o p) = k
  <2>1. /\ ASeq(extracted) /\ ASeq(ParsedData) /\ RightOut(extracted \o ParsedData)
        /\ Len(extracted \o ParsedData) = k - 1
    BY <1>1, <1>2 DEF OutInv, Parsed
  <2>2. QED
    BY <1>1, <1>2, <2>1, OneMore
<1>15. k2 - 1 = k /\ Len(extracted \o p) = k2 - 1
  BY <1>2, <1>14
<1>16. Used(S)' = E[k2 - 1] + z + n + (IF More THEN 1 ELSE 0)
  <2>1. E[k2 - 1] + z + n = E[k] + n
    BY <1>2, <1>6, <1>7, <1>15
  <2>2. QED
    BY <2>1
<1>17. HeaderLine(p, SubSeq(m2.wire, 1, z), SubSeq(m2.wire, z + 1, z + n), TRUE)
  BY <1>11, <1>12
<1>18. OutInv' /\ InGood(S, E)'
  BY <1>1, <1>3, <1>5, <1>6, <1>7, <1>13, <1>14, <1>15, <1>16, <1>17, HeadGoes
<1>19. QED
  BY <1>18 DEF Onward

\* The last well-formed message came out, and a line of what follows it is there.
LEMMA LastHead ==
    ASSUME NEW S, NEW E, NEW k, NEW m, NEW q, Parsing(S, E), Reads(S, E, k, m, q), Take,
           NEW p, p = Append(ParsedData, m.parsed), k = Len(Good), Used(S)' > E[k],
           NEW rest, HeaderLine(p, <<>>, rest, TRUE)
    PROVE  Onward(S, E)
<1>1. /\ SentInv /\ OutInv /\ Laid(S, E)
  BY DEF Parsing
<1>2. /\ k \in 1..Len(Good) /\ k \in Nat /\ Len(Parsed) = k - 1 /\ m = Good[k]
      /\ Len(Good) \in Nat
  BY MessageRead DEF Reads
<1>3. /\ sent' = sent /\ extracted' = extracted /\ Used(S)' \in Nat /\ Used(S)' <= Len(S)
  BY Moved
<1>4. /\ ASeq(extracted) /\ ASeq(p) /\ RightOut(extracted \o p) /\ Len(extracted \o p) = k
      /\ Extends(ParsedData, p)
  <2>1. /\ ASeq(extracted) /\ ASeq(ParsedData) /\ RightOut(extracted \o ParsedData)
        /\ Len(extracted \o ParsedData) = k - 1
    BY <1>1, <1>2 DEF OutInv, Parsed
  <2>2. QED
    BY <1>1, <1>2, <2>1, OneMore
<1>5. Extends(p, ParsedData')
  BY <1>4, HeaderExtends
<1>6. Extends(ParsedData, ParsedData')
  BY <1>4, <1>5, ExtendsFurther
<1>7. Extends(extracted \o p, extracted \o ParsedData')
  BY <1>4, <1>5, JoinExtends
<1>8. Parsed' = extracted \o ParsedData'
  BY <1>3 DEF Parsed
<1>9. k <= Len(Parsed') /\ \A i \in 1..k : Parsed'[i] = (extracted \o p)[i]
  BY <1>4, <1>7, <1>8 DEF Extends
<1>10. ASSUME NEW i \in (Len(Parsed) + 1)..Len(Good) PROVE Parsed'[i] = Good[i].parsed
  <2>1. i \in 1..k /\ i \in 1..Len(Good)
    BY <1>2
  <2>2. (extracted \o p)[i] = Good[i].parsed
    BY <1>4, <2>1 DEF RightOut
  <2>3. QED
    BY <1>9, <2>1, <2>2
<1>11. OutInv'
  BY <1>1, <1>3, <1>6, <1>10, OutStep
<1>12. E[k] \in Nat
  BY MessageRead
<1>13. InBad(S, E)'
  BY <1>1, <1>3, <1>9, <1>12, IsPast
<1>14. QED
  BY <1>11, <1>13 DEF Onward

LEMMA PlainEnds ==
    ASSUME NEW S, NEW E, NEW k, NEW m, NEW q, Parsing(S, E), Reads(S, E, k, m, q), BodyEnds,
           InPlain(m, q)
    PROVE  Onward(S, E)
<1>1. /\ m \in Messages /\ ~m.bad /\ Len(m.wire) \in Nat /\ m.wire \in Seq(Byte)
      /\ E[k] \in Nat /\ k \in 1..Len(Good) /\ k \in Nat /\ Len(Good) \in Nat
  BY MessageRead
<1>2. m.head \in 1..Len(m.wire)
  BY <1>1, GoodIs
<1>3. /\ q \in m.head..(Len(m.wire) - 1) /\ HeadRead(m) /\ m.chunks = <<>> /\ SizeBuf = <<>>
      /\ CurrentRequest = SubSeq(m.wire, 1, q) /\ ContentLength = Len(m.wire) - q
      /\ OriginalContentLength = Len(m.wire) - m.head
  BY DEF InPlain
<1>4. /\ CurrentFirstLine = m.parsed.first /\ CurrentHeaders = m.parsed.headers
  BY <1>3 DEF HeadRead
<1>5. Take /\ Len(Line) >= ContentLength
  BY DEF BodyEnds
<1>6. PICK n : n = ContentLength
  OBVIOUS
<1>7. n \in Nat /\ q + n = Len(m.wire) /\ Len(Line) >= n /\ q \in 0..Len(m.wire)
  BY <1>1, <1>2, <1>3, <1>5, <1>6
<1>8. /\ SubSeq(Line, 1, ContentLength) = SubSeq(m.wire, q + 1, Len(m.wire))
      /\ Rest \in Seq(Byte) /\ Len(Rest) \in Nat
      /\ \A j \in 1..Len(Rest) : Rest[j] = S[E[k] + j] /\ ~Is(S[E[k] + j], LF)
      /\ More => Is(S[E[k] + (Len(Rest) + 1)], LF)
      /\ ~More /\ Len(Rest) > 0 => S[E[k] + Len(Rest)].cut
      /\ Used(S)' = E[k] + Len(Rest) + (IF More THEN 1 ELSE 0)
  BY <1>5, <1>6, <1>7, BehindBody
<1>9. Content = m.wire
  <2>0. PICK a \in Nat : a = 0
    OBVIOUS
  <2>1. PICK e : e = Len(m.wire)
    OBVIOUS
  <2>2. q \in a..Len(m.wire) /\ e \in q..Len(m.wire) /\ a + 1 = 1
    BY <1>1, <1>7, <2>0, <2>1
  <2>3. SubSeq(m.wire, a + 1, q) \o SubSeq(m.wire, q + 1, e) = SubSeq(m.wire, a + 1, e)
    BY <1>1, <2>2, TwoPieces
  <2>4. SubSeq(m.wire, 1, Len(m.wire)) = m.wire
    BY <1>1, WholePiece
  <2>5. QED
    BY <1>3, <1>8, <2>1, <2>2, <2>3, <2>4 DEF Content
<1>10. PICK p : p = Append(ParsedData, m.parsed)
  OBVIOUS
<1>11. Flushed(ParsedData, Content, CurrentFirstLine, CurrentHeaders, OriginalContentLength) = p
  BY <1>1, <1>3, <1>4, <1>9, <1>10, PlainFlushed
<1>12. \/ /\ Rest = <<>>
          /\ CountEnd /\ ParsedData' = p /\ Reset
          /\ UNCHANGED <<threw, SizeBuf>>
       \/ Rest # <<>> /\ HeaderLine(p, <<>>, Rest, TRUE)
  BY <1>11 DEF BodyEnds
<1>13. CASE Rest = <<>> /\ CountEnd /\ ParsedData' = p /\ Reset /\ UNCHANGED <<threw, SizeBuf>>
  <2>1. /\ ParsedData' = Append(ParsedData, m.parsed) /\ threw' = FALSE /\ SizeBuf' = <<>>
        /\ CurrentRequest' = <<>> /\ InContent' = FALSE
    BY <1>3, <1>10, <1>13 DEF Reset, Parsing
  <2>2. ProcessedLength' = at'
    BY <1>5, <1>13, Moved
  <2>3. Len(Rest) = 0
    BY <1>13, EmptyIs
  <2>4. CASE ~More
    <3>1. Used(S)' = E[k]
      BY <1>1, <1>8, <2>3, <2>4
    <3>2. QED
      BY <1>5, <2>1, <2>2, <3>1, ComesOut
  <2>5. CASE More
    <3>1. Is(S[E[k] + 1], LF) /\ Used(S)' = E[k] + 1
      BY <1>1, <1>8, <2>3, <2>5
    <3>2. k = Len(Good)
      <4>1. SUFFICES ASSUME k # Len(Good) PROVE FALSE
        OBVIOUS
      <4>2. PICK k2 : k2 = k + 1
        OBVIOUS
      <4>3. k2 \in 1..Len(Good)
        BY <1>1, <4>1, <4>2
      <4>4. PICK m2 : m2 = Good[k2]
        OBVIOUS
      <4>5. SentInv /\ Laid(S, E)
        BY DEF Parsing
      <4>6. /\ Len(m2.wire) \in Nat /\ m2.head \in 1..Len(m2.wire) /\ ~Is(m2.wire[1], LF)
            /\ \A j \in 1..Len(m2.wire) : S[E[k] + j] = m2.wire[j]
        BY <1>1, <4>2, <4>3, <4>4, <4>5, NextInStream
      <4>7. 1 \in 1..Len(m2.wire)
        BY <4>6
      <4>8. QED
        BY <3>1, <4>6, <4>7
    <3>3. Used(S)' > E[k]
      BY <1>1, <3>1
    <3>4. QED
      BY <1>5, <2>1, <2>2, <3>2, <3>3, ComesOut
  <2>6. QED
    BY <2>4, <2>5
<1>14. CASE Rest # <<>> /\ HeaderLine(p, <<>>, Rest, TRUE)
  <2>1. PICK rest : rest = Rest
    OBVIOUS
  <2>2. PICK l : l = Len(rest)
    OBVIOUS
  <2>3. rest \in Seq(Byte) /\ l \in Nat /\ l > 0
    <3>1. Len(Rest) # 0
      BY <1>8, <1>14, EmptySeq
    <3>2. QED
      BY <1>8, <2>1, <2>2, <3>1
  <2>4. /\ \A j \in 1..l : rest[j] = S[E[k] + j] /\ ~Is(S[E[k] + j], LF)
        /\ More => Is(S[E[k] + (l + 1)], LF)
        /\ ~More => S[E[k] + l].cut
        /\ Used(S)' = E[k] + l + (IF More THEN 1 ELSE 0)
    BY <1>8, <2>1, <2>2, <2>3
  <2>5. HeaderLine(p, <<>>, rest, TRUE)
    BY <1>14, <2>1
  <2>6. CASE k = Len(Good)
    <3>1. Used(S)' > E[k]
      <4>1. CASE More
        BY <1>1, <2>3, <2>4, <4>1
      <4>2. CASE ~More
        BY <1>1, <2>3, <2>4, <4>2
      <4>3. QED
        BY <4>1, <4>2
    <3>2. QED
      BY <1>5, <1>10, <2>5, <2>6, <3>1, LastHead
  <2>7. CASE k # Len(Good)
    <3>1. PICK k2 : k2 = k + 1
      OBVIOUS
    <3>2. k2 \in 1..Len(Good)
      BY <1>1, <2>7, <3>1
    <3>3. QED
      BY <1>3, <1>5, <1>10, <2>2, <2>3, <2>4, <2>5, <3>1, <3>2, NextHead
  <2>8. QED
    BY <2>6, <2>7
<1>15. QED
  BY <1>12, <1>13, <1>14

-----------------------------------------------------------------------------
(* Steps in a body of chunks.                                               *)

\* what is known of the chunk i of a message
AChunk(m, i, c) ==
    /\ c.from \in Nat /\ c.start \in Nat /\ c.size \in Nat /\ c.before \in Nat
    /\ c.from < c.start /\ c.start + c.size + 2 <= Len(m.wire)
    /\ Is(m.wire[c.start], LF)
    /\ \A j \in (c.from + 1)..(c.start - 1) : ~Is(m.wire[j], LF)
    /\ Hex(SubSeq(m.wire, c.from + 1, c.start - 1)) = c.size
    /\ c.size > 0 => ~Is(m.wire[c.start + c.size], LF) /\ ~m.wire[c.start + c.size].cut
    /\ Is(m.wire[c.start + c.size + 1], CR) /\ ~m.wire[c.start + c.size + 1].cut
    /\ Is(m.wire[c.start + c.size + 2], LF)
    /\ c.before + c.size <= Len(m.parsed.body)
    /\ \A j \in 1..c.size : m.parsed.body[c.before + j] = m.wire[c.start + j]
    /\ c.size = 0 <=> i = Len(m.chunks)
    /\ i = Len(m.chunks) =>
         Len(m.wire) = c.start + c.size + 2 /\ Len(m.parsed.body) = c.before
    /\ m.chunks # <<>> /\ IsChunk(m, c)

LEMMA TheChunk ==
    ASSUME NEW m \in Messages, ~m.bad, NEW i, i \in 1..Len(m.chunks), NEW c, c = m.chunks[i]
    PROVE  AChunk(m, i, c)
<1>1. m.chunks # <<>>
  BY EmptyIs
<1>2. /\ c.from \in Nat /\ c.start \in Nat /\ c.size \in Nat /\ c.before \in Nat
      /\ IsChunk(m, c)
      /\ c.size = 0 <=> i = Len(m.chunks)
      /\ i = Len(m.chunks) =>
           Len(m.wire) = c.start + c.size + 2 /\ Len(m.parsed.body) = c.before
  BY <1>1, ChunkIs
<1>3. QED
  BY <1>1, <1>2 DEF IsChunk, AChunk

LEMMA GotIs ==
    ASSUME NEW m \in Messages, ~m.bad, NEW n, n \in 0..Len(m.parsed.body)
    PROVE  Got(m, n) \in Seq(Byte) /\ Len(Got(m, n)) = m.head + n /\ Got(m, n) # <<>>
<1>1. /\ m.wire \in Seq(Byte) /\ m.head \in 1..Len(m.wire) /\ Len(m.wire) \in Nat
      /\ m.parsed.body \in Seq(Byte)
  BY GoodIs
<1>2. PICK a \in Nat : a = 0
  OBVIOUS
<1>3. PICK h \in a..Len(m.wire) : h = m.head
  BY <1>1, <1>2
<1>4. PICK b \in a..Len(m.parsed.body) : b = n
  BY <1>2
<1>5. SubSeq(m.wire, a + 1, h) \in Seq(Byte) /\ Len(SubSeq(m.wire, a + 1, h)) = h - a
  BY <1>1, Piece
<1>6. /\ SubSeq(m.parsed.body, a + 1, b) \in Seq(Byte)
      /\ Len(SubSeq(m.parsed.body, a + 1, b)) = b - a
  BY <1>1, Piece
<1>7. PICK s : s = SubSeq(m.wire, a + 1, h)
  OBVIOUS
<1>8. PICK t : t = SubSeq(m.parsed.body, a + 1, b)
  OBVIOUS
<1>9. Got(m, n) = s \o t
  BY <1>2, <1>3, <1>4, <1>7, <1>8 DEF Got
<1>10. s \in Seq(Byte) /\ t \in Seq(Byte) /\ Len(s) = h - a /\ Len(t) = b - a
  BY <1>5, <1>6, <1>7, <1>8
<1>11. s \o t \in Seq(Byte) /\ Len(s \o t) = Len(s) + Len(t)
  BY <1>10, ConcatProperties
<1>12. n \in Nat /\ h - a = m.head /\ b - a = n /\ m.head \in Nat
  BY <1>1, <1>2, <1>3, <1>4, LenProperties
<1>13. Len(s \o t) = m.head + n /\ Len(s \o t) # 0
  <2>1. Len(s) = m.head /\ Len(t) = n
    BY <1>10, <1>12
  <2>2. Len(s \o t) = m.head + n
    BY <1>11, <2>1
  <2>3. m.head \in Nat /\ 1 <= m.head
    BY <1>1, <1>12
  <2>4. QED
    BY <1>12, <2>2, <2>3
<1>14. s \o t # <<>>
  BY <1>13, EmptyIs
<1>15. QED
  BY <1>9, <1>11, <1>13, <1>14

\* the bytes of the body that follow
LEMMA GotMore ==
    ASSUME NEW m \in Messages, ~m.bad, NEW n, NEW l, n \in Nat, l \in Nat,
           n + l <= Len(m.parsed.body), NEW line, line = SubSeq(m.parsed.body, n + 1, n + l)
    PROVE  Got(m, n) \o line = Got(m, n + l)
<1>1. /\ m.wire \in Seq(Byte) /\ m.head \in 1..Len(m.wire) /\ Len(m.wire) \in Nat
      /\ m.parsed.body \in Seq(Byte) /\ Len(m.parsed.body) \in Nat
  BY GoodIs, LenProperties
<1>2. PICK a \in Nat : a = 0
  OBVIOUS
<1>3. PICK h \in a..Len(m.wire) : h = m.head
  BY <1>1, <1>2
<1>4. PICK s : s = SubSeq(m.wire, a + 1, h)
  OBVIOUS
<1>5. PICK b : b = m.parsed.body
  OBVIOUS
<1>6. b \in Seq(Byte) /\ n + l <= Len(b) /\ line = SubSeq(b, n + 1, n + l) /\ n \in a..Len(b)
  BY <1>1, <1>2, <1>5
<1>7. SubSeq(b, a + 1, n) \o line = SubSeq(b, a + 1, n + l)
  BY <1>6, LineAlone
<1>8. s \in Seq(Byte)
  BY <1>1, <1>4, Piece
<1>9. PICK u : u = n + l
  OBVIOUS
<1>10. u \in n..Len(b) /\ u \in a..Len(b)
  BY <1>1, <1>2, <1>5, <1>9
<1>11. SubSeq(b, a + 1, n) \in Seq(Byte)
  BY <1>6, Piece
<1>12. SubSeq(b, n + 1, u) \in Seq(Byte)
  BY <1>6, <1>10, Piece
<1>13. line \in Seq(Byte)
  BY <1>6, <1>9, <1>12
<1>v. PICK v : v = SubSeq(b, a + 1, n)
  OBVIOUS
<1>14. (s \o v) \o line = s \o (v \o line)
  <2>1. v \in Seq(Byte)
    BY <1>11, <1>v
  <2>2. PICK x \in Seq(Byte) : x = line
    BY <1>13
  <2>3. (s \o v) \o x = s \o (v \o x)
    BY ONLY <1>8, <2>1, <2>2, ConcatAssociative
  <2>4. QED
    BY <2>2, <2>3
<1>15. Got(m, n) = s \o v /\ Got(m, u) = s \o SubSeq(b, a + 1, u)
  BY <1>2, <1>3, <1>4, <1>5, <1>v DEF Got
<1>16. QED
  BY <1>7, <1>9, <1>14, <1>15, <1>v

\* l bytes behind q, which are in a chunk, are added to what is there of the body
Adds(m, c, q, l, line) ==
    Got(m, c.before + (q - c.start)) \o line = Got(m, c.before + ((q + l) - c.start))

\* Bytes of a chunk are bytes of the body.
LEMMA GotChunk ==
    ASSUME NEW m \in Messages, ~m.bad, NEW i, i \in 1..Len(m.chunks), NEW c, c = m.chunks[i],
           NEW q, q \in c.start..(c.start + c.size), NEW l, l \in Nat,
           q + l <= c.start + c.size, NEW line, line = SubSeq(m.wire, q + 1, q + l)
    PROVE  Adds(m, c, q, l, line)
<1>1. /\ m.wire \in Seq(Byte) /\ Len(m.wire) \in Nat
      /\ m.parsed.body \in Seq(Byte) /\ Len(m.parsed.body) \in Nat
  BY GoodIs, LenProperties
<1>2. /\ c.start \in Nat /\ c.size \in Nat /\ c.before \in Nat
      /\ c.start + c.size + 2 <= Len(m.wire) /\ c.before + c.size <= Len(m.parsed.body)
  <2>1. AChunk(m, i, c)
    BY TheChunk
  <2>2. QED
    BY <2>1 DEF AChunk
<1>z. PICK z \in Nat : z = c.start
  BY <1>2
<1>t. PICK t \in Nat : t = c.size
  BY <1>2
<1>f. PICK f \in Nat : f = c.before
  BY <1>2
<1>r. PICK r \in Nat : r = q - z
  BY <1>z, <1>t
<1>3. PICK n \in Nat : n = f + r
  OBVIOUS
<1>4. z + t + 2 <= Len(m.wire) /\ f + t <= Len(m.parsed.body) /\ q \in z..(z + t)
  BY <1>2, <1>z, <1>t, <1>f
<1>5. /\ q \in Nat /\ q = z + r
      /\ r + l <= t /\ n + l <= Len(m.parsed.body) /\ q + l <= Len(m.wire)
  <2>1. q \in Nat /\ q = z + r
    BY <1>4, <1>r
  <2>2. q + l <= z + t
    BY <1>z, <1>t
  <2>3. QED
    BY <1>1, <1>3, <1>4, <2>1, <2>2
<1>6. PICK e : e = q + l
  OBVIOUS
<1>7. e \in q..Len(m.wire) /\ e - q = l
  BY <1>1, <1>5, <1>6
<1>8. /\ SubSeq(m.wire, q + 1, e) \in Seq(Byte) /\ Len(SubSeq(m.wire, q + 1, e)) = e - q
      /\ \A j \in 1..(e - q) : SubSeq(m.wire, q + 1, e)[j] = m.wire[q + j]
  <2>1. PICK w : w = m.wire
    OBVIOUS
  <2>2. w \in Seq(Byte) /\ q \in Nat /\ e \in q..Len(w)
    BY <1>1, <1>5, <1>7, <2>1
  <2>3. /\ SubSeq(w, q + 1, e) \in Seq(Byte) /\ Len(SubSeq(w, q + 1, e)) = e - q
        /\ \A j \in 1..(e - q) : SubSeq(w, q + 1, e)[j] = w[q + j]
    BY ONLY <2>2, Piece
  <2>4. QED
    BY <2>1, <2>3
<1>9. line \in Seq(Byte) /\ Len(line) = l /\ \A j \in 1..l : line[j] = m.wire[q + j]
  BY <1>6, <1>7, <1>8
<1>10. ASSUME NEW j \in 1..l PROVE line[j] = m.parsed.body[n + j]
  <2>1. PICK x : x = r + j
    OBVIOUS
  <2>2. x \in 1..t /\ f + x = n + j /\ z + x = q + j
    BY <1>3, <1>5, <2>1
  <2>3. x \in 1..c.size
    BY <1>t, <2>2
  <2>4. m.parsed.body[c.before + x] = m.wire[c.start + x]
    <3>1. IsChunk(m, c)
      BY TheChunk DEF AChunk
    <3>2. QED
      BY <2>3, <3>1 DEF IsChunk
  <2>5. QED
    BY <1>9, <1>z, <1>f, <2>2, <2>4
<1>11. PICK b : b = n + l
  OBVIOUS
<1>12. b \in n..Len(m.parsed.body) /\ b - n = l
  BY <1>1, <1>5, <1>11
<1>13. line = SubSeq(m.parsed.body, n + 1, b)
  <2>1. PICK a \in Nat : a = n
    BY <1>5
  <2>2. PICK d \in a..Len(m.parsed.body) : d = b
    BY <1>12, <2>1
  <2>3. /\ m.parsed.body \in Seq(Byte) /\ line \in Seq(Byte) /\ Len(line) = d - a
        /\ \A j \in 1..(d - a) : line[j] = m.parsed.body[a + j]
    BY <1>1, <1>9, <1>10, <1>12, <2>1, <2>2
  <2>4. line = SubSeq(m.parsed.body, a + 1, d)
    BY <2>3, IsPiece
  <2>5. QED
    BY <2>1, <2>2, <2>4
<1>14. line = SubSeq(m.parsed.body, n + 1, n + l)
  BY <1>11, <1>13
<1>15. Got(m, n) \o line = Got(m, n + l)
  <2>1. n \in Nat /\ l \in Nat /\ n + l <= Len(m.parsed.body)
    BY <1>5
  <2>2. QED
    BY <1>14, <2>1, GotMore
<1>16. n + l = f + ((q + l) - z) /\ n = f + (q - z)
  BY <1>3, <1>5
<1>17. Got(m, c.before + (q - c.start)) \o line = Got(m, c.before + ((q + l) - c.start))
  BY <1>15, <1>16, <1>z, <1>f
<1>18. QED
  BY <1>17 DEF Adds

\* The body is complete behind the last chunk.
LEMMA ChunksFlushed ==
    ASSUME NEW m \in Messages, ~m.bad, NEW n, n = Len(m.parsed.body), NEW parsed
    PROVE  Flushed(parsed, Got(m, n), m.parsed.first, m.parsed.headers, n)
              = Append(parsed, m.parsed)
<1>1. /\ m.wire \in Seq(Byte) /\ m.head \in 1..Len(m.wire) /\ Len(m.wire) \in Nat
      /\ m.parsed.body \in Seq(Byte) /\ n \in Nat
  BY GoodIs, LenProperties
<1>2. PICK g : g = Got(m, n)
  OBVIOUS
<1>3. g \in Seq(Byte) /\ Len(g) = m.head + n /\ g # <<>>
  BY <1>1, <1>2, GotIs
<1>4. PICK a \in Nat : a = 0
  OBVIOUS
<1>5. PICK s : s = SubSeq(m.wire, a + 1, m.head)
  OBVIOUS
<1>6. s \in Seq(Byte) /\ Len(s) = m.head
  <2>1. PICK h \in a..Len(m.wire) : h = m.head
    BY <1>1, <1>4
  <2>2. SubSeq(m.wire, a + 1, h) \in Seq(Byte) /\ Len(SubSeq(m.wire, a + 1, h)) = h - a
    BY <1>1, Piece
  <2>3. h - a = m.head
    BY <1>1, <1>4, <2>1
  <2>4. QED
    BY <1>5, <2>1, <2>2, <2>3
<1>7. SubSeq(m.parsed.body, 1, n) = m.parsed.body
  BY <1>1, WholePiece
<1>8. g = s \o m.parsed.body
  <2>1. s = SubSeq(m.wire, 1, m.head)
    BY <1>4, <1>5
  <2>2. QED
    BY <1>2, <1>7, <2>1 DEF Got
<1>9. \A j \in 1..(Len(s) + n) : (s \o m.parsed.body)[j] =
         IF j <= Len(s) THEN s[j] ELSE m.parsed.body[j - Len(s)]
  BY <1>1, <1>6, ConcatProperties
<1>10. PICK h \in Nat : h = m.head
  BY <1>1
<1>11. PICK e : e = h + n
  OBVIOUS
<1>12. e \in h..Len(g) /\ e - h = n /\ e = Len(g)
  BY <1>1, <1>3, <1>10, <1>11
<1>13. ASSUME NEW j \in 1..n PROVE m.parsed.body[j] = g[h + j]
  <2>1. PICK x : x = h + j
    OBVIOUS
  <2>2. x \in 1..(Len(s) + n) /\ ~(x <= Len(s)) /\ x - Len(s) = j
    <3>1. Len(s) = h /\ n \in Nat /\ j \in 1..n
      BY <1>1, <1>6, <1>10
    <3>2. x \in 1..(h + n) /\ ~(x <= h) /\ x - h = j
      BY <2>1, <3>1
    <3>3. QED
      BY <3>1, <3>2
  <2>3. QED
    BY <1>8, <1>9, <2>1, <2>2
<1>14. m.parsed.body = SubSeq(g, h + 1, e)
  <2>1. PICK b \in h..Len(g) : b = e
    BY <1>12
  <2>2. /\ g \in Seq(Byte) /\ m.parsed.body \in Seq(Byte) /\ Len(m.parsed.body) = b - h
        /\ \A j \in 1..(b - h) : m.parsed.body[j] = g[h + j]
    BY <1>1, <1>3, <1>12, <1>13, <2>1
  <2>3. m.parsed.body = SubSeq(g, h + 1, b)
    BY <2>2, IsPiece
  <2>4. QED
    BY <2>1, <2>3
<1>15. Len(g) - n + 1 = h + 1
  BY <1>1, <1>3, <1>10
<1>16. SubSeq(g, Len(g) - n + 1, Len(g)) = m.parsed.body
  BY <1>12, <1>14, <1>15
<1>17. m.parsed = [first |-> m.parsed.first, headers |-> m.parsed.headers, body |-> m.parsed.body]
  BY MessageAssumption
<1>18. QED
  BY <1>2, <1>3, <1>16, <1>17 DEF Flushed

\* what is known of the line of a chunk size
SizeRead(m, i, c, q) ==
    /\ m \in Messages /\ ~m.bad /\ i \in 1..Len(m.chunks)
    /\ c.from \in Nat /\ c.start \in Nat /\ c.size \in Nat /\ c.before \in Nat
    /\ c.start <= Len(m.wire) /\ Len(m.wire) \in Nat /\ q \in Nat /\ c.from <= q
    /\ q \in c.from..(c.start - 1)
    /\ q + Len(Line) < c.start /\ Len(Line) \in Nat
    /\ More => q + Len(Line) + 1 = c.start
    /\ SizeBuf \o Line = SubSeq(m.wire, c.from + 1, q + Len(Line))

\* the line of a chunk size, as far as it is there
LEMMA SizeLineIs ==
    ASSUME NEW S, NEW E, NEW k, NEW m, NEW q, Parsing(S, E), Reads(S, E, k, m, q), Take,
           NEW i, AtSize(m, i, q), NEW c, c = m.chunks[i]
    PROVE  SizeRead(m, i, c, q)
<1>1. /\ m \in Messages /\ ~m.bad /\ Len(m.wire) \in Nat /\ m.wire \in Seq(Byte)
      /\ q \in 0..Len(m.wire)
  BY MessageRead
<1>2. /\ i \in 1..Len(m.chunks) /\ q \in c.from..(c.start - 1)
      /\ SizeBuf = SubSeq(m.wire, c.from + 1, q)
  BY DEF AtSize
<1>3. /\ c.from \in Nat /\ c.start \in Nat /\ c.size \in Nat /\ c.before \in Nat
      /\ c.start + c.size + 2 <= Len(m.wire) /\ Is(m.wire[c.start], LF)
      /\ \A j \in (c.from + 1)..(c.start - 1) : ~Is(m.wire[j], LF)
  <2>1. AChunk(m, i, c)
    BY <1>1, <1>2, TheChunk
  <2>2. QED
    BY <2>1 DEF AChunk
<1>4. c.start <= Len(m.wire) /\ q \in Nat /\ c.from <= q /\ q < c.start
  <2>1. PICK z \in Nat : z = c.start
    BY <1>3
  <2>2. PICK t \in Nat : t = c.size
    BY <1>3
  <2>3. PICK l \in Nat : l = Len(m.wire)
    BY <1>1
  <2>4. z + t + 2 <= l
    BY <1>3, <2>1, <2>2, <2>3
  <2>5. z <= l
    BY <2>4
  <2>6. PICK f \in Nat : f = c.from
    BY <1>3
  <2>7. q \in f..(z - 1)
    BY <1>2, <2>1, <2>6
  <2>8. q \in Nat /\ f <= q /\ q < z
    BY <2>7
  <2>9. QED
    BY <2>1, <2>3, <2>5, <2>6, <2>8
<1>5. PICK x : x = c.start
  OBVIOUS
<1>6. x \in (q + 1)..Len(m.wire) /\ Is(m.wire[x], LF)
  BY <1>1, <1>3, <1>4, <1>5
<1>7. \A j \in (q + 1)..(x - 1) : ~Is(m.wire[j], LF)
  <2>1. \A j \in (q + 1)..(x - 1) : j \in (c.from + 1)..(c.start - 1)
    BY <1>3, <1>4, <1>5
  <2>2. QED
    BY <1>3, <2>1
<1>8. /\ q + Len(Line) < x /\ Len(Line) \in Nat
      /\ Line = SubSeq(m.wire, q + 1, q + Len(Line))
      /\ More => q + Len(Line) + 1 = x
  BY <1>6, <1>7, LineOf
<1>9. PICK n : n = Len(Line)
  OBVIOUS
<1>10. SizeBuf \o Line = SubSeq(m.wire, c.from + 1, q + n)
  <2>1. PICK a : a = c.from
    OBVIOUS
  <2>2. PICK w : w = m.wire
    OBVIOUS
  <2>3. PICK line : line = Line
    OBVIOUS
  <2>4. /\ w \in Seq(Byte) /\ a \in Nat /\ q \in a..Len(w) /\ n \in Nat /\ q + n <= Len(w)
        /\ line = SubSeq(w, q + 1, q + n)
    BY <1>1, <1>3, <1>4, <1>5, <1>8, <1>9, <2>1, <2>2, <2>3
  <2>5. SubSeq(w, a + 1, q) \o line = SubSeq(w, a + 1, q + n)
    BY ONLY <2>4, LineAlone
  <2>6. QED
    BY <1>2, <2>1, <2>2, <2>3, <2>5
<1>11. QED
  BY <1>1, <1>2, <1>3, <1>4, <1>5, <1>8, <1>9, <1>10 DEF SizeRead

LEMMA SizeGoesOn ==
    ASSUME NEW S, NEW E, NEW k, NEW m, NEW q, Parsing(S, E), Reads(S, E, k, m, q),
           NEW i, AtSize(m, i, q), BufferChunkSize
    PROVE  Onward(S, E)
<1>1. PICK c : c = m.chunks[i]
  OBVIOUS
<1>2. /\ Take /\ ~More /\ SizeBuf' = SizeBuf \o Line /\ ProcessedLength' = Counted
      /\ UNCHANGED <<ParsedData, threw, IsFirst, CurrentRequest, headVars, ContentLength,
                     OriginalContentLength>>
  BY DEF BufferChunkSize
<1>3. /\ i \in 1..Len(m.chunks) /\ m \in Messages /\ ~m.bad
      /\ c.from \in Nat /\ c.start \in Nat /\ c.start <= Len(m.wire) /\ Len(m.wire) \in Nat
      /\ q \in Nat /\ c.from <= q
      /\ q + Len(Line) < c.start /\ Len(Line) \in Nat
      /\ SizeBuf \o Line = SubSeq(m.wire, c.from + 1, q + Len(Line))
  <2>1. SizeRead(m, i, c, q)
    BY <1>1, <1>2, SizeLineIs
  <2>2. QED
    BY <2>1 DEF SizeRead
<1>4. PICK n \in Nat : n = Len(Line)
  BY <1>3
<1>5. PICK y : y = q + n
  OBVIOUS
<1>6. n > 0
  <2>1. Used(S)' = Used(S) + n /\ Used(S)' > Used(S) /\ Used(S) \in Nat
    <3>1. /\ Used(S)' = Used(S) + Len(Line) + (IF More THEN 1 ELSE 0)
          /\ Used(S)' > Used(S) /\ Used(S) \in Nat
      BY <1>2, Moved
    <3>2. QED
      BY <1>2, <1>4, <3>1
  <2>2. QED
    BY <2>1
<1>7. y \in 1..Len(m.wire) /\ y \in c.from..(c.start - 1) /\ y = q + Len(Line)
  BY <1>3, <1>4, <1>5, <1>6
<1>8. AtSize(m, i, y)'
  <2>1. /\ HeadRead(m) /\ CurrentRequest = Got(m, c.before)
        /\ ContentLength = 0 /\ OriginalContentLength = c.before
    BY <1>1 DEF AtSize
  <2>2. HeadRead(m)'
    BY <1>2, <2>1 DEF HeadRead, headVars
  <2>3. SizeBuf' = SubSeq(m.wire, c.from + 1, y)
    BY <1>2, <1>3, <1>7
  <2>4. CurrentRequest' = Got(m, c.before) /\ ContentLength' = 0 /\ OriginalContentLength' = c.before
    BY <1>2, <2>1
  <2>5. QED
    BY <1>1, <1>3, <1>7, <2>2, <2>3, <2>4 DEF AtSize
<1>9. Inside(m, y)'
  BY <1>3, <1>8 DEF Inside
<1>10. ProcessedLength' = at' /\ threw' = FALSE /\ ParsedData' = ParsedData
  BY <1>2, Moved DEF Parsing
<1>11. y = q + Len(Line) + (IF More THEN 1 ELSE 0)
  BY <1>2, <1>3, <1>7
<1>12. QED
  BY <1>2, <1>7, <1>9, <1>10, <1>11, StaysInside

LEMMA SizeEnds ==
    ASSUME NEW S, NEW E, NEW k, NEW m, NEW q, Parsing(S, E), Reads(S, E, k, m, q),
           NEW i, AtSize(m, i, q), NEW c, c = m.chunks[i], ChunkSize
    PROVE  Onward(S, E)
<1>1. c = m.chunks[i]
  OBVIOUS
<1>2. Take /\ More /\ CountEnd /\ SizeBuf' = <<>> /\ threw' = threw
  BY DEF ChunkSize
<1>3. /\ i \in 1..Len(m.chunks) /\ m \in Messages /\ ~m.bad
      /\ c.from \in Nat /\ c.start \in Nat /\ c.start <= Len(m.wire) /\ Len(m.wire) \in Nat
      /\ c.size \in Nat /\ c.before \in Nat
      /\ q \in Nat /\ c.from <= q
      /\ q + Len(Line) < c.start /\ Len(Line) \in Nat
      /\ q + Len(Line) + 1 = c.start
      /\ SizeBuf \o Line = SubSeq(m.wire, c.from + 1, q + Len(Line))
  <2>1. SizeRead(m, i, c, q)
    BY <1>2, SizeLineIs
  <2>2. QED
    BY <1>2, <2>1 DEF SizeRead
<1>4. /\ c.start + c.size + 2 <= Len(m.wire)
      /\ Hex(SubSeq(m.wire, c.from + 1, c.start - 1)) = c.size
      /\ c.before + c.size <= Len(m.parsed.body)
      /\ c.size = 0 <=> i = Len(m.chunks)
      /\ i = Len(m.chunks) =>
           Len(m.wire) = c.start + c.size + 2 /\ Len(m.parsed.body) = c.before
      /\ m.chunks # <<>>
  <2>1. i \in 1..Len(m.chunks) /\ m \in Messages /\ ~m.bad
    BY <1>3
  <2>2. AChunk(m, i, c)
    BY <2>1, TheChunk
  <2>3. QED
    BY <2>2 DEF AChunk
<1>5. Hex(ChunkSizeLine) = c.size
  <2>1. q + Len(Line) = c.start - 1
    BY <1>3
  <2>2. QED
    BY <1>3, <1>4, <2>1 DEF ChunkSizeLine
<1>6. \/ /\ c.size = 0
         /\ ParsedData' = Flushed(ParsedData, CurrentRequest, CurrentFirstLine,
                                  CurrentHeaders, OriginalContentLength)
         /\ Reset
      \/ /\ c.size > 0
         /\ ContentLength' = c.size
         /\ OriginalContentLength' = OriginalContentLength + c.size
         /\ UNCHANGED <<ParsedData, IsFirst, CurrentRequest, headVars>>
  BY <1>5 DEF ChunkSize
<1>7. /\ HeadRead(m) /\ CurrentRequest = Got(m, c.before)
      /\ ContentLength = 0 /\ OriginalContentLength = c.before
  BY <1>1 DEF AtSize
<1>8. CurrentFirstLine = m.parsed.first /\ CurrentHeaders = m.parsed.headers
  BY <1>7 DEF HeadRead
<1>9. ProcessedLength' = at' /\ threw' = FALSE
  BY <1>2, Moved DEF Parsing
<1>10. /\ E[k - 1] \in Nat /\ E[k] = E[k - 1] + Len(m.wire) /\ Used(S) = E[k - 1] + q
  BY MessageRead
<1>11. Used(S)' = E[k - 1] + c.start
  <2>1. Used(S)' = Used(S) + Len(Line) + (IF More THEN 1 ELSE 0)
    BY <1>2, Moved
  <2>2. Used(S)' = Used(S) + Len(Line) + 1
    BY <1>2, <2>1
  <2>3. QED
    BY <1>3, <1>10, <2>2
<1>12. CASE /\ c.size = 0
            /\ ParsedData' = Flushed(ParsedData, CurrentRequest, CurrentFirstLine,
                                     CurrentHeaders, OriginalContentLength)
            /\ Reset
  <2>1. Len(m.wire) = c.start + c.size + 2 /\ Len(m.parsed.body) = c.before
    BY <1>4, <1>12
  <2>2. PICK n : n = c.before
    OBVIOUS
  <2>3. n = Len(m.parsed.body)
    BY <2>1, <2>2
  <2>4. Flushed(ParsedData, Got(m, n), m.parsed.first, m.parsed.headers, n)
           = Append(ParsedData, m.parsed)
    BY <1>3, <2>3, ChunksFlushed
  <2>5. ParsedData' = Append(ParsedData, m.parsed)
    BY <1>7, <1>8, <1>12, <2>2, <2>4
  <2>6. CurrentRequest' = <<>> /\ InContent' = FALSE
    BY <1>12 DEF Reset
  <2>7. Used(S)' + 2 = E[k]
    <3>1. Len(m.wire) = c.start + 2
      BY <1>3, <1>12, <2>1
    <3>2. PICK z \in Nat : z = c.start
      BY <1>3
    <3>3. PICK e \in Nat : e = E[k - 1]
      BY <1>10
    <3>4. E[k] = e + (z + 2) /\ Used(S)' = e + z
      BY <1>10, <1>11, <3>1, <3>2, <3>3
    <3>5. (e + z) + 2 = e + (z + 2)
      BY <3>2, <3>3
    <3>6. QED
      BY <3>4, <3>5
  <2>8. QED
    BY <1>2, <1>4, <1>9, <2>5, <2>6, <2>7, ComesOut
<1>13. CASE /\ c.size > 0
            /\ ContentLength' = c.size
            /\ OriginalContentLength' = OriginalContentLength + c.size
            /\ UNCHANGED <<ParsedData, IsFirst, CurrentRequest, headVars>>
  <2>1. PICK y : y = c.start
    OBVIOUS
  <2>2. /\ y \in 1..Len(m.wire) /\ y \in c.start..(c.start + c.size - 1) /\ y - c.start = 0
        /\ c.before + (y - c.start) = c.before /\ c.start + c.size - y = c.size
    <3>1. PICK t \in Nat : t = c.size
      BY <1>3
    <3>2. PICK l \in Nat : l = Len(m.wire)
      BY <1>3
    <3>3. y \in Nat /\ y + t + 2 <= l /\ t > 0 /\ y # 0
      BY <1>3, <1>4, <1>13, <2>1, <3>1, <3>2
    <3>4. y \in 1..l /\ y \in y..(y + t - 1) /\ y - y = 0 /\ y + t - y = t
      BY <3>3
    <3>5. c.before + (y - c.start) = c.before
      <4>1. PICK f \in Nat : f = c.before
        BY <1>3
      <4>2. f + (y - y) = f
        BY <3>3, <4>1
      <4>3. QED
        BY <2>1, <4>1, <4>2
    <3>6. QED
      BY <2>1, <3>1, <3>2, <3>4, <3>5
  <2>3. HeadRead(m)'
    BY <1>7, <1>13 DEF HeadRead, headVars
  <2>4. CurrentRequest' = Got(m, c.before + (y - c.start))
    BY <1>7, <1>13, <2>2
  <2>5. OriginalContentLength' = c.before + c.size /\ ContentLength' = c.start + c.size - y
    BY <1>7, <1>13, <2>2
  <2>6. InChunk(m, i, y)'
    BY <1>1, <1>2, <1>3, <2>2, <2>3, <2>4, <2>5 DEF InChunk
  <2>7. Inside(m, y)'
    BY <1>3, <2>6 DEF Inside
  <2>8. y = q + Len(Line) + (IF More THEN 1 ELSE 0)
    BY <1>2, <1>3, <2>1
  <2>9. ParsedData' = ParsedData
    BY <1>13
  <2>10. QED
    BY <1>2, <1>9, <2>2, <2>7, <2>8, <2>9, StaysInside
<1>14. QED
  BY <1>6, <1>12, <1>13

\* a line that has the end of a chunk: the CR of its CR LF
LEMMA EndOfChunk ==
    ASSUME NEW S, NEW E, NEW k, NEW m, NEW q, Parsing(S, E), Reads(S, E, k, m, q), Take,
           NEW end, end \in Nat, end + 2 <= Len(m.wire), NEW n, n \in Nat, q + n = end,
           Len(Line) >= n, ~m.wire[end].cut, ~m.wire[end + 1].cut,
           Is(m.wire[end + 1], CR), Is(m.wire[end + 2], LF)
    PROVE  More /\ Len(Line) = n + 1 /\ Line = SubSeq(m.wire, q + 1, q + (n + 1))
<1>1. /\ SentInv /\ ReadInv /\ ProcessedLength = at /\ at < Len(given)
      /\ Laid(S, E) /\ InStream(S)
  BY DEF Parsing, Take
<1>2. /\ At(S, E, k, q) /\ sent[k] = m /\ Len(m.wire) \in Nat /\ q \in 0..Len(m.wire) /\ q \in Nat
  BY MessageRead
<1>3. given \in Seq(Byte) /\ at \in 0..Len(given) /\ Len(given) \in Nat
  BY <1>1, StreamTypes DEF InStream
<1>4. /\ LineStop \in at..Len(given) /\ Len(Line) = LineStop - at /\ Len(Line) \in Nat
      /\ \A j \in 1..Len(Line) : Line[j] = given[at + j] /\ ~Is(Line[j], LF)
  BY <1>3, LineIs
<1>5. ASSUME NEW j \in (q + 1)..end PROVE ~Is(m.wire[j], LF)
  <2>1. PICK x : x = j - q
    OBVIOUS
  <2>2. /\ x \in 1..n /\ q + x = j
    BY <1>2, <2>1
  <2>3. x \in 1..(Len(given) - at) /\ x \in 1..Len(Line)
    BY <1>3, <1>4, <2>2
  <2>4. SentInv /\ At(S, E, k, q) /\ q + x <= Len(sent[k].wire)
    BY <1>1, <1>2, <2>2
  <2>5. given[at + x] = sent[k].wire[q + x]
    BY <2>3, <2>4, GivenIs
  <2>6. QED
    BY <1>2, <1>4, <2>2, <2>3, <2>5
<1>6. PICK x : x = end + 2
  OBVIOUS
<1>7. x \in (q + 1)..Len(m.wire) /\ Is(m.wire[x], LF)
  BY <1>2, <1>6
<1>8. ASSUME NEW j \in (q + 1)..(x - 1) PROVE ~Is(m.wire[j], LF)
  <2>1. j \in (q + 1)..end \/ j = end + 1
    BY <1>2, <1>6
  <2>2. ~Is(m.wire[end + 1], LF)
    BY DEF Is, CR, LF
  <2>3. QED
    BY <1>5, <2>1, <2>2
<1>9. /\ q + Len(Line) < x /\ Len(Line) \in Nat
      /\ Line = SubSeq(m.wire, q + 1, q + Len(Line))
      /\ More => q + Len(Line) + 1 = x
      /\ ~More => Len(Line) > 0 /\ m.wire[q + Len(Line)].cut
  BY <1>7, <1>8, LineOf
<1>10. PICK l \in Nat : l = Len(Line)
  BY <1>9
<1>11. l = n \/ l = n + 1
  <2>1. l >= n /\ q \in Nat
    BY <1>2, <1>10
  <2>2. q + l < (q + n) + 2
    BY <1>6, <1>9, <1>10
  <2>3. QED
    BY <2>1, <2>2
<1>12. More
  <2>1. SUFFICES ASSUME ~More PROVE FALSE
    OBVIOUS
  <2>2. m.wire[q + l].cut
    BY <1>9, <1>10, <2>1
  <2>3. q + l = end \/ q + l = end + 1
    BY <1>2, <1>11
  <2>4. QED
    BY <2>2, <2>3
<1>13. q + l + 1 = end + 2
  BY <1>6, <1>9, <1>10, <1>12
<1>14. l = n + 1
  BY <1>2, <1>13
<1>15. QED
  BY <1>9, <1>10, <1>12, <1>14

\* The end of a chunk: its bytes are those of the body up to there.
LEMMA ChunkIsOver ==
    ASSUME NEW S, NEW E, NEW k, NEW m, NEW q, Parsing(S, E), Reads(S, E, k, m, q),
           NEW i, InChunk(m, i, q), NEW c, c = m.chunks[i], ChunkEnds
    PROVE  Onward(S, E)
<1>1. /\ m \in Messages /\ ~m.bad /\ Len(m.wire) \in Nat /\ m.wire \in Seq(Byte)
      /\ q \in 0..Len(m.wire) /\ q \in Nat
  BY MessageRead
<1>2. /\ i \in 1..Len(m.chunks) /\ q \in c.start..(c.start + c.size - 1)
      /\ HeadRead(m) /\ SizeBuf = <<>>
      /\ CurrentRequest = Got(m, c.before + (q - c.start))
      /\ ContentLength = c.start + c.size - q /\ OriginalContentLength = c.before + c.size
  BY DEF InChunk
<1>3. AChunk(m, i, c)
  BY <1>1, <1>2, TheChunk
<1>4. /\ c.start \in Nat /\ c.size \in Nat /\ c.before \in Nat /\ c.from \in Nat
      /\ c.start + c.size + 2 <= Len(m.wire)
  BY <1>3 DEF AChunk
<1>z. PICK z \in Nat : z = c.start
  BY <1>4
<1>t. PICK t \in Nat : t = c.size
  BY <1>4
<1>e. PICK end \in Nat : end = z + t
  OBVIOUS
<1>n. PICK n \in Nat : n = end - q
  <2>1. q \in z..(z + t - 1)
    BY <1>2, <1>z, <1>t
  <2>2. end - q \in Nat
    BY <1>e, <2>1
  <2>3. QED
    BY <2>2
<1>5. /\ q + n = end /\ end + 2 <= Len(m.wire) /\ n > 0 /\ t > 0 /\ z <= q
      /\ end = c.start + c.size /\ ContentLength = n
  <2>1. q \in z..(z + t - 1) /\ z + t + 2 <= Len(m.wire)
    BY <1>2, <1>4, <1>z, <1>t
  <2>2. q + n = end /\ n > 0 /\ t > 0 /\ z <= q
    BY <1>1, <1>e, <1>n, <2>1
  <2>3. end = c.start + c.size
    BY <1>z, <1>t, <1>e
  <2>4. ContentLength = n
    <3>1. ContentLength = z + (t - q)
      BY <1>2, <1>z, <1>t
    <3>2. q \in Nat
      BY <1>1
    <3>3. z + (t - q) = (z + t) - q
      BY <3>2
    <3>4. QED
      BY <1>e, <1>n, <3>1, <3>3
  <2>5. QED
    BY <1>e, <2>1, <2>2, <2>3, <2>4
<1>6. /\ ~m.wire[end].cut /\ ~m.wire[end + 1].cut
      /\ Is(m.wire[end + 1], CR) /\ Is(m.wire[end + 2], LF)
      /\ c.size > 0
  BY <1>3, <1>5, <1>t DEF AChunk
<1>7. /\ Take /\ Len(Line) >= ContentLength
      /\ CurrentRequest' = Content /\ ContentLength' = 0
      /\ \/ Blank(Rest) /\ CountEnd /\ UNCHANGED threw
         \/ ~Blank(Rest) /\ threw' = TRUE /\ ProcessedLength' = Counted
      /\ UNCHANGED <<ParsedData, headVars, OriginalContentLength, SizeBuf, IsFirst>>
  BY DEF ChunkEnds
<1>8. More /\ Len(Line) = n + 1 /\ Line = SubSeq(m.wire, q + 1, q + (n + 1))
  BY <1>5, <1>6, <1>7, EndOfChunk
<1>9. /\ Line \in Seq(Byte)
      /\ \A j \in 1..(n + 1) : Line[j] = m.wire[q + j]
  <2>1. PICK b \in q..Len(m.wire) : b = q + (n + 1)
    BY <1>1, <1>5
  <2>2. b - q = n + 1
    BY <1>1, <2>1
  <2>3. /\ SubSeq(m.wire, q + 1, b) \in Seq(Byte)
        /\ \A j \in 1..(b - q) : SubSeq(m.wire, q + 1, b)[j] = m.wire[q + j]
    BY <1>1, <2>1, Piece
  <2>4. QED
    BY <1>8, <2>1, <2>2, <2>3
<1>10. Blank(Rest)
  <2>1. PICK b \in n..Len(Line) : b = n + 1
    BY <1>8
  <2>2. b - n = 1
    BY <2>1
  <2>3. /\ Len(SubSeq(Line, n + 1, b)) = b - n
        /\ \A j \in 1..(b - n) : SubSeq(Line, n + 1, b)[j] = Line[n + j]
    BY <1>9, <2>1, Piece
  <2>4. Rest = SubSeq(Line, n + 1, b)
    BY <1>5, <1>8, <2>1 DEF Rest
  <2>5. Len(Rest) = 1 /\ Rest[1] = Line[n + 1]
    BY <2>2, <2>3, <2>4
  <2>6. Line[n + 1] = m.wire[q + (n + 1)] /\ q + (n + 1) = end + 1
    BY <1>1, <1>5, <1>9
  <2>7. QED
    BY <1>6, <2>5, <2>6 DEF Blank
<1>11. SubSeq(Line, 1, ContentLength) = SubSeq(m.wire, q + 1, q + n)
  <2>0. PICK a \in Nat : a = 0
    OBVIOUS
  <2>1. n \in a..Len(Line) /\ a + 1 = 1 /\ n - a = n
    BY <1>8, <2>0
  <2>2. /\ SubSeq(Line, a + 1, n) \in Seq(Byte) /\ Len(SubSeq(Line, a + 1, n)) = n - a
        /\ \A j \in 1..(n - a) : SubSeq(Line, a + 1, n)[j] = Line[a + j]
    BY <1>9, <2>1, Piece
  <2>3. PICK s : s = SubSeq(Line, 1, n)
    OBVIOUS
  <2>4. s \in Seq(Byte) /\ Len(s) = n /\ \A j \in 1..n : s[j] = Line[j]
    BY <2>0, <2>1, <2>2, <2>3
  <2>5. PICK b \in q..Len(m.wire) : b = q + n
    BY <1>1, <1>5
  <2>6. b - q = n
    BY <1>1, <2>5
  <2>7. \A j \in 1..(b - q) : s[j] = m.wire[q + j]
    BY <1>9, <2>4, <2>6
  <2>8. s = SubSeq(m.wire, q + 1, b)
    BY <1>1, <2>4, <2>6, <2>7, IsPiece
  <2>9. QED
    BY <1>5, <2>3, <2>5, <2>8
<1>12. CurrentRequest' = Got(m, c.before + c.size)
  <2>1. PICK line : line = SubSeq(m.wire, q + 1, q + n)
    OBVIOUS
  <2>2. q \in c.start..(c.start + c.size) /\ q + n <= c.start + c.size /\ n \in Nat
    BY <1>1, <1>5, <1>z, <1>t
  <2>3. Adds(m, c, q, n, line)
    <3>1. m \in Messages /\ ~m.bad /\ i \in 1..Len(m.chunks)
      BY <1>1, <1>2
    <3>2. QED
      BY <2>1, <2>2, <3>1, GotChunk
  <2>4. (q + n) - c.start = c.size
    BY <1>5, <1>z, <1>t, <1>e
  <2>5. QED
    BY <1>2, <1>7, <1>11, <2>1, <2>3, <2>4 DEF Content, Adds
<1>13. /\ i # Len(m.chunks) /\ m.chunks # <<>>
  BY <1>3, <1>6 DEF AChunk
<1>14. PICK i2 : i2 = i + 1
  OBVIOUS
<1>15. i2 \in 1..Len(m.chunks) /\ i < Len(m.chunks)
  <2>1. Len(m.chunks) \in Nat
    BY <1>1, <1>13, ChunkIs
  <2>2. QED
    BY <1>2, <1>13, <1>14, <2>1
<1>16. PICK c2 : c2 = m.chunks[i2]
  OBVIOUS
<1>17. c2.from = end + 2 /\ c2.before = c.before + c.size
  BY <1>1, <1>2, <1>5, <1>13, <1>14, <1>15, <1>16, ChunkIs
<1>18. AChunk(m, i2, c2)
  BY <1>1, <1>15, <1>16, TheChunk
<1>19. PICK y \in Nat : y = end + 2
  OBVIOUS
<1>20. y \in 1..Len(m.wire) /\ y \in c2.from..(c2.start - 1) /\ y = q + (n + 1) + 1
  <2>1. c2.from < c2.start /\ c2.start \in Nat
    BY <1>18 DEF AChunk
  <2>2. QED
    BY <1>1, <1>5, <1>17, <1>19, <2>1
<1>21. SizeBuf' = SubSeq(m.wire, c2.from + 1, y)
  <2>1. SubSeq(m.wire, y + 1, y) = <<>>
    BY EmptyPiece
  <2>2. QED
    BY <1>2, <1>7, <1>17, <1>19, <2>1
<1>22. HeadRead(m)'
  BY <1>2, <1>7 DEF HeadRead, headVars
<1>23. AtSize(m, i2, y)'
  BY <1>2, <1>7, <1>12, <1>15, <1>16, <1>17, <1>20, <1>21, <1>22 DEF AtSize
<1>24. Inside(m, y)'
  BY <1>15, <1>23 DEF Inside
<1>25. ProcessedLength' = at' /\ threw' = FALSE /\ ParsedData' = ParsedData
  <2>1. CountEnd /\ UNCHANGED threw
    BY <1>7, <1>10
  <2>2. QED
    BY <1>7, <2>1, Moved DEF Parsing
<1>26. y = q + Len(Line) + (IF More THEN 1 ELSE 0)
  BY <1>8, <1>20
<1>27. QED
  BY <1>7, <1>20, <1>24, <1>25, <1>26, StaysInside

LEMMA OnePiece ==
    ASSUME NEW w, w \in Seq(Byte), NEW a, a \in Nat, a + 1 <= Len(w)
    PROVE  SubSeq(w, a + 1, a + 1) = <<w[a + 1]>>
<1>1. Len(w) \in Nat /\ a \in a..(Len(w) - 1) /\ a + 1 \in 1..Len(w)
  BY LenProperties
<1>2. SubSeq(w, a + 1, a) \o <<w[a + 1]>> = SubSeq(w, a + 1, a + 1)
  BY <1>1, PieceAndNext
<1>3. SubSeq(w, a + 1, a) = <<>>
  BY EmptyPiece
<1>4. w[a + 1] \in Byte
  BY <1>1, ElementOfSeq
<1>5. PICK x \in Byte : x = w[a + 1]
  BY <1>4
<1>6. <<x>> \in Seq(Byte)
  OBVIOUS
<1>7. <<>> \o <<x>> = <<x>>
  BY <1>6, ConcatEmptySeq
<1>8. QED
  BY <1>2, <1>3, <1>5, <1>7

\* A line that goes on in a chunk: it ends in the chunk too.
LEMMA ChunkGoesOn ==
    ASSUME NEW S, NEW E, NEW k, NEW m, NEW q, Parsing(S, E), Reads(S, E, k, m, q),
           NEW i, InChunk(m, i, q), NEW c, c = m.chunks[i], BodyGoesOn
    PROVE  Onward(S, E)
<1>1. /\ m \in Messages /\ ~m.bad /\ Len(m.wire) \in Nat /\ m.wire \in Seq(Byte)
      /\ q \in 0..Len(m.wire) /\ q \in Nat
  BY MessageRead
<1>2. /\ i \in 1..Len(m.chunks) /\ q \in c.start..(c.start + c.size - 1)
      /\ HeadRead(m) /\ SizeBuf = <<>>
      /\ CurrentRequest = Got(m, c.before + (q - c.start))
      /\ ContentLength = c.start + c.size - q /\ OriginalContentLength = c.before + c.size
  BY DEF InChunk
<1>3. AChunk(m, i, c)
  BY <1>1, <1>2, TheChunk
<1>4. /\ c.start \in Nat /\ c.size \in Nat /\ c.before \in Nat /\ c.from \in Nat
      /\ c.start + c.size + 2 <= Len(m.wire) /\ c.from < c.start
  BY <1>3 DEF AChunk
<1>z. PICK z \in Nat : z = c.start
  BY <1>4
<1>t. PICK t \in Nat : t = c.size
  BY <1>4
<1>e. PICK end \in Nat : end = z + t
  OBVIOUS
<1>5. /\ q \in z..(z + t - 1) /\ z + t + 2 <= Len(m.wire) /\ z > 0 /\ t > 0
      /\ end = c.start + c.size /\ q < end
  <2>1. q \in z..(z + t - 1) /\ z + t + 2 <= Len(m.wire)
    BY <1>2, <1>4, <1>z, <1>t
  <2>2. PICK f \in Nat : f = c.from
    BY <1>4
  <2>3. f < z
    BY <1>4, <1>z, <2>2
  <2>4. end = c.start + c.size
    BY <1>z, <1>t, <1>e
  <2>5. QED
    BY <1>1, <1>e, <2>1, <2>3, <2>4
<1>6. ContentLength = end - q
  <2>1. ContentLength = z + (t - q)
    BY <1>2, <1>z, <1>t
  <2>2. z + (t - q) = (z + t) - q
    BY <1>1
  <2>3. QED
    BY <1>e, <2>1, <2>2
<1>7. ~Is(m.wire[end], LF)
  BY <1>3, <1>5, <1>t DEF AChunk
<1>8. Take /\ Len(Line) < ContentLength /\ threw' = threw /\ SizeBuf' = SizeBuf /\ CountEnd
  BY DEF BodyGoesOn
<1>9. Len(Line) \in Nat /\ ProcessedLength' = at' /\ threw' = FALSE
  BY <1>8, Moved DEF Parsing
<1>n. PICK n \in Nat : n = Len(Line)
  BY <1>9
<1>d. PICK d \in {0, 1} : d = IF More THEN 1 ELSE 0
  OBVIOUS
<1>y. PICK y \in Nat : y = (q + n) + d
  BY <1>1
<1>10. q + n < end /\ q + n < Len(m.wire) /\ q + n <= Len(m.wire)
  BY <1>1, <1>5, <1>6, <1>8, <1>e, <1>n
<1>11. /\ Line = SubSeq(m.wire, q + 1, q + n)
       /\ More => m.wire[q + n + 1] = LineEnd /\ Is(m.wire[q + n + 1], LF)
  <2>1. q + Len(Line) <= Len(m.wire) /\ q + Len(Line) < Len(m.wire)
    BY <1>10, <1>n
  <2>2. QED
    BY <1>8, <1>n, <2>1, LineInside
<1>12. y < end
  <2>1. CASE More
    <3>1. q + n + 1 # end
      BY <1>7, <1>11, <2>1
    <3>2. y = q + n + 1
      BY <1>d, <1>y, <2>1
    <3>3. QED
      BY <1>1, <1>10, <3>1, <3>2
  <2>2. CASE ~More
    <3>1. y = q + n
      BY <1>1, <1>d, <1>y, <2>2
    <3>2. QED
      BY <1>10, <3>1
  <2>3. QED
    BY <2>1, <2>2
<1>13. y \in 1..Len(m.wire) /\ y \in z..(z + t - 1)
  BY <1>1, <1>5, <1>12, <1>d, <1>e, <1>y
<1>14. m \in Messages /\ ~m.bad /\ i \in 1..Len(m.chunks)
  BY <1>1, <1>2
<1>15. Got(m, c.before + (q - c.start)) \o Line = Got(m, c.before + ((q + n) - c.start))
  <2>1. PICK line : line = SubSeq(m.wire, q + 1, q + n)
    OBVIOUS
  <2>2. q \in c.start..(c.start + c.size) /\ q + n <= c.start + c.size /\ n \in Nat
    BY <1>1, <1>5, <1>10, <1>e, <1>z, <1>t
  <2>3. Adds(m, c, q, n, line)
    BY <1>14, <2>1, <2>2, GotChunk
  <2>4. QED
    BY <1>11, <2>1, <2>3 DEF Adds
<1> DEFINE bytes == CurrentRequest \o Line \o (IF More THEN <<LineEnd>> ELSE <<>>)
           left == ContentLength - Len(Line) - (IF More THEN 1 ELSE 0)
<1>16. bytes = Got(m, c.before + (y - c.start))
  <2>1. CASE More
    <3>1. bytes = Got(m, c.before + ((q + n) - c.start)) \o <<LineEnd>>
      BY <1>2, <1>15, <2>1
    <3>2. PICK x \in Nat : x = q + n
      BY <1>1
    <3>3. PICK line : line = SubSeq(m.wire, x + 1, x + 1)
      OBVIOUS
    <3>4. x + 1 <= Len(m.wire) /\ x \in c.start..(c.start + c.size) /\ x + 1 <= c.start + c.size
      BY <1>1, <1>5, <1>10, <1>e, <1>z, <1>t, <3>2
    <3>5. line = <<LineEnd>>
      <4>1. SubSeq(m.wire, x + 1, x + 1) = <<m.wire[x + 1]>>
        BY <1>1, <3>4, OnePiece
      <4>2. m.wire[x + 1] = LineEnd
        BY <1>11, <2>1, <3>2
      <4>3. QED
        BY <3>3, <4>1, <4>2
    <3>6. PICK l \in Nat : l = 1
      OBVIOUS
    <3>7. /\ x \in c.start..(c.start + c.size) /\ x + l <= c.start + c.size
          /\ line = SubSeq(m.wire, x + 1, x + l)
      BY <3>3, <3>4, <3>6
    <3>8. Adds(m, c, x, l, line)
      BY <1>14, <3>7, GotChunk
    <3>9. y = x + l
      BY <1>d, <1>y, <2>1, <3>2, <3>6
    <3>10. QED
      BY <3>1, <3>2, <3>5, <3>8, <3>9 DEF Adds
  <2>2. CASE ~More
    <3>1. y = q + n
      BY <1>1, <1>d, <1>y, <2>2
    <3>2. PICK g : g = Got(m, c.before + (y - c.start))
      OBVIOUS
    <3>3. bytes = g \o <<>>
      BY <1>2, <1>15, <2>2, <3>1, <3>2
    <3>4. PICK f \in Nat : f = c.before + (y - c.start)
      <4>1. PICK b \in Nat : b = c.before
        BY <1>4
      <4>2. PICK u \in Nat : u = y - z
        BY <1>13
      <4>3. b + u \in Nat
        OBVIOUS
      <4>4. b + u = c.before + (y - c.start)
        BY <1>z, <4>1, <4>2
      <4>5. QED
        BY <4>3, <4>4
    <3>5. f \in 0..Len(m.parsed.body)
      <4>1. c.before + c.size <= Len(m.parsed.body) /\ c.before \in Nat
        BY <1>3 DEF AChunk
      <4>2. PICK b \in Nat : b = c.before
        BY <1>4
      <4>3. Len(m.parsed.body) \in Nat
        BY <1>1, GoodIs, LenProperties
      <4>4. f = b + (y - z) /\ b + t <= Len(m.parsed.body)
        BY <1>z, <1>t, <3>4, <4>1, <4>2
      <4>5. QED
        BY <1>13, <4>3, <4>4
    <3>6. g \in Seq(Byte)
      BY <1>1, <3>2, <3>4, <3>5, GotIs
    <3>7. g \o <<>> = g
      BY <3>6, ConcatEmptySeq
    <3>8. QED
      BY <3>2, <3>3, <3>7
  <2>3. QED
    BY <2>1, <2>2
<1>17. left = c.start + c.size - y
  <2>1. left = (end - q) - n - d
    BY <1>6, <1>n, <1>d
  <2>2. (end - q) - n - d = z + (t - y)
    BY <1>1, <1>d, <1>e, <1>y
  <2>3. QED
    BY <1>z, <1>t, <2>1, <2>2
<1>18. ChunkedEncoding = TRUE
  BY <1>2, <1>3 DEF HeadRead, AChunk
<1>19. /\ CurrentRequest' = bytes /\ ContentLength' = left
       /\ UNCHANGED <<ParsedData, headVars, OriginalContentLength>>
  BY <1>18 DEF BodyGoesOn, Complete
<1> HIDE DEF bytes, left
<1>20. HeadRead(m)'
  BY <1>2, <1>19 DEF HeadRead, headVars
<1>21. y \in c.start..(c.start + c.size - 1)
  BY <1>13, <1>z, <1>t
<1>22. InChunk(m, i, y)'
  BY <1>2, <1>8, <1>16, <1>17, <1>19, <1>20, <1>21 DEF InChunk
<1>23. Inside(m, y)'
  BY <1>2, <1>22 DEF Inside
<1>24. y = q + Len(Line) + (IF More THEN 1 ELSE 0) /\ ParsedData' = ParsedData
  BY <1>d, <1>n, <1>y, <1>19
<1>25. QED
  BY <1>8, <1>9, <1>13, <1>23, <1>24, StaysInside

-----------------------------------------------------------------------------
(* Any step, and the theorems.                                              *)

LEMMA InPlainStep ==
    ASSUME NEW S, NEW E, NEW k, NEW m, NEW q, Parsing(S, E), Reads(S, E, k, m, q), ParseStep,
           InPlain(m, q)
    PROVE  Onward(S, E)
<1>1. /\ m \in Messages /\ ~m.bad /\ m.wire \in Seq(Byte) /\ Len(m.wire) \in Nat
  BY MessageRead
<1>2. m.head \in 1..Len(m.wire)
  BY <1>1, GoodIs
<1>3. /\ q \in m.head..(Len(m.wire) - 1) /\ InContent = TRUE /\ ChunkedEncoding = FALSE
      /\ CurrentRequest = SubSeq(m.wire, 1, q)
  BY DEF InPlain, HeadRead
<1>4. CurrentRequest # <<>>
  <2>1. PICK a \in Nat : a = 0
    OBVIOUS
  <2>2. q \in a..Len(m.wire) /\ q - a = q /\ q # 0 /\ a + 1 = 1
    BY <1>1, <1>2, <1>3, <2>1
  <2>3. Len(SubSeq(m.wire, a + 1, q)) = q - a
    BY <1>1, <2>2, Piece
  <2>4. Len(CurrentRequest) # 0
    BY <1>3, <2>2, <2>3
  <2>5. QED
    BY <2>4, EmptyIs
<1>5. BodyGoesOn \/ BodyEnds
  BY <1>3, <1>4 DEF ParseStep, SkipBlank, BufferChunkSize, ChunkSize, AtChunkSize, ChunkEnds,
                    HeaderGoesOn
<1>6. QED
  BY <1>5, PlainGoesOn, PlainEnds

LEMMA InChunksStep ==
    ASSUME NEW S, NEW E, NEW k, NEW m, NEW q, Parsing(S, E), Reads(S, E, k, m, q), ParseStep,
           NEW i, AtSize(m, i, q) \/ InChunk(m, i, q)
    PROVE  Onward(S, E)
<1>1. m \in Messages /\ ~m.bad
  BY MessageRead
<1>2. PICK c : c = m.chunks[i]
  OBVIOUS
<1>3. i \in 1..Len(m.chunks) /\ HeadRead(m)
  BY DEF AtSize, InChunk
<1>4. AChunk(m, i, c)
  BY <1>1, <1>2, <1>3, TheChunk
<1>5. /\ c.before \in Nat /\ c.start \in Nat /\ c.size \in Nat /\ m.chunks # <<>>
      /\ c.before + c.size <= Len(m.parsed.body)
  BY <1>4 DEF AChunk
<1>6. InContent = TRUE /\ ChunkedEncoding = TRUE
  BY <1>3, <1>5 DEF HeadRead
<1>z. PICK z \in Nat : z = c.start
  BY <1>5
<1>t. PICK t \in Nat : t = c.size
  BY <1>5
<1>f. PICK f \in Nat : f = c.before
  BY <1>5
<1>7. Len(m.parsed.body) \in Nat /\ f + t <= Len(m.parsed.body)
  BY <1>1, <1>5, <1>t, <1>f, GoodIs, LenProperties
<1>8. ASSUME NEW n, n \in 0..t PROVE Got(m, f + n) # <<>>
  <2>1. f + n \in 0..Len(m.parsed.body)
    BY <1>7, <1>8
  <2>2. QED
    BY <1>1, <2>1, GotIs
<1>9. CASE AtSize(m, i, q)
  <2>1. ContentLength = 0 /\ CurrentRequest = Got(m, c.before)
    BY <1>2, <1>9 DEF AtSize
  <2>2. CurrentRequest # <<>>
    <3>1. 0 \in 0..t /\ f + 0 = f
      OBVIOUS
    <3>2. QED
      BY <1>8, <1>f, <2>1, <3>1
  <2>3. BufferChunkSize \/ ChunkSize
    BY <1>6, <2>1, <2>2 DEF ParseStep, SkipBlank, InBody, ChunkEnds, BodyGoesOn, BodyEnds,
                           HeaderGoesOn
  <2>4. QED
    BY <1>2, <1>9, <2>3, SizeGoesOn, SizeEnds
<1>10. CASE InChunk(m, i, q)
  <2>1. /\ q \in c.start..(c.start + c.size - 1) /\ ContentLength = c.start + c.size - q
        /\ CurrentRequest = Got(m, c.before + (q - c.start))
    BY <1>2, <1>10 DEF InChunk
  <2>2. q \in z..(z + t - 1) /\ ContentLength = z + (t - q)
    BY <1>z, <1>t, <2>1
  <2>3. ContentLength # 0 /\ q - z \in 0..t
    BY <2>2
  <2>4. CurrentRequest # <<>>
    BY <1>8, <1>f, <1>z, <2>1, <2>3
  <2>5. ChunkEnds \/ BodyGoesOn
    BY <1>6, <2>3, <2>4 DEF ParseStep, SkipBlank, BufferChunkSize, ChunkSize, AtChunkSize,
                           BodyEnds, HeaderGoesOn
  <2>6. QED
    BY <1>2, <1>10, <2>5, ChunkGoesOn, ChunkIsOver
<1>11. QED
  BY <1>9, <1>10

LEMMA GoodStep ==
    ASSUME NEW S, NEW E, Parsing(S, E), InGood(S, E), ParseStep
    PROVE  Onward(S, E)
<1>1. SentInv /\ OutInv
  BY DEF Parsing
<1>2. Len(Parsed) \in Nat /\ Len(Good) \in Nat
  BY <1>1, ParsedIs, GoodAre
<1>3. CASE Between(S, E)
  BY <1>3, BetweenStep
<1>4. CASE /\ Len(Parsed) < Len(Good)
           /\ \E q \in 1..Len(Good[Len(Parsed) + 1].wire) :
                 Used(S) = E[Len(Parsed)] + q /\ Inside(Good[Len(Parsed) + 1], q)
  <2>1. PICK k : k = Len(Parsed) + 1
    OBVIOUS
  <2>2. PICK m : m = Good[k]
    OBVIOUS
  <2>3. PICK q \in 1..Len(m.wire) : Used(S) = E[Len(Parsed)] + q /\ Inside(m, q)
    BY <1>4, <2>1, <2>2
  <2>4. k \in 1..Len(Good) /\ Len(Parsed) = k - 1
    BY <1>2, <1>4, <2>1
  <2>5. q \in 0..Len(m.wire)
    OBVIOUS
  <2>6. Reads(S, E, k, m, q)
    BY <2>2, <2>3, <2>4, <2>5 DEF Reads
  <2>7. CASE InHead(m, q)
    BY <2>6, <2>7, InHeadStep
  <2>8. CASE InPlain(m, q)
    BY <2>6, <2>8, InPlainStep
  <2>9. CASE \E i \in 1..Len(m.chunks) : AtSize(m, i, q) \/ InChunk(m, i, q)
    BY <2>6, <2>9, InChunksStep
  <2>10. QED
    BY <2>3, <2>7, <2>8, <2>9 DEF Inside
<1>5. QED
  BY <1>3, <1>4 DEF InGood

LEMMA ParseStepInv ==
    ASSUME HTTPInv, ParseStep
    PROVE  HTTPInv'
<1>1. SentInv /\ ReadInv /\ OutInv
  BY DEF HTTPInv
<1>2. PICK S, E : StreamInv(S, E)
  BY DEF HTTPInv
<1>3. Laid(S, E) /\ InStream(S) /\ (InGood(S, E) \/ InBad(S, E))
  BY <1>2 DEF StreamInv
<1>4. Take
  BY <1>1, ParseExtends
<1>5. SentInv' /\ ReadInv' /\ Laid(S, E)' /\ InStream(S)'
  BY <1>1, <1>3, <1>4, TakeKeeps
<1>6. OutInv' /\ (InGood(S, E) \/ InBad(S, E))'
  <2>1. CASE InGood(S, E)
    <3>1. Parsing(S, E)
      BY <1>1, <1>3, <2>1 DEF InGood, Parsing
    <3>2. Onward(S, E)
      BY <2>1, <3>1, GoodStep
    <3>3. QED
      BY <3>2 DEF Onward
  <2>2. CASE InBad(S, E)
    BY <1>1, <1>3, <2>2, BadStep
  <2>3. QED
    BY <1>3, <2>1, <2>2
<1>7. StreamInv(S, E)'
  BY <1>5, <1>6 DEF StreamInv
<1>8. (\E S1, E1 : StreamInv(S1, E1))'
  BY <1>7
<1>9. QED
  BY <1>1, <1>5, <1>6, <1>8 DEF HTTPInv

LEMMA HTTPNextInv ==
    ASSUME HTTPInv, [HTTPNext]_httpVars, ~torn'
    PROVE  HTTPInv'
<1>1. ASSUME NEW m \in Messages, Send(m) PROVE HTTPInv'
  BY <1>1, SendStep
<1>2. ASSUME NEW n \in DOMAIN wire, HTTPAdd(n) PROVE HTTPInv'
  BY <1>2, HTTPAddStep
<1>3. CASE AddReturns
  BY <1>3, AddReturnsStep
<1>4. CASE HTTPExtract
  BY <1>4, HTTPExtractStep
<1>5. CASE ParseStep
  BY <1>5, ParseStepInv
<1>6. CASE UNCHANGED httpVars
  BY <1>6, HTTPStutter
<1>7. QED
  BY <1>1, <1>2, <1>3, <1>4, <1>5, <1>6 DEF HTTPNext, ParseStep

\* where the parser is in a message is not its end
LEMMA InsideIsBefore ==
    ASSUME NEW m \in Messages, ~m.bad, NEW q, Inside(m, q)
    PROVE  q \in Int /\ q < Len(m.wire)
<1>1. m.head \in 1..Len(m.wire) /\ Len(m.wire) \in Nat
  BY GoodIs
<1>2. CASE InHead(m, q)
  BY <1>1, <1>2 DEF InHead
<1>3. CASE InPlain(m, q)
  BY <1>1, <1>3 DEF InPlain
<1>4. ASSUME NEW i \in 1..Len(m.chunks), AtSize(m, i, q) \/ InChunk(m, i, q)
      PROVE  q \in Int /\ q < Len(m.wire)
  <2>1. PICK c : c = m.chunks[i]
    OBVIOUS
  <2>2. AChunk(m, i, c)
    BY <2>1, TheChunk
  <2>3. c.from \in Nat /\ c.start \in Nat /\ c.size \in Nat /\ c.start + c.size + 2 <= Len(m.wire)
    BY <2>2 DEF AChunk
  <2>4. PICK z \in Nat : z = c.start
    BY <2>3
  <2>5. PICK t \in Nat : t = c.size
    BY <2>3
  <2>6. PICK f \in Nat : f = c.from
    BY <2>3
  <2>7. z + t + 2 <= Len(m.wire)
    BY <2>3, <2>4, <2>5
  <2>8. q \in f..(z - 1) \/ q \in z..(z + t - 1)
    BY <1>4, <2>1, <2>4, <2>5, <2>6 DEF AtSize, InChunk
  <2>9. QED
    BY <1>1, <2>7, <2>8
<1>5. QED
  BY <1>2, <1>3, <1>4 DEF Inside

LEMMA InvGivesOrder == ASSUME HTTPInv PROVE MessagesArePrefix
<1>1. SentInv /\ OutInv
  BY DEF HTTPInv
<1>2. PICK S, E : StreamInv(S, E)
  BY DEF HTTPInv
<1>3. /\ Len(Parsed) \in Nat /\ ASeq(Parsed) /\ Len(Good) \in 0..Len(sent) /\ Len(sent) \in Nat
      /\ Len(Good) \in Nat
  BY <1>1, ParsedIs, GoodAre
<1>4. ASSUME NEW i \in DOMAIN Good \cap DOMAIN Parsed PROVE Parsed[i] = Good[i].parsed
  <2>1. i \in 1..Len(Parsed)
    BY <1>3, <1>4, LenProperties DEF ASeq
  <2>2. Good \in Seq(Messages)
    <3>1. sent \in Seq(Messages)
      BY <1>1 DEF SentInv
    <3>2. CASE sent # <<>> /\ Last(sent).bad
      <4>1. PICK n \in Nat : n = Len(sent)
        BY <1>3
      <4>2. n # 0
        BY <3>1, <3>2, <4>1, EmptySeq
      <4>3. PICK a \in Nat : a = 0
        OBVIOUS
      <4>4. n - 1 \in a..Len(sent) /\ a + 1 = 1
        BY <4>1, <4>2, <4>3
      <4>5. SubSeq(sent, a + 1, n - 1) \in Seq(Messages)
        BY <3>1, <4>4, Piece
      <4>6. QED
        BY <3>2, <4>1, <4>4, <4>5 DEF Good, Front
    <3>3. CASE ~(sent # <<>> /\ Last(sent).bad)
      BY <3>1, <3>3 DEF Good
    <3>4. QED
      BY <3>2, <3>3
  <2>3. i \in 1..Len(Good)
    BY <1>4, <2>2, LenProperties
  <2>4. i <= Len(Parsed)
    BY <2>1
  <2>5. RightOut(Parsed)
    BY <1>1 DEF OutInv
  <2>6. QED
    BY <2>3, <2>4, <2>5 DEF RightOut
<1>5. Len(Parsed) > Len(Good) \/ threw => Len(Good) < Len(sent)
  <2>1. CASE InBad(S, E)
    BY <2>1 DEF InBad
  <2>2. CASE InGood(S, E)
    <3>1. threw = FALSE /\ Len(Parsed) <= Len(Good)
      BY <1>3, <2>2 DEF InGood, Between
    <3>2. QED
      BY <1>3, <3>1
  <2>3. QED
    BY <1>2, <2>1, <2>2 DEF StreamInv
<1>6. QED
  BY <1>4, <1>5 DEF MessagesArePrefix

LEMMA InvLeavesNothing == ASSUME HTTPInv PROVE EveryMessageIsParsed
<1>1. SentInv /\ OutInv /\ ReadInv
  BY DEF HTTPInv
<1>2. PICK S, E : StreamInv(S, E)
  BY DEF HTTPInv
<1>3. /\ Len(Parsed) \in Nat /\ Len(Good) \in 0..Len(sent) /\ Len(sent) \in Nat /\ Len(Good) \in Nat
  BY <1>1, ParsedIs, GoodAre
<1>4. SUFFICES ASSUME wire = <<>>, given = <<>>, Len(Parsed) < Len(Good) PROVE FALSE
  BY <1>3 DEF EveryMessageIsParsed
<1>5. Laid(S, E) /\ InStream(S) /\ (InGood(S, E) \/ InBad(S, E))
  BY <1>2 DEF StreamInv
<1>6. PICK n \in Nat : n = Len(Parsed)
  BY <1>3
<1>7. PICK k \in 1..Len(Good) : k = n + 1
  BY <1>3, <1>4, <1>6
<1>8. PICK m : m = Good[k]
  OBVIOUS
<1>9. /\ m \in Messages /\ ~m.bad /\ E[k - 1] \in Nat /\ E[k] \in Nat
      /\ E[k] = E[k - 1] + Len(m.wire) /\ Len(m.wire) \in Nat /\ k - 1 = n
  BY <1>1, <1>5, <1>7, <1>8, GoodEnds
<1>10. Used(S) = E[Len(sent)] /\ E[Len(sent)] \in Nat
  <2>1. at = 0 /\ Len(wire) = 0 /\ Len(given) = 0 /\ Len(S) \in Nat
    BY <1>1, <1>4, <1>5, EmptyIs, StreamTypes DEF ReadInv
  <2>2. Used(S) = Len(S)
    BY <2>1 DEF Used
  <2>3. QED
    BY <1>5, <2>1, <2>2 DEF Laid
<1>11. E[n] <= Used(S) /\ E[k] <= Used(S)
  <2>1. /\ n \in 0..Len(sent) /\ k \in 0..Len(sent) /\ Len(sent) \in n..Len(sent)
        /\ Len(sent) \in k..Len(sent)
    BY <1>3, <1>7, <1>9
  <2>2. \A i \in 0..Len(sent) : \A j \in i..Len(sent) : E[i] <= E[j]
    BY <1>5 DEF Laid
  <2>3. QED
    BY <1>10, <2>1, <2>2
<1>12. m.head \in 1..Len(m.wire)
  BY <1>9, GoodIs
<1>13. E[n] < E[k] /\ E[n] \in Nat
  BY <1>9, <1>12
<1>14. ~InBad(S, E)
  BY <1>3, <1>4 DEF InBad
<1>15. CASE Between(S, E)
  <2>1. Used(S) = E[n] \/ Used(S) + 2 = E[n]
    BY <1>6, <1>15 DEF Between
  <2>2. QED
    BY <1>9, <1>10, <1>11, <1>13, <2>1
<1>16. CASE \E q \in 1..Len(Good[Len(Parsed) + 1].wire) :
              Used(S) = E[Len(Parsed)] + q /\ Inside(Good[Len(Parsed) + 1], q)
  <2>1. PICK q \in 1..Len(m.wire) : Used(S) = E[n] + q /\ Inside(m, q)
    BY <1>6, <1>7, <1>8, <1>16
  <2>2. q < Len(m.wire)
    BY <1>9, <2>1, InsideIsBefore
  <2>3. Used(S) < E[k]
    BY <1>9, <1>13, <2>1, <2>2
  <2>4. QED
    BY <1>9, <1>10, <1>11, <2>3
<1>17. QED
  BY <1>5, <1>14, <1>15, <1>16 DEF InGood

\* no step takes back that a read was torn
LEMMA TornStays == ASSUME [HTTPNext]_httpVars, torn PROVE torn'
<1>1. ASSUME NEW m \in Messages, Send(m) PROVE torn'
  BY <1>1 DEF Send
<1>2. ASSUME NEW n \in DOMAIN wire, HTTPAdd(n) PROVE torn'
  BY <1>2 DEF HTTPAdd
<1>3. CASE AddReturns \/ HTTPExtract \/ UNCHANGED httpVars
  BY <1>3 DEF AddReturns, HTTPExtract, httpVars, input
<1>4. CASE ParseStep
  BY <1>4 DEF ParseStep, SkipBlank, BufferChunkSize, ChunkSize, ChunkEnds, BodyGoesOn,
              BodyEnds, HeaderGoesOn, Take, input
<1>5. QED
  BY <1>1, <1>2, <1>3, <1>4 DEF HTTPNext, ParseStep

\* The inductive invariant: until a read ends where cut is FALSE, the parser stands at a
\* place of the stream of all messages, and the request buffer, the counts and the buffer
\* of a chunk size are what that place says.
THEOREM ParserIsInStream == HTTPSpec => [](torn \/ HTTPInv)
<1>1. HTTPInit => torn \/ HTTPInv
  BY HTTPInitInv
<1>2. (torn \/ HTTPInv) /\ [HTTPNext]_httpVars => (torn \/ HTTPInv)'
  BY HTTPNextInv, TornStays
<1>3. QED
  BY <1>1, <1>2, PTL DEF HTTPSpec

\* ParseLine and Flush: until a read ends within a line of a head, in its last CR LF or
\* between a chunk and the end of its CR LF, messages come out as they were sent and in
\* order, wherever else reads end, and nothing fails before a message whose chunk is
\* malformed or ends with LF.
THEOREM MessagesInOrder == HTTPSpec => []MessagesArePrefix
<1>1. torn \/ HTTPInv => MessagesArePrefix
  BY InvGivesOrder DEF MessagesArePrefix
<1>2. QED
  BY <1>1, ParserIsInStream, PTL

\* Add: under the same condition, when all bytes were read, no message waits for bytes of
\* the next.
THEOREM NoMessageWaits == HTTPSpec => []EveryMessageIsParsed
<1>1. torn \/ HTTPInv => EveryMessageIsParsed
  BY InvLeavesNothing DEF EveryMessageIsParsed
<1>2. QED
  BY <1>1, ParserIsInStream, PTL
=============================================================================
