---------------------------- MODULE RBTree_proofs ----------------------------
(***************************************************************************)
(* Proofs about RBTree, for every set of keys and number of insertions.    *)
(*                                                                         *)
(* TreeInv: the region, with the copy of the parent that is not yet        *)
(* written back, is a red-black tree, but for one red node under a red     *)
(* one.  DataInv: each key is in it once, with the value last stored, on   *)
(* the side where a lookup goes; for that Less is proved to be a total     *)
(* order.  IterInv: an iterator has returned what comes before the node    *)
(* where it is.  The recursive functions of the code end because the rank  *)
(* of a node, of the number of black nodes below it and its colour, falls  *)
(* on the way down.                                                        *)
(***************************************************************************)
EXTENDS RBTree, FiniteSetTheorems, SequenceTheorems, WellFoundedInduction, TLAPS

-----------------------------------------------------------------------------
(* Recursive functions of a number.                                         *)

LEMMA LessIsWellFounded ==
    \E R : IsWellFoundedOn(R, Nat) /\ \A x, y \in Nat : x < y => <<x, y>> \in R
<1> DEFINE R == OpToRel(<, Nat)
<1>1. IsWellFoundedOn(R, Nat)
  BY NatLessThanWellFounded
<1>2. \A x, y \in Nat : x < y => <<x, y>> \in R
  BY DEF OpToRel
<1> HIDE DEF R
<1>3. QED
  BY <1>1, <1>2

LEMMA LeastNatural ==
    ASSUME NEW S, S \subseteq Nat, S # {}
    PROVE  \E m \in S : \A x \in S : m <= x
<1>1. PICK R : IsWellFoundedOn(R, Nat) /\ \A x, y \in Nat : x < y => <<x, y>> \in R
  BY LessIsWellFounded
<1>2. PICK m \in S : \A y \in S : ~ (<<y, m>> \in R)
  <2>1. IsWellFoundedOn(R, Nat)
    BY <1>1
  <2>2. \E x \in S : \A y \in S : ~ (<<y, x>> \in R)
    BY <2>1, WFMin
  <2>3. QED
    BY <2>2
<1>3. \A x \in S : ~ (x < m)
  BY <1>1, <1>2
<1>4. QED
  BY <1>3

\* What holds of 0 and goes from n - 1 to n holds up to N; P is a set of numbers.
LEMMA UpTo ==
    ASSUME NEW N \in Nat, NEW P, 0 \in P, \A n \in 1..N : n - 1 \in P => n \in P
    PROVE  \A n \in 0..N : n \in P
<1> DEFINE Bad == {n \in 0..N : n \notin P}
<1>1. SUFFICES ASSUME Bad # {} PROVE FALSE
  OBVIOUS
<1>2. PICK m \in Bad : \A n \in Bad : m <= n
  <2>1. Bad \subseteq Nat
    OBVIOUS
  <2> HIDE DEF Bad
  <2>2. QED
    BY <1>1, <2>1, LeastNatural
<1>3. m \in 1..N /\ m - 1 \in 0..N /\ m - 1 \notin Bad
  BY <1>2
<1>4. QED
  BY <1>2, <1>3

\* step, a function of n and of the value before, gives values in S; g is what a recursion
\* with it yields from a on.
StepOn(S, N, step) == \A n \in 1..N, x \in S : step[<<n, x>>] \in S
Yields(S, N, a, step, g) ==
    g \in [0..N -> S] /\ g[0] = a /\ \A n \in 1..N : g[n] = step[<<n, g[n - 1]>>]

\* A function defined by recursion exists.
LEMMA RecursionExists ==
    ASSUME NEW S, NEW N \in Nat, NEW a \in S, NEW step, StepOn(S, N, step)
    PROVE  \E g : Yields(S, N, a, step, g)
<1> USE DEF StepOn
<1> DEFINE P == {n \in 0..N : \E g \in [0..n -> S] :
                    g[0] = a /\ \A i \in 1..n : g[i] = step[<<i, g[i - 1]>>]}
<1>1. 0 \in P
  <2> DEFINE g == [i \in 0..0 |-> a]
  <2>1. g \in [0..0 -> S] /\ g[0] = a
    OBVIOUS
  <2>2. \A i \in 1..0 : FALSE
    OBVIOUS
  <2> HIDE DEF g
  <2>3. QED
    BY <2>1, <2>2
<1>2. ASSUME NEW n \in 1..N, n - 1 \in P PROVE n \in P
  <2>1. PICK g \in [0..(n - 1) -> S] :
            g[0] = a /\ \A i \in 1..(n - 1) : g[i] = step[<<i, g[i - 1]>>]
    BY <1>2
  <2> DEFINE h == [i \in 0..n |-> IF i = n THEN step[<<n, g[n - 1]>>] ELSE g[i]]
  <2>2. g[n - 1] \in S
    BY <2>1
  <2>3. step[<<n, g[n - 1]>>] \in S
    BY <2>2
  <2>4. h \in [0..n -> S]
    <3>1. ASSUME NEW i \in 0..n, i # n PROVE g[i] \in S
      BY <3>1, <2>1
    <3>2. QED
      BY <2>3, <3>1
  <2>5. h[0] = a
    BY <2>1
  <2>6. ASSUME NEW i \in 1..n PROVE h[i] = step[<<i, h[i - 1]>>]
    <3>1. h[i - 1] = g[i - 1]
      OBVIOUS
    <3>2. CASE i = n
      <4>1. h[n] = step[<<n, g[n - 1]>>]
        OBVIOUS
      <4> HIDE DEF h
      <4>2. QED
        BY <3>1, <3>2, <4>1
    <3>3. CASE i # n
      <4>1. i \in 1..(n - 1)
        BY <3>3
      <4>2. g[i] = step[<<i, g[i - 1]>>]
        BY <4>1, <2>1
      <4>3. h[i] = g[i]
        BY <3>3
      <4>4. QED
        BY <3>1, <4>2, <4>3
    <3>4. QED
      BY <3>2, <3>3
  <2> HIDE DEF h
  <2>7. QED
    BY <2>4, <2>5, <2>6
<1> HIDE DEF P
<1>3. \A n \in 0..N : n \in P
  BY <1>1, <1>2, UpTo
<1>4. QED
  BY <1>3 DEF P, Yields

\* F makes functions from D to S of such functions.  What it makes at d depends on what its
\* argument is where the rank is lower.
Makes(D, S, F) == F \in [[D -> S] -> [D -> S]]
Ranks(D, K, rank) == rank \in [D -> 0..K]
LooksBelow(D, S, F, rank) ==
    \A f, g \in [D -> S], d \in D :
       (\A e \in D : rank[e] < rank[d] => f[e] = g[e]) => F[f][d] = F[g][d]

\* Then there is a function that it makes of itself: one defined by recursion.
LEMMA FixpointExists ==
    ASSUME NEW D, NEW S, NEW s \in S, NEW K \in Nat, NEW rank, NEW F,
           Ranks(D, K, rank), Makes(D, S, F), LooksBelow(D, S, F, rank)
    PROVE  \E f \in [D -> S] : F[f] = f
<1> DEFINE Z == [D -> S]
           N == K + 2
           a == [d \in D |-> s]
           step == [q \in (1..N) \X Z |-> F[q[2]]]
<1>0. rank \in [D -> 0..K] /\ F \in [Z -> Z]
  BY DEF Ranks, Makes
<1>1. N \in Nat /\ a \in Z
  OBVIOUS
<1>2. \A n \in 1..N, x \in Z : step[<<n, x>>] = F[x]
  OBVIOUS
<1> HIDE DEF step
<1>3. StepOn(Z, N, step)
  BY <1>0, <1>2 DEF StepOn
<1> HIDE DEF N, a, Z
<1>4. PICK g : g \in [0..N -> Z] /\ g[0] = a /\ \A n \in 1..N : g[n] = step[<<n, g[n - 1]>>]
  <2>1. \E g : Yields(Z, N, a, step, g)
    BY <1>1, <1>3, RecursionExists
  <2>2. QED
    BY <2>1 DEF Yields
<1>5. \A n \in 1..N : n \in 0..N /\ n - 1 \in 0..N
  BY <1>1
<1>6. \A n \in 1..N : g[n] = F[g[n - 1]]
  BY <1>2, <1>4, <1>5
<1>7. \A n \in 0..N : g[n] \in [D -> S]
  BY <1>4 DEF Z
\* After n steps what has a rank below n stays as it is.
<1> DEFINE P == {n \in 0..(K + 1) : \A d \in D : rank[d] < n => g[n + 1][d] = g[n][d]}
<1>8. 0 \in P
  <2>1. \A d \in D : ~(rank[d] < 0)
    BY <1>0
  <2>2. QED
    BY <2>1
<1>9. ASSUME NEW n \in 1..(K + 1), n - 1 \in P PROVE n \in P
  <2>1. n \in 1..N /\ n + 1 \in 1..N /\ (n + 1) - 1 = n /\ (n - 1) + 1 = n /\ n \in 0..(K + 1)
        /\ n \in 0..N /\ n - 1 \in 0..N
    BY DEF N
  <2>2. ASSUME NEW d \in D, rank[d] < n PROVE g[n + 1][d] = g[n][d]
    <3>1. ASSUME NEW e \in D, rank[e] < rank[d] PROVE g[n][e] = g[n - 1][e]
      <4>1. rank[e] < n - 1
        <5>1. rank[e] \in Nat /\ rank[d] \in Nat
          BY <1>0
        <5>2. QED
          BY <2>2, <3>1, <5>1
      <4>2. g[(n - 1) + 1][e] = g[n - 1][e]
        BY <1>9, <4>1
      <4>3. QED
        BY <2>1, <4>2
    <3>2. g[n] \in [D -> S] /\ g[n - 1] \in [D -> S]
      BY <1>7, <2>1
    <3>3. F[g[n]][d] = F[g[n - 1]][d]
      BY <3>1, <3>2 DEF LooksBelow
    <3>4. g[n + 1] = F[g[n]] /\ g[n] = F[g[n - 1]]
      BY <1>6, <2>1
    <3>5. QED
      BY <3>3, <3>4
  <2>3. QED
    BY <2>1, <2>2
<1>10. K + 1 \in P
  <2> HIDE DEF P
  <2>1. K + 1 \in Nat
    OBVIOUS
  <2>2. \A n \in 0..(K + 1) : n \in P
    BY <1>8, <1>9, <2>1, UpTo
  <2>3. QED
    BY <2>1, <2>2
<1> DEFINE M == K + 1
<1>11. M \in 0..N /\ M + 1 \in 1..N /\ M + 1 \in 0..N /\ (M + 1) - 1 = M
  BY DEF N
<1>12. \A d \in D : g[M + 1][d] = g[M][d]
  <2>1. \A d \in D : rank[d] < K + 1
    BY <1>0
  <2>2. QED
    BY <1>10, <2>1
<1> HIDE DEF M, P
<1>13. g[M] \in [D -> S] /\ g[M + 1] \in [D -> S]
  BY <1>7, <1>11
<1>14. g[M + 1] = g[M]
  BY <1>12, <1>13
<1>15. F[g[M]] = g[M]
  BY <1>6, <1>11, <1>14
<1>16. QED
  BY <1>13, <1>15

\* Finitely many numbers have a bound.
LEMMA Bounded ==
    ASSUME NEW N \in Nat, NEW f, \A i \in 1..N : f[i] \in Nat
    PROVE  \E K \in Nat : \A i \in 1..N : f[i] <= K
<1> DEFINE P == {n \in 0..N : \E K \in Nat : \A i \in 1..n : f[i] <= K}
<1>1. 0 \in P
  <2>1. \A i \in 1..0 : FALSE
    OBVIOUS
  <2>2. 0 \in Nat /\ 0 \in 0..N
    OBVIOUS
  <2>3. QED
    BY <2>1, <2>2
<1>2. ASSUME NEW n \in 1..N, n - 1 \in P PROVE n \in P
  <2>1. PICK K \in Nat : \A i \in 1..(n - 1) : f[i] <= K
    BY <1>2
  <2> DEFINE L == IF f[n] <= K THEN K ELSE f[n]
  <2>2. L \in Nat /\ K <= L /\ f[n] <= L /\ f[n] \in Nat
    OBVIOUS
  <2> HIDE DEF L
  <2>3. ASSUME NEW i \in 1..n PROVE f[i] <= L
    <3>1. i = n \/ i \in 1..(n - 1)
      OBVIOUS
    <3>2. f[i] \in Nat
      OBVIOUS
    <3>3. QED
      BY <2>1, <2>2, <3>1, <3>2
  <2>4. QED
    BY <2>2, <2>3
<1> HIDE DEF P
<1>3. \A n \in 0..N : n \in P
  BY <1>1, <1>2, UpTo
<1>4. N \in P
  BY <1>3
<1>5. QED
  BY <1>4 DEF P

-----------------------------------------------------------------------------
(* The tree, by what holds at each node.                                    *)

Nodes(n) == [parent : 0..n, left : 0..n, right : 0..n, value : 0..n, red : BOOLEAN]
Sides == {"left", "right"}

\* The links up and down are each other's.
Linked(m) ==
    \A i \in DOMAIN m :
       /\ m[i].parent # i
       /\ m[i].parent # 0 => \E side \in Sides : m[m[i].parent][side] = i
       /\ \A side \in Sides : m[i][side] # 0 => m[m[i][side]].parent = i
       /\ m[i].left = m[i].right => m[i].left = 0

\* h has the number of black nodes on the ways down from each node, the same on all ways.
Black(m, i) == IF m[i].red THEN 0 ELSE 1
Heights(m, h) ==
    /\ h[0] = 1
    /\ \A i \in DOMAIN m, side \in Sides : h[i] = h[m[i][side]] + Black(m, i)

\* A red node is under a black one, only node d may be under a red one.
Coloured(m, d) ==
    \A i \in DOMAIN m : m[i].red => m[i].parent # 0 /\ (i # d => ~m[m[i].parent].red)

Tree(m, h, d) ==
    /\ m \in Seq(Nodes(Len(m)))
    /\ h \in [0..Len(m) -> Nat]
    /\ Linked(m) /\ Heights(m, h) /\ Coloured(m, d)

LEMMA NodesAre ==
    ASSUME NEW m, m \in Seq(Nodes(Len(m)))
    PROVE  /\ Len(m) \in Nat /\ DOMAIN m = 1..Len(m)
           /\ \A i \in DOMAIN m :
                 /\ m[i] \in Nodes(Len(m))
                 /\ m[i].parent \in {0} \cup DOMAIN m
                 /\ \A side \in Sides : m[i][side] \in {0} \cup DOMAIN m
                 /\ m[i].red \in BOOLEAN
<1>1. Len(m) \in Nat /\ DOMAIN m = 1..Len(m)
  BY LenProperties
<1>2. \A i \in DOMAIN m : m[i] \in Nodes(Len(m))
  BY <1>1, ElementOfSeq
<1>3. 0..Len(m) = {0} \cup DOMAIN m
  BY <1>1
<1>4. ASSUME NEW n \in Nodes(Len(m))
      PROVE  n.parent \in 0..Len(m) /\ (\A side \in Sides : n[side] \in 0..Len(m)) /\ n.red \in BOOLEAN
  BY DEF Nodes, Sides
<1>5. QED
  BY <1>1, <1>2, <1>3, <1>4

\* The rank of a node falls on the way down: there is no cycle.
Rank(m, h, d, i) == 3 * h[i] + (IF ~m[i].red THEN 0 ELSE IF i = d THEN 1 ELSE 2)

LEMMA RankFalls ==
    ASSUME NEW m, NEW h, NEW d, Tree(m, h, d), NEW i \in DOMAIN m
    PROVE  /\ Rank(m, h, d, i) \in Nat
           /\ m[i].parent # 0 =>
                 /\ m[i].parent \in DOMAIN m
                 /\ Rank(m, h, d, i) < Rank(m, h, d, m[i].parent)
<1>1. /\ DOMAIN m = 1..Len(m) /\ Len(m) \in Nat
      /\ \A j \in DOMAIN m : m[j].parent \in {0} \cup DOMAIN m /\ m[j].red \in BOOLEAN
  BY NodesAre DEF Tree
<1>2. \A j \in DOMAIN m : h[j] \in Nat
  BY <1>1 DEF Tree
<1>3. Rank(m, h, d, i) \in Nat
  BY <1>2 DEF Rank
<1>4. ASSUME m[i].parent # 0 PROVE Rank(m, h, d, i) < Rank(m, h, d, m[i].parent)
  <2> DEFINE p == m[i].parent
  <2>1. p \in DOMAIN m /\ p # i
    BY <1>1, <1>4 DEF Tree, Linked
  <2>2. PICK side \in Sides : m[p][side] = i
    BY <1>4 DEF Tree, Linked
  <2>3. h[p] = h[i] + Black(m, p)
    BY <2>1, <2>2 DEF Tree, Heights
  <2>4. m[i].red /\ i # d => ~m[p].red
    BY DEF Tree, Coloured
  <2> HIDE DEF p
  <2>5. h[i] \in Nat /\ h[p] \in Nat
    BY <1>2, <2>1
  <2>6. CASE m[p].red
    <3>1. h[p] = h[i]
      BY <2>3, <2>5, <2>6 DEF Black
    <3>2. ~m[i].red \/ (i = d /\ p # d)
      BY <2>1, <2>4, <2>6
    <3>3. QED
      BY <2>5, <2>6, <3>1, <3>2 DEF Rank, p
  <2>7. CASE ~m[p].red
    <3>1. h[p] = h[i] + 1
      BY <2>3, <2>7 DEF Black
    <3>2. QED
      BY <2>5, <2>7, <3>1 DEF Rank, p
  <2>8. QED
    BY <2>6, <2>7
<1>5. QED
  BY <1>1, <1>3, <1>4

LEMMA RanksBounded ==
    ASSUME NEW m, NEW h, NEW d, Tree(m, h, d)
    PROVE  \E K \in Nat : \A i \in DOMAIN m : Rank(m, h, d, i) <= K
<1> DEFINE f == [i \in DOMAIN m |-> Rank(m, h, d, i)]
<1>1. \A i \in 1..Len(m) : f[i] \in Nat
  BY RankFalls, NodesAre DEF Tree
<1>2. Len(m) \in Nat /\ DOMAIN m = 1..Len(m)
  BY NodesAre DEF Tree
<1>3. \A i \in DOMAIN m : f[i] = Rank(m, h, d, i)
  OBVIOUS
<1> HIDE DEF f
<1>4. PICK K \in Nat : \A i \in 1..Len(m) : f[i] <= K
  BY <1>1, <1>2, Bounded
<1>5. QED
  BY <1>2, <1>3, <1>4

\* F makes a function of the nodes of such a function, which it asks for the children of the
\* node only, or for its parent.  Then there is one that it makes of itself.
LooksDown(m, S, F) ==
    \A f, g \in [DOMAIN m -> S], i \in DOMAIN m :
       (\A side \in Sides : m[i][side] # 0 => f[m[i][side]] = g[m[i][side]]) => F[f][i] = F[g][i]
LooksUp(m, S, F) ==
    \A f, g \in [DOMAIN m -> S], i \in DOMAIN m :
       (m[i].parent # 0 => f[m[i].parent] = g[m[i].parent]) => F[f][i] = F[g][i]

LEMMA ChildRanks ==
    ASSUME NEW m, NEW h, NEW d, Tree(m, h, d), NEW i \in DOMAIN m, NEW side \in Sides,
           m[i][side] # 0
    PROVE  m[i][side] \in DOMAIN m /\ Rank(m, h, d, m[i][side]) < Rank(m, h, d, i)
<1>1. m[i][side] \in DOMAIN m /\ m[m[i][side]].parent = i /\ i # 0
  BY NodesAre DEF Tree, Linked
<1>2. QED
  BY <1>1, RankFalls

LEMMA DownRecursion ==
    ASSUME NEW m, NEW h, NEW d, Tree(m, h, d), NEW S, NEW s \in S, NEW F,
           Makes(DOMAIN m, S, F), LooksDown(m, S, F)
    PROVE  \E f \in [DOMAIN m -> S] : F[f] = f
<1> DEFINE D == DOMAIN m
           rank == [i \in D |-> Rank(m, h, d, i)]
<1>1. PICK N \in Nat : \A i \in D : Rank(m, h, d, i) <= N
  BY RanksBounded
<1>2. \A i \in D : rank[i] = Rank(m, h, d, i) /\ rank[i] \in Nat
  BY RankFalls
<1>3. Ranks(D, N, rank)
  <2>1. \A x \in Nat : x <= N => x \in 0..N
    OBVIOUS
  <2>2. \A i \in D : Rank(m, h, d, i) \in 0..N
    BY <1>1, <2>1, RankFalls
  <2>3. QED
    BY <2>2 DEF Ranks
<1>4. \A i \in D, side \in Sides : m[i][side] # 0 =>
         m[i][side] \in D /\ rank[m[i][side]] < rank[i]
  BY <1>2, ChildRanks
<1> HIDE DEF rank
<1>5. LooksBelow(D, S, F, rank)
  BY <1>4 DEF LooksBelow, LooksDown
<1>6. QED
  BY <1>1, <1>3, <1>5, FixpointExists

LEMMA UpRecursion ==
    ASSUME NEW m, NEW h, NEW d, Tree(m, h, d), NEW S, NEW s \in S, NEW F,
           Makes(DOMAIN m, S, F), LooksUp(m, S, F)
    PROVE  \E f \in [DOMAIN m -> S] : F[f] = f
<1> DEFINE D == DOMAIN m
<1>1. PICK N \in Nat : \A i \in D : Rank(m, h, d, i) <= N
  BY RanksBounded
<1> DEFINE rank == [i \in D |-> N - Rank(m, h, d, i)]
<1>2. \A x \in Nat : x <= N => N - x \in 0..N
  OBVIOUS
<1>3. \A x, y \in Nat : x < y => N - y < N - x
  OBVIOUS
<1>4. \A i \in D : Rank(m, h, d, i) \in Nat /\ N - Rank(m, h, d, i) \in 0..N
  BY <1>1, <1>2, RankFalls
<1>5. Ranks(D, N, rank)
  BY <1>4 DEF Ranks
<1>6. ASSUME NEW i \in D, m[i].parent # 0 PROVE m[i].parent \in D /\ rank[m[i].parent] < rank[i]
  <2>1. m[i].parent \in D /\ Rank(m, h, d, i) < Rank(m, h, d, m[i].parent)
    BY <1>6, RankFalls
  <2>2. N - Rank(m, h, d, m[i].parent) < N - Rank(m, h, d, i)
    BY <1>3, <1>4, <2>1
  <2>3. QED
    BY <2>1, <2>2
<1> HIDE DEF rank
<1>7. LooksBelow(D, S, F, rank)
  BY <1>6 DEF LooksBelow, LooksUp
<1>8. QED
  BY <1>1, <1>5, <1>7, FixpointExists

\* The recursive function of Root.
IsClimb(m, f) == f = [i \in DOMAIN m |-> IF m[i].parent = 0 THEN i ELSE f[m[i].parent]]

LEMMA ClimbExists ==
    ASSUME NEW m, NEW h, NEW d, Tree(m, h, d), m # <<>>
    PROVE  \E f : IsClimb(m, f)
<1> DEFINE D == DOMAIN m
           At(f, i) == IF m[i].parent = 0 THEN i ELSE f[m[i].parent]
           F == [f \in [D -> D] |-> [i \in D |-> At(f, i)]]
<1>1. D = 1..Len(m) /\ Len(m) \in Nat /\ \A i \in D : m[i].parent \in {0} \cup D
  BY NodesAre DEF Tree
<1>2. 1 \in D
  BY <1>1, EmptySeq DEF Tree
<1>3. \A f \in [D -> D], i \in D : At(f, i) \in D
  BY <1>1
<1>4. \A f, g, i : (m[i].parent # 0 => f[m[i].parent] = g[m[i].parent]) => At(f, i) = At(g, i)
  OBVIOUS
<1> HIDE DEF At, D
<1>5. Makes(D, D, F) /\ \A f \in [D -> D] : F[f] = [i \in D |-> At(f, i)]
  BY <1>3 DEF Makes
<1> HIDE DEF F
<1>6. LooksUp(m, D, F)
  <2>1. \A f, g \in [D -> D], i \in D : F[f][i] = At(f, i) /\ F[g][i] = At(g, i)
    BY <1>5
  <2>2. QED
    BY <1>4, <2>1 DEF LooksUp, D
<1>7. PICK f \in [D -> D] : F[f] = f
  BY <1>2, <1>5, <1>6, UpRecursion DEF D
<1>8. f = [i \in D |-> At(f, i)]
  BY <1>5, <1>7
<1>9. QED
  BY <1>8 DEF IsClimb, D, At

\* Of some nodes there is a lowest and a highest one.
LEMMA LowestNode ==
    ASSUME NEW m, NEW h, NEW d, Tree(m, h, d), NEW Bad, Bad \subseteq DOMAIN m, Bad # {}
    PROVE  \E i \in Bad : \A side \in Sides :
              m[i][side] # 0 => m[i][side] \in DOMAIN m /\ m[i][side] \notin Bad
<1> DEFINE T == {Rank(m, h, d, i) : i \in Bad}
<1>1. T \subseteq Nat /\ T # {}
  BY RankFalls
<1>2. PICK t \in T : \A x \in T : t <= x
  <2> HIDE DEF T
  <2>1. QED
    BY <1>1, LeastNatural
<1>3. PICK i \in Bad : t = Rank(m, h, d, i)
  OBVIOUS
<1>4. ASSUME NEW side \in Sides, m[i][side] # 0
      PROVE  m[i][side] \in DOMAIN m /\ m[i][side] \notin Bad
  <2>1. m[i][side] \in DOMAIN m
    BY <1>4, NodesAre DEF Tree
  <2>2. m[m[i][side]].parent = i /\ i # 0
    <3>1. m[m[i][side]].parent = i
      BY <1>4 DEF Tree, Linked
    <3>2. i # 0
      BY NodesAre DEF Tree
    <3>3. QED
      BY <3>1, <3>2
  <2>3. Rank(m, h, d, m[i][side]) < Rank(m, h, d, i) /\ Rank(m, h, d, m[i][side]) \in Nat
        /\ Rank(m, h, d, i) \in Nat
    BY <2>1, <2>2, RankFalls
  <2>4. m[i][side] \in Bad => t <= Rank(m, h, d, m[i][side])
    BY <1>2
  <2>5. \A x, y \in Nat : x < y => ~(y <= x)
    OBVIOUS
  <2>6. QED
    BY <1>3, <2>1, <2>3, <2>4, <2>5
<1>5. QED
  BY <1>4

LEMMA HighestNode ==
    ASSUME NEW m, NEW h, NEW d, Tree(m, h, d), NEW Bad, Bad \subseteq DOMAIN m, Bad # {}
    PROVE  \E i \in Bad :
              m[i].parent # 0 => m[i].parent \in DOMAIN m /\ m[i].parent \notin Bad
<1>1. PICK K \in Nat : \A i \in DOMAIN m : Rank(m, h, d, i) <= K
  BY RanksBounded
<1> DEFINE T == {K - Rank(m, h, d, i) : i \in Bad}
<1>2. \A i \in DOMAIN m : Rank(m, h, d, i) \in Nat /\ K - Rank(m, h, d, i) \in Nat
  <2>1. \A i \in DOMAIN m : Rank(m, h, d, i) \in Nat /\ Rank(m, h, d, i) <= K
    BY <1>1, RankFalls
  <2>2. \A x \in Nat : x <= K => K - x \in Nat
    OBVIOUS
  <2>3. QED
    BY <2>1, <2>2
<1>3. T \subseteq Nat /\ T # {}
  BY <1>2
<1>4. PICK t \in T : \A x \in T : t <= x
  <2> HIDE DEF T
  <2>1. QED
    BY <1>3, LeastNatural
<1>5. PICK i \in Bad : t = K - Rank(m, h, d, i)
  OBVIOUS
<1>6. ASSUME m[i].parent # 0 PROVE m[i].parent \in DOMAIN m /\ m[i].parent \notin Bad
  <2>1. m[i].parent \in DOMAIN m /\ Rank(m, h, d, i) < Rank(m, h, d, m[i].parent)
    BY <1>6, RankFalls
  <2>2. m[i].parent \in Bad => t <= K - Rank(m, h, d, m[i].parent)
    BY <1>4
  <2>3. \A x, y \in Nat : x < y => ~(K - x <= K - y)
    OBVIOUS
  <2>4. QED
    BY <1>2, <1>5, <2>1, <2>2, <2>3
<1>7. QED
  BY <1>6

\* Root goes from parent to parent.
LEMMA RootIs ==
    ASSUME NEW m, NEW h, NEW d, Tree(m, h, d), NEW i \in DOMAIN m
    PROVE  Root(m, i) = IF m[i].parent = 0 THEN i ELSE Root(m, m[i].parent)
<1> DEFINE c == CHOOSE f : IsClimb(m, f)
<1>1. m # <<>>
  OBVIOUS
<1>2. IsClimb(m, c)
  BY <1>1, ClimbExists
<1>3. Root(m, i) = c[i] /\ Root(m, m[i].parent) = c[m[i].parent]
  BY DEF Root, IsClimb
<1> HIDE DEF c
<1>4. c = [j \in DOMAIN m |-> IF m[j].parent = 0 THEN j ELSE c[m[j].parent]]
  BY <1>2 DEF IsClimb
<1>5. c[i] = IF m[i].parent = 0 THEN i ELSE c[m[i].parent]
  BY <1>4
<1>6. QED
  BY <1>3, <1>5

\* Root finds a node without a parent: itself, if it starts there.
LEMMA RootClimbs ==
    ASSUME NEW m, NEW h, NEW d, Tree(m, h, d), NEW from \in DOMAIN m
    PROVE  /\ Root(m, from) \in DOMAIN m
           /\ m[Root(m, from)].parent = 0
           /\ m[from].parent = 0 => Root(m, from) = from
<1> DEFINE D == DOMAIN m
           Bad == {i \in D : ~(Root(m, i) \in D /\ m[Root(m, i)].parent = 0)}
<1>1. \A i \in D : Root(m, i) = IF m[i].parent = 0 THEN i ELSE Root(m, m[i].parent)
  BY RootIs
<1>2. Bad = {}
  <2>1. SUFFICES ASSUME Bad # {} PROVE FALSE
    OBVIOUS
  <2>2. PICK i \in Bad : m[i].parent # 0 => m[i].parent \in D /\ m[i].parent \notin Bad
    <3>1. Bad \subseteq DOMAIN m
      OBVIOUS
    <3> HIDE DEF Bad
    <3>2. QED
      BY <2>1, <3>1, HighestNode
  <2>3. m[i].parent # 0
    BY <1>1
  <2>4. QED
    BY <1>1, <2>2, <2>3
<1>3. QED
  BY <1>1, <1>2

\* The recursive function of BlackHeight.
IsHeight(m, f) == f = [i \in 0..Len(m) |->
    IF i = 0 THEN 1
    ELSE IF f[m[i].left] = 0 \/ f[m[i].left] # f[m[i].right] THEN 0
    ELSE f[m[i].left] + (IF m[i].red THEN 0 ELSE 1)]

\* All ways down have as many black nodes.
LEMMA BlackHeightIs ==
    ASSUME NEW h, Tree(mem, h, 0), RootOffset \in DOMAIN mem
    PROVE  BlackHeight # 0
<1> DEFINE c == CHOOSE f : IsHeight(mem, f)
           D == DOMAIN mem
           N == Len(mem)
           Zero == {i \in D : h[i] = 0}
           Bad == {i \in D : c[i] # h[i]}
<1>1. /\ N \in Nat /\ D = 1..N /\ 0..N = {0} \cup D
      /\ \A i \in D, side \in Sides : mem[i][side] \in {0} \cup D
      /\ h \in [0..N -> Nat] /\ h[0] = 1
      /\ \A i \in D, side \in Sides : h[i] = h[mem[i][side]] + Black(mem, i)
  BY NodesAre DEF Tree, Heights
<1>2. "left" \in Sides /\ "right" \in Sides /\ \A i \in D : Black(mem, i) \in {0, 1}
  BY DEF Sides, Black
<1>3. \A i \in D, side \in Sides : h[i] \in Nat /\ h[mem[i][side]] \in Nat
  BY <1>1
<1>4. Zero = {}
  <2>1. SUFFICES ASSUME Zero # {} PROVE FALSE
    OBVIOUS
  <2>2. PICK i \in Zero : \A side \in Sides :
            mem[i][side] # 0 => mem[i][side] \in D /\ mem[i][side] \notin Zero
    <3>1. Zero \subseteq DOMAIN mem
      OBVIOUS
    <3> HIDE DEF Zero
    <3>2. QED
      BY <2>1, <3>1, LowestNode
  <2>3. h[mem[i].left] = 0
    <3>1. h[i] = 0 /\ h[i] = h[mem[i]["left"]] + Black(mem, i)
      BY <1>1, <1>2
    <3>2. QED
      BY <1>2, <1>3, <3>1
  <2>4. QED
    BY <1>1, <1>2, <2>2, <2>3
<1>5. \A i \in D : h[mem[i].left] # 0 /\ h[mem[i].left] = h[mem[i].right]
                  /\ h[i] = h[mem[i].left] + (IF mem[i].red THEN 0 ELSE 1)
  <2>1. ASSUME NEW i \in D
        PROVE  h[mem[i].left] # 0 /\ h[mem[i].left] = h[mem[i].right]
               /\ h[i] = h[mem[i].left] + (IF mem[i].red THEN 0 ELSE 1)
    <3>1. h[i] = h[mem[i]["left"]] + Black(mem, i) /\ h[i] = h[mem[i]["right"]] + Black(mem, i)
      BY <1>1, <1>2
    <3>2. h[mem[i].left] = h[mem[i].right]
      BY <1>2, <1>3, <3>1
    <3>3. h[mem[i]["left"]] # 0
      BY <1>1, <1>2, <1>4
    <3>4. QED
      BY <3>1, <3>2, <3>3 DEF Black
  <2>2. QED
    BY <2>1
<1>6. IsHeight(mem, h)
  <2>1. h = [i \in 0..N |-> h[i]]
    BY <1>1
  <2>2. \A i \in 0..N : h[i] = IF i = 0 THEN 1
            ELSE IF h[mem[i].left] = 0 \/ h[mem[i].left] # h[mem[i].right] THEN 0
            ELSE h[mem[i].left] + (IF mem[i].red THEN 0 ELSE 1)
    BY <1>1, <1>5
  <2>3. [i \in 0..N |-> h[i]] = [i \in 0..N |-> IF i = 0 THEN 1
            ELSE IF h[mem[i].left] = 0 \/ h[mem[i].left] # h[mem[i].right] THEN 0
            ELSE h[mem[i].left] + (IF mem[i].red THEN 0 ELSE 1)]
    BY <2>2
  <2>4. QED
    BY <2>1, <2>3 DEF IsHeight
<1>7. IsHeight(mem, c)
  BY <1>6
<1>8. BlackHeight = c[RootOffset]
  BY DEF BlackHeight, IsHeight
<1> HIDE DEF c
<1>9. c[0] = 1 /\ \A i \in D : c[i] =
            IF c[mem[i].left] = 0 \/ c[mem[i].left] # c[mem[i].right] THEN 0
            ELSE c[mem[i].left] + (IF mem[i].red THEN 0 ELSE 1)
  <2>1. c = [i \in 0..N |-> IF i = 0 THEN 1
            ELSE IF c[mem[i].left] = 0 \/ c[mem[i].left] # c[mem[i].right] THEN 0
            ELSE c[mem[i].left] + (IF mem[i].red THEN 0 ELSE 1)]
    BY <1>7 DEF IsHeight
  <2>2. \A i \in 0..N : c[i] = IF i = 0 THEN 1
            ELSE IF c[mem[i].left] = 0 \/ c[mem[i].left] # c[mem[i].right] THEN 0
            ELSE c[mem[i].left] + (IF mem[i].red THEN 0 ELSE 1)
    BY <2>1
  <2>3. 0 \in 0..N /\ \A i \in D : i \in 0..N /\ i # 0
    BY <1>1
  <2>4. QED
    BY <2>2, <2>3
<1>10. Bad = {}
  <2>1. SUFFICES ASSUME Bad # {} PROVE FALSE
    OBVIOUS
  <2>2. PICK i \in Bad : \A side \in Sides :
            mem[i][side] # 0 => mem[i][side] \in D /\ mem[i][side] \notin Bad
    <3>1. Bad \subseteq DOMAIN mem
      OBVIOUS
    <3> HIDE DEF Bad
    <3>2. QED
      BY <2>1, <3>1, LowestNode
  <2>3. \A side \in Sides : c[mem[i][side]] = h[mem[i][side]]
    BY <1>1, <1>9, <2>2
  <2>4. c[mem[i].left] = h[mem[i].left] /\ c[mem[i].right] = h[mem[i].right]
    BY <1>2, <2>3
  <2>5. c[i] = h[i]
    BY <1>5, <1>9, <2>4
  <2>6. QED
    BY <2>5
<1>11. QED
  BY <1>4, <1>8, <1>10

-----------------------------------------------------------------------------
(* Rotations.                                                               *)

LEMMA Replaced ==
    ASSUME NEW S, NEW m \in Seq(S), NEW i \in DOMAIN m, NEW r \in S
    PROVE  /\ [m EXCEPT ![i] = r] \in Seq(S)
           /\ Len([m EXCEPT ![i] = r]) = Len(m) /\ DOMAIN [m EXCEPT ![i] = r] = DOMAIN m
           /\ [m EXCEPT ![i] = r][i] = r
           /\ \A x \in DOMAIN m : x # i => [m EXCEPT ![i] = r][x] = m[x]
OBVIOUS

LEMMA OtherSide ==
    ASSUME NEW side \in Sides
    PROVE  /\ Other(side) \in Sides /\ Other(side) # side /\ Other(Other(side)) = side
           /\ \A s \in Sides : s = side \/ s = Other(side)
           /\ \A i, j : (side = "left" => i = j) /\ (side = "right" => i = j) => i = j
BY DEF Sides, Other

\* A node n at "at" goes down to the side; what it does to the links.
Down(m, at, side) == m[at][Other(side)]
Moved(m, at, side) == m[Down(m, at, side)][side]

Turned(m, at, side, q) ==
    /\ q \in Seq(Nodes(Len(m))) /\ Len(q) = Len(m)
    /\ \A x \in DOMAIN m :
          /\ q[x].parent = IF x = at THEN Down(m, at, side)
                           ELSE IF x = Down(m, at, side) THEN m[at].parent
                           ELSE IF x = Moved(m, at, side) THEN at ELSE m[x].parent
          /\ \A s \in Sides :
                q[x][s] = IF x = at /\ s = Other(side) THEN Moved(m, at, side)
                          ELSE IF x = Down(m, at, side) /\ s = side THEN at
                          ELSE IF x = m[at].parent /\ m[x][s] = at THEN Down(m, at, side)
                          ELSE m[x][s]

SameValues(m, q) == \A x \in DOMAIN m : q[x].value = m[x].value
SameColours(m, q) == \A x \in DOMAIN m : q[x].value = m[x].value /\ q[x].red = m[x].red

\* The nodes of a rotation are different.
Apart(m, at, side) ==
    /\ Down(m, at, side) \in DOMAIN m /\ Moved(m, at, side) \in {0} \cup DOMAIN m
    /\ m[at].parent \in {0} \cup DOMAIN m
    /\ Down(m, at, side) # at /\ m[Down(m, at, side)].parent = at
    /\ Moved(m, at, side) # at /\ Moved(m, at, side) # Down(m, at, side)
    /\ m[at].parent # at /\ m[at].parent # Down(m, at, side)
    /\ m[at].parent # 0 => m[at].parent # Moved(m, at, side)
    /\ Moved(m, at, side) # 0 => m[Moved(m, at, side)].parent = Down(m, at, side)
    /\ Down(m, at, side) # 0 /\ at # 0

LEMMA RotationApart ==
    ASSUME NEW m, NEW h, NEW d, Tree(m, h, d), NEW at \in DOMAIN m, NEW side \in Sides,
           Down(m, at, side) # 0
    PROVE  Apart(m, at, side)
<1> DEFINE down == m[at][Other(side)]
           moved == m[down][side]
           up == m[at].parent
           rank(i) == Rank(m, h, d, i)
<1>1. /\ \A i \in DOMAIN m : m[i].parent \in {0} \cup DOMAIN m
      /\ \A i \in DOMAIN m, s \in Sides : m[i][s] \in {0} \cup DOMAIN m
      /\ 0 \notin DOMAIN m
  BY NodesAre DEF Tree
<1>2. \A i \in DOMAIN m, s \in Sides : m[i][s] # 0 => m[m[i][s]].parent = i
  BY DEF Tree, Linked
<1>3. Other(side) \in Sides
  BY OtherSide
<1>4. down \in DOMAIN m /\ m[down].parent = at
  BY <1>1, <1>2, <1>3 DEF Down
<1>5. moved \in {0} \cup DOMAIN m /\ up \in {0} \cup DOMAIN m
      /\ (moved # 0 => m[moved].parent = down)
  BY <1>1, <1>2, <1>4
<1>6. /\ \A i \in DOMAIN m : rank(i) \in Nat
      /\ \A i \in DOMAIN m : m[i].parent # 0 => rank(i) < rank(m[i].parent)
  BY RankFalls
<1> HIDE DEF rank
<1>7. rank(down) < rank(at) /\ rank(down) \in Nat /\ rank(at) \in Nat
  BY <1>1, <1>4, <1>6
<1>8. moved # 0 => rank(moved) < rank(down) /\ rank(moved) \in Nat
  BY <1>1, <1>4, <1>5, <1>6
<1>9. up # 0 => rank(at) < rank(up) /\ rank(up) \in Nat
  BY <1>5, <1>6
<1> HIDE DEF down, moved, up
<1>10. down # at /\ (moved # 0 => moved # at /\ moved # down)
       /\ (up # 0 => up # at /\ up # down /\ (moved # 0 => up # moved))
  BY <1>7, <1>8, <1>9
<1>11. at # 0 /\ down # 0
  BY <1>1, <1>4
<1>12. moved # at /\ moved # down /\ up # at /\ up # down /\ (up # 0 => up # moved)
  BY <1>10, <1>11
<1>13. QED
  BY <1>4, <1>5, <1>10, <1>11, <1>12 DEF Apart, Down, Moved, down, moved, up

\* Rotate does so, also when what it is given has n in a copy only, and not at "at".
LEMMA RotateIs ==
    ASSUME NEW m, NEW h, NEW d, Tree(m, h, d), NEW at \in DOMAIN m, NEW side \in Sides,
           Down(m, at, side) # 0,
           NEW m0 \in Seq(Nodes(Len(m))), Len(m0) = Len(m),
           \A x \in DOMAIN m : x # at => m0[x] = m[x],
           NEW above, m[at].parent # 0 => above = m[m[at].parent]
    PROVE  /\ Turned(m, at, side, Rotate(m0, above, m[at].parent, at, m[at], side))
           /\ SameColours(m, Rotate(m0, above, m[at].parent, at, m[at], side))
<1> DEFINE S == Nodes(Len(m))
           n == m[at]
           down == n[Other(side)]
           child == m0[down]
           moved == child[side]
           up == n.parent
           lower == [m0[moved] EXCEPT !.parent = at]
           upper == [above EXCEPT ![IF at = above.left THEN "left" ELSE "right"] = down]
           risen == [child EXCEPT ![side] = at, !.parent = n.parent]
           sunk == [n EXCEPT ![Other(side)] = moved, !.parent = down]
           m1 == IF moved = 0 THEN m0 ELSE [m0 EXCEPT ![moved] = lower]
           m2 == IF up = 0 THEN m1 ELSE [m1 EXCEPT ![up] = upper]
           m3 == [m2 EXCEPT ![down] = risen]
           q == [m3 EXCEPT ![at] = sunk]
<1>1. Rotate(m0, above, m[at].parent, at, m[at], side) = q
  BY DEF Rotate, Down
<1>2. /\ m \in Seq(S) /\ DOMAIN m = 1..Len(m) /\ DOMAIN m0 = DOMAIN m /\ Len(m) \in Nat
      /\ \A x \in DOMAIN m : m[x] \in S /\ m0[x] \in S
  <2>1. m \in Seq(S)
    BY DEF Tree
  <2>2. QED
    BY <2>1, NodesAre, LenProperties, ElementOfSeq
<1>3. Apart(m, at, side)
  BY RotationApart
<1>4. Other(side) \in Sides /\ Other(side) # side /\ \A s \in Sides : s = side \/ s = Other(side)
  BY OtherSide
<1>5. /\ down = Down(m, at, side) /\ down \in DOMAIN m /\ down # at
      /\ child = m[down] /\ moved = Moved(m, at, side)
      /\ moved \in {0} \cup DOMAIN m /\ moved # at /\ moved # down
      /\ up \in {0} \cup DOMAIN m /\ up # at /\ up # down /\ (up # 0 => up # moved)
  BY <1>3 DEF Apart, Down, Moved
<1>6. moved # 0 => m0[moved] = m[moved] /\ moved \in DOMAIN m
  BY <1>5
<1>7. up # 0 => above = m[up] /\ up \in DOMAIN m
  BY <1>5
<1>8. at \in 0..Len(m) /\ down \in 0..Len(m) /\ moved \in 0..Len(m) /\ up \in 0..Len(m)
  BY <1>2, <1>5
<1>9. child \in S /\ n \in S /\ (moved # 0 => m0[moved] \in S) /\ (up # 0 => above \in S)
  BY <1>2, <1>5, <1>6, <1>7
<1> HIDE DEF n, down, child, moved, up
<1>10. moved # 0 => /\ lower \in S /\ lower.parent = at /\ lower.value = m[moved].value
                    /\ lower.red = m[moved].red /\ \A s \in Sides : lower[s] = m[moved][s]
  BY <1>6, <1>8, <1>9 DEF Nodes, Sides
<1>11. /\ risen \in S /\ risen.parent = up /\ risen.value = child.value /\ risen.red = child.red
       /\ risen[side] = at /\ risen[Other(side)] = child[Other(side)]
  BY <1>8, <1>9 DEF Nodes, Sides, Other, up
<1>12. /\ sunk \in S /\ sunk.parent = down /\ sunk.value = n.value /\ sunk.red = n.red
       /\ sunk[side] = n[side] /\ sunk[Other(side)] = moved
  BY <1>8, <1>9 DEF Nodes, Sides, Other
<1>13. up # 0 => /\ upper \in S /\ upper.parent = above.parent /\ upper.value = above.value
                 /\ upper.red = above.red
                 /\ \A s \in Sides : upper[s] = IF above[s] = at THEN down ELSE above[s]
  <2>1. SUFFICES ASSUME up # 0
                 PROVE  /\ upper \in S /\ upper.parent = above.parent /\ upper.value = above.value
                        /\ upper.red = above.red
                        /\ \A s \in Sides : upper[s] = IF above[s] = at THEN down ELSE above[s]
    OBVIOUS
  <2>2. above \in S /\ above = m[up]
    BY <1>7, <1>9, <2>1
  <2>3. (\E s \in Sides : above[s] = at) /\ (above.left = above.right => above.left = 0) /\ at # 0
    <3>1. \E s \in Sides : m[up][s] = at
      BY <2>1 DEF Tree, Linked, up, n
    <3>2. m[up].left = m[up].right => m[up].left = 0
      BY <1>7, <2>1 DEF Tree, Linked
    <3>3. QED
      BY <1>2, <2>2, <3>1, <3>2
  <2>4. CASE at = above.left
    BY <1>8, <2>2, <2>3, <2>4 DEF Nodes, Sides
  <2>5. CASE at # above.left
    BY <1>8, <2>2, <2>3, <2>5 DEF Nodes, Sides
  <2>6. QED
    BY <2>4, <2>5
<1> HIDE DEF lower, upper, risen, sunk
<1>14. /\ m1 \in Seq(S) /\ Len(m1) = Len(m) /\ DOMAIN m1 = DOMAIN m
       /\ moved # 0 => m1[moved] = lower
       /\ \A x \in DOMAIN m : x # moved => m1[x] = m0[x]
  <2>1. CASE moved = 0
    BY <1>2, <2>1
  <2>2. CASE moved # 0
    <3>1. m0 \in Seq(S) /\ moved \in DOMAIN m0 /\ lower \in S
      BY <1>2, <1>6, <1>10, <2>2
    <3>2. QED
      BY <1>2, <2>2, <3>1, Replaced
  <2>3. QED
    BY <2>1, <2>2
<1> HIDE DEF m1
<1>15. /\ m2 \in Seq(S) /\ Len(m2) = Len(m) /\ DOMAIN m2 = DOMAIN m
       /\ up # 0 => m2[up] = upper
       /\ \A x \in DOMAIN m : x # up => m2[x] = m1[x]
  <2>1. CASE up = 0
    BY <1>2, <1>14, <2>1
  <2>2. CASE up # 0
    <3>1. up \in DOMAIN m1 /\ upper \in S
      BY <1>7, <1>13, <1>14, <2>2
    <3>2. QED
      BY <1>14, <2>2, <3>1, Replaced
  <2>3. QED
    BY <2>1, <2>2
<1> HIDE DEF m2
<1>16. /\ m3 \in Seq(S) /\ Len(m3) = Len(m) /\ DOMAIN m3 = DOMAIN m /\ m3[down] = risen
       /\ \A x \in DOMAIN m : x # down => m3[x] = m2[x]
  BY <1>5, <1>11, <1>15, Replaced
<1> HIDE DEF m3
<1>17. /\ q \in Seq(S) /\ Len(q) = Len(m) /\ q[at] = sunk
       /\ \A x \in DOMAIN m : x # at => q[x] = m3[x]
  BY <1>12, <1>16, Replaced
<1> HIDE DEF q
<1>18. /\ q[at] = sunk /\ q[down] = risen
       /\ moved # 0 => q[moved] = lower
       /\ up # 0 => q[up] = upper
       /\ \A x \in DOMAIN m : x # at /\ x # down /\ x # moved /\ x # up => q[x] = m[x]
  BY <1>5, <1>6, <1>7, <1>14, <1>15, <1>16, <1>17
<1>19. ASSUME NEW x \in DOMAIN m
       PROVE  /\ q[x].value = m[x].value /\ q[x].red = m[x].red
              /\ q[x].parent = IF x = at THEN down ELSE IF x = down THEN up
                               ELSE IF x = moved THEN at ELSE m[x].parent
              /\ \A s \in Sides :
                    q[x][s] = IF x = at /\ s = Other(side) THEN moved
                              ELSE IF x = down /\ s = side THEN at
                              ELSE IF x = up /\ m[x][s] = at THEN down
                              ELSE m[x][s]
  <2>1. CASE x = at
    BY <1>4, <1>5, <1>12, <1>18, <2>1 DEF n
  <2>2. CASE x = down
    BY <1>4, <1>5, <1>11, <1>18, <2>2
  <2>3. x # 0
    BY <1>2
  <2>4. CASE x = moved
    BY <1>4, <1>5, <1>10, <1>18, <2>3, <2>4
  <2>5. CASE x = up
    BY <1>4, <1>5, <1>7, <1>13, <1>18, <2>3, <2>5
  <2>6. CASE x # at /\ x # down /\ x # moved /\ x # up
    BY <1>18, <2>6
  <2>7. QED
    BY <2>1, <2>2, <2>4, <2>5, <2>6
<1>20. QED
  BY <1>1, <1>5, <1>17, <1>19 DEF Turned, SameColours, up, n

\* After a rotation the links up and down are each other's.
LEMMA TurnedIsLinked ==
    ASSUME NEW m, m \in Seq(Nodes(Len(m))), Linked(m), NEW at \in DOMAIN m, NEW side \in Sides,
           Apart(m, at, side), NEW q, Turned(m, at, side, q)
    PROVE  Linked(q)
<1> DEFINE down == Down(m, at, side)
           moved == Moved(m, at, side)
           up == m[at].parent
           opp == Other(side)
<1>1. /\ DOMAIN m = 1..Len(m) /\ DOMAIN q = DOMAIN m /\ Len(m) \in Nat /\ 0 \notin DOMAIN m
      /\ \A x \in DOMAIN m, s \in Sides : m[x][s] \in {0} \cup DOMAIN m
      /\ \A x \in DOMAIN m : m[x].parent \in {0} \cup DOMAIN m
  BY NodesAre DEF Turned
<1>2. /\ opp \in Sides /\ opp # side /\ \A s \in Sides : s = side \/ s = opp
  BY OtherSide
<1>3. /\ down \in DOMAIN m /\ moved \in {0} \cup DOMAIN m /\ up \in {0} \cup DOMAIN m
      /\ down # at /\ m[down].parent = at /\ moved # at /\ moved # down
      /\ up # at /\ up # down /\ (up # 0 => up # moved)
      /\ moved # 0 => m[moved].parent = down
      /\ down # 0 /\ at # 0
      /\ m[at][opp] = down /\ m[down][side] = moved
  BY DEF Apart, Down, Moved
<1>4. /\ \A x \in DOMAIN m : m[x].parent # x
      /\ \A x \in DOMAIN m : m[x].parent # 0 => \E s \in Sides : m[m[x].parent][s] = x
      /\ \A x \in DOMAIN m, s \in Sides : m[x][s] # 0 => m[m[x][s]].parent = x
      /\ \A x \in DOMAIN m, s, t \in Sides : s # t /\ m[x][s] # 0 => m[x][s] # m[x][t]
  BY DEF Linked, Sides
<1>5. /\ \A x \in DOMAIN m :
            q[x].parent = IF x = at THEN down ELSE IF x = down THEN up
                          ELSE IF x = moved THEN at ELSE m[x].parent
      /\ \A x \in DOMAIN m, s \in Sides :
            q[x][s] = IF x = at /\ s = opp THEN moved
                      ELSE IF x = down /\ s = side THEN at
                      ELSE IF x = up /\ m[x][s] = at THEN down
                      ELSE m[x][s]
  BY DEF Turned
<1> HIDE DEF down, moved, up, opp
<1>6. ASSUME NEW x \in DOMAIN m PROVE q[x].parent # x
  BY <1>3, <1>4, <1>5
<1>7. ASSUME NEW x \in DOMAIN m, q[x].parent # 0
      PROVE  \E s \in Sides : q[q[x].parent][s] = x
  <2>1. CASE x = at
    BY <1>3, <1>5, <2>1
  <2>2. CASE x = down
    <3>1. q[x].parent = up /\ up # 0 /\ up \in DOMAIN m
      BY <1>3, <1>5, <1>7, <2>2
    <3>2. PICK s \in Sides : m[up][s] = at
      BY <1>4, <3>1 DEF up
    <3>3. q[up][s] = down
      BY <1>3, <1>5, <3>1, <3>2
    <3>4. QED
      BY <2>2, <3>1, <3>3
  <2>3. CASE x = moved
    BY <1>1, <1>2, <1>3, <1>5, <2>3
  <2>4. CASE x # at /\ x # down /\ x # moved
    <3>1. q[x].parent = m[x].parent /\ m[x].parent # 0 /\ m[x].parent \in DOMAIN m
      BY <1>1, <1>5, <1>7, <2>4
    <3>2. PICK s \in Sides : m[m[x].parent][s] = x
      BY <1>4, <3>1
    <3>3. q[m[x].parent][s] = x
      BY <1>3, <1>5, <2>4, <3>1, <3>2
    <3>4. QED
      BY <3>1, <3>3
  <2>5. QED
    BY <2>1, <2>2, <2>3, <2>4
<1>8. ASSUME NEW x \in DOMAIN m, NEW s \in Sides, q[x][s] # 0
      PROVE  q[q[x][s]].parent = x
  <2>1. CASE x = at /\ s = opp
    BY <1>3, <1>5, <1>8, <2>1
  <2>2. CASE x = down /\ s = side
    BY <1>3, <1>5, <2>2
  <2>3. CASE ~(x = at /\ s = opp) /\ ~(x = down /\ s = side) /\ x = up /\ m[x][s] = at
    BY <1>3, <1>5, <2>3
  <2>4. CASE ~(x = at /\ s = opp) /\ ~(x = down /\ s = side) /\ ~(x = up /\ m[x][s] = at)
    <3>1. q[x][s] = m[x][s] /\ m[x][s] # 0 /\ m[x][s] \in DOMAIN m /\ m[m[x][s]].parent = x
      BY <1>1, <1>4, <1>5, <1>8, <2>4
    <3>2. m[x][s] # at
      BY <2>4, <3>1 DEF up
    <3>3. m[x][s] # down
      BY <1>2, <1>3, <1>4, <2>4, <3>1
    <3>4. m[x][s] # moved
      BY <1>2, <1>3, <1>4, <2>4, <3>1
    <3>5. QED
      BY <1>5, <3>1, <3>2, <3>3, <3>4
  <2>5. QED
    BY <2>1, <2>2, <2>3, <2>4
<1>9. ASSUME NEW x \in DOMAIN m, q[x].left = q[x].right PROVE q[x].left = 0
  <2>1. "left" \in Sides /\ "right" \in Sides
    BY DEF Sides
  <2>2. SUFFICES ASSUME q[x].left # 0 PROVE FALSE
    OBVIOUS
  <2>3. \A s, t \in Sides : s # t => q[x][s] = q[x][t] /\ q[x][s] # 0
    BY <1>9, <2>2 DEF Sides
  <2>4. q[x][side] = q[x][opp] /\ q[x][side] # 0
    BY <1>2, <2>3
  <2>5. CASE x = at
    <3>1. q[x][side] = m[x][side] /\ q[x][opp] = moved
      BY <1>2, <1>3, <1>5, <2>5
    <3>2. m[x][side] = moved /\ moved # 0
      BY <2>4, <3>1
    <3>3. m[moved].parent = at
      BY <1>4, <2>5, <3>2
    <3>4. QED
      BY <1>3, <3>2, <3>3
  <2>6. CASE x = down
    <3>1. q[x][side] = at /\ q[x][opp] = m[x][opp]
      BY <1>2, <1>3, <1>5, <2>6
    <3>2. m[down][opp] = at
      BY <2>4, <2>6, <3>1
    <3>3. m[at].parent = down
      BY <1>2, <1>3, <1>4, <3>2
    <3>4. QED
      BY <1>3, <3>3 DEF up
  <2>7. CASE x # at /\ x # down
    <3>1. \A s \in Sides : q[x][s] = IF x = up /\ m[x][s] = at THEN down ELSE m[x][s]
      BY <1>5, <2>7
    <3>2. \A s \in Sides : m[x][s] # down
      BY <1>3, <1>4, <2>7
    <3>3. m[x][side] = m[x][opp] /\ m[x][side] # 0
      BY <1>2, <1>3, <2>4, <3>1, <3>2
    <3>4. QED
      BY <1>2, <1>4, <3>3
  <2>8. QED
    BY <2>5, <2>6, <2>7
<1>10. QED
  BY <1>1, <1>6, <1>7, <1>8, <1>9 DEF Linked

\* The black heights after a rotation: only the two nodes that turn have new ones.
LEMMA TurnedHeights ==
    ASSUME NEW m, NEW h, NEW d, Tree(m, h, d), NEW at \in DOMAIN m, NEW side \in Sides,
           Apart(m, at, side), NEW q, Turned(m, at, side, q),
           NEW h2 \in [0..Len(m) -> Nat],
           \A x \in 0..Len(m) : x # at /\ x # Down(m, at, side) => h2[x] = h[x],
           \A x \in DOMAIN m : x # at /\ x # Down(m, at, side) => q[x].red = m[x].red,
           h2[at] = h[m[at][side]] + Black(q, at),
           h2[at] = h[Moved(m, at, side)] + Black(q, at),
           h2[Down(m, at, side)] = h2[at] + Black(q, Down(m, at, side)),
           h2[Down(m, at, side)] = h[m[Down(m, at, side)][Other(side)]] + Black(q, Down(m, at, side)),
           m[at].parent # 0 => h2[Down(m, at, side)] = h[at]
    PROVE  Heights(q, h2)
<1> DEFINE down == Down(m, at, side)
           moved == Moved(m, at, side)
           up == m[at].parent
           opp == Other(side)
<1>1. /\ DOMAIN m = 1..Len(m) /\ DOMAIN q = DOMAIN m /\ Len(m) \in Nat /\ 0 \notin DOMAIN m
      /\ \A x \in DOMAIN m, s \in Sides : m[x][s] \in {0} \cup DOMAIN m
      /\ {0} \cup DOMAIN m = 0..Len(m)
  BY NodesAre DEF Turned, Tree
<1>2. /\ opp \in Sides /\ opp # side /\ \A s \in Sides : s = side \/ s = opp
  BY OtherSide
<1>3. /\ down \in DOMAIN m /\ moved \in {0} \cup DOMAIN m
      /\ down # at /\ m[down].parent = at /\ moved # at /\ moved # down
      /\ up # at /\ up # down
      /\ down # 0 /\ at # 0
      /\ m[at][opp] = down /\ m[down][side] = moved
  BY DEF Apart, Down, Moved
<1>4. /\ \A x \in DOMAIN m, s \in Sides : m[x][s] # 0 => m[m[x][s]].parent = x
      /\ \A x \in DOMAIN m, s, t \in Sides : s # t /\ m[x][s] # 0 => m[x][s] # m[x][t]
  BY DEF Tree, Linked, Sides
<1>5. \A x \in DOMAIN m, s \in Sides :
            q[x][s] = IF x = at /\ s = opp THEN moved
                      ELSE IF x = down /\ s = side THEN at
                      ELSE IF x = up /\ m[x][s] = at THEN down
                      ELSE m[x][s]
  BY DEF Turned
<1>6. h[0] = 1 /\ \A x \in DOMAIN m, s \in Sides : h[x] = h[m[x][s]] + Black(m, x)
  BY DEF Tree, Heights
<1>7. /\ \A x \in 0..Len(m) : x # at /\ x # down => h2[x] = h[x]
      /\ \A x \in DOMAIN m : x # at /\ x # down => Black(q, x) = Black(m, x)
  BY DEF Black
<1> HIDE DEF down, moved, up, opp
<1>8. ASSUME NEW x \in DOMAIN m, NEW s \in Sides PROVE h2[x] = h2[q[x][s]] + Black(q, x)
  <2>1. CASE x = at /\ s = opp
    BY <1>1, <1>3, <1>5, <1>7, <2>1 DEF moved
  <2>2. CASE x = at /\ s = side
    <3>1. q[x][s] = m[at][side] /\ m[at][side] # at /\ m[at][side] # down
      <4>1. q[x][s] = m[at][side]
        BY <1>2, <1>3, <1>5, <2>2
      <4>2. m[at][side] # at
        BY <1>3, <1>4 DEF up
      <4>3. m[at][side] # down
        BY <1>2, <1>3, <1>4
      <4>4. QED
        BY <4>1, <4>2, <4>3
    <3>2. h2[m[at][side]] = h[m[at][side]]
      BY <1>1, <1>7, <3>1
    <3>3. QED
      BY <2>2, <3>1, <3>2
  <2>3. CASE x = down /\ s = side
    BY <1>2, <1>3, <1>5, <2>3 DEF down
  <2>4. CASE x = down /\ s = opp
    <3>1. q[x][s] = m[down][opp] /\ m[down][opp] # down /\ m[down][opp] # at
      BY <1>2, <1>3, <1>4, <1>5, <2>4 DEF up
    <3>2. h2[m[down][opp]] = h[m[down][opp]]
      BY <1>1, <1>2, <1>3, <1>7, <3>1
    <3>3. h2[down] = h[m[down][opp]] + Black(q, down)
      BY DEF down, opp
    <3>4. QED
      BY <2>4, <3>1, <3>2, <3>3
  <2>5. CASE x # at /\ x # down
    <3>1. h2[x] = h[x] /\ Black(q, x) = Black(m, x) /\ h[x] = h[m[x][s]] + Black(m, x)
      BY <1>1, <1>6, <1>7, <2>5
    <3>2. m[x][s] # down
      BY <1>3, <1>4, <2>5
    <3>3. CASE x = up /\ m[x][s] = at
      <4>1. q[x][s] = down /\ up # 0
        BY <1>1, <1>5, <2>5, <3>3
      <4>2. h2[down] = h[at]
        BY <4>1 DEF up, down
      <4>3. QED
        BY <3>1, <3>3, <4>1, <4>2
    <3>4. CASE ~(x = up /\ m[x][s] = at)
      <4>1. q[x][s] = m[x][s]
        BY <1>5, <2>5, <3>4
      <4>2. m[x][s] # at
        BY <1>3, <1>4, <3>4 DEF up
      <4>3. h2[m[x][s]] = h[m[x][s]]
        BY <1>1, <1>7, <3>2, <4>2
      <4>4. QED
        BY <3>1, <4>1, <4>3
    <3>5. QED
      BY <3>3, <3>4
  <2>6. QED
    BY <1>2, <2>1, <2>2, <2>3, <2>4, <2>5
<1>9. h2[0] = 1
  BY <1>1, <1>3, <1>6, <1>7
<1>10. QED
  BY <1>1, <1>8, <1>9 DEF Heights

\* Two red nodes turned: the same black heights, and now the one that was above is the
\* red node under a red one.
LEMMA InnerTree ==
    ASSUME NEW m, NEW h, NEW d, Tree(m, h, d), NEW at \in DOMAIN m, NEW side \in Sides,
           d = Down(m, at, side), d # 0, m[at].red, m[d].red,
           NEW q, Turned(m, at, side, q), SameColours(m, q)
    PROVE  Tree(q, h, at)
<1> DEFINE moved == Moved(m, at, side)
           up == m[at].parent
           opp == Other(side)
<1>1. Apart(m, at, side)
  BY RotationApart
<1>2. /\ DOMAIN m = 1..Len(m) /\ DOMAIN q = DOMAIN m /\ 0 \notin DOMAIN m
      /\ q \in Seq(Nodes(Len(q))) /\ Len(q) = Len(m) /\ m \in Seq(Nodes(Len(m)))
      /\ \A x \in DOMAIN m, s \in Sides : m[x][s] \in {0} \cup DOMAIN m
      /\ \A x \in DOMAIN m : m[x] \in Nodes(Len(m))
      /\ {0} \cup DOMAIN m = 0..Len(m)
  BY NodesAre DEF Turned, Tree
<1>3. /\ opp \in Sides /\ opp # side
  BY OtherSide
<1>4. /\ d \in DOMAIN m /\ moved \in {0} \cup DOMAIN m /\ d # at /\ m[d].parent = at
      /\ moved # at /\ moved # d /\ up # at /\ up # d
      /\ moved # 0 => m[moved].parent = d
      /\ m[at][opp] = d /\ m[d][side] = moved
  BY <1>1 DEF Apart, Down, Moved
<1>5. /\ \A x \in DOMAIN m : q[x].red = m[x].red /\ Black(q, x) = Black(m, x)
      /\ Black(m, at) = 0 /\ Black(m, d) = 0
  BY <1>4 DEF SameColours, Black
<1>6. /\ h \in [0..Len(m) -> Nat]
      /\ \A x \in DOMAIN m, s \in Sides : h[x] = h[m[x][s]] + Black(m, x)
  BY DEF Tree, Heights
<1>7. Linked(q)
  BY <1>1, <1>2, TurnedIsLinked DEF Tree
<1>8. Heights(q, h)
  <2>1. h[at] = h[m[at][side]] + Black(q, at) /\ h[at] = h[d] + Black(q, at)
    BY <1>3, <1>4, <1>5, <1>6
  <2>2. h[d] = h[m[d][side]] + Black(q, d) /\ h[d] = h[m[d][opp]] + Black(q, d)
    BY <1>3, <1>4, <1>5, <1>6
  <2>3. h[at] \in Nat /\ h[d] \in Nat /\ h[moved] \in Nat
    BY <1>2, <1>4, <1>6
  <2>4. Black(q, at) = 0 /\ Black(q, d) = 0
    BY <1>4, <1>5
  <2>5. h[at] = h[moved] + Black(q, at) /\ h[d] = h[at] + Black(q, d) /\ h[d] = h[at]
    BY <1>4, <2>1, <2>2, <2>3, <2>4
  <2>6. \A x \in DOMAIN m : x # at /\ x # Down(m, at, side) => q[x].red = m[x].red
    BY <1>5
  <2> HIDE DEF moved, opp
  <2>7. /\ h[at] = h[m[at][side]] + Black(q, at)
        /\ h[at] = h[Moved(m, at, side)] + Black(q, at)
        /\ h[Down(m, at, side)] = h[at] + Black(q, Down(m, at, side))
        /\ h[Down(m, at, side)] = h[m[Down(m, at, side)][Other(side)]] + Black(q, Down(m, at, side))
        /\ m[at].parent # 0 => h[Down(m, at, side)] = h[at]
    BY <2>1, <2>2, <2>5 DEF moved, opp
  <2>8. QED
    BY <1>1, <1>6, <2>6, <2>7, TurnedHeights
<1>9. Coloured(q, at)
  <2>1. SUFFICES ASSUME NEW x \in DOMAIN m, m[x].red
                 PROVE  q[x].parent # 0 /\ (x # at => ~q[q[x].parent].red)
    BY <1>2, <1>5 DEF Coloured
  <2>2. \A y \in DOMAIN m : m[y].red =>
           m[y].parent # 0 /\ m[y].parent \in DOMAIN m /\ (y # d => ~m[m[y].parent].red)
    BY <1>2, NodesAre DEF Tree, Coloured
  <2>3. q[x].parent = IF x = at THEN d ELSE IF x = d THEN up ELSE IF x = moved THEN at ELSE m[x].parent
    BY DEF Turned
  <2>4. CASE x = at
    BY <1>2, <1>4, <2>3, <2>4
  <2>5. CASE x = d
    BY <1>4, <1>5, <2>2, <2>3, <2>5
  <2>6. x # moved
    BY <1>2, <1>4, <2>1, <2>2
  <2>7. CASE x # at /\ x # d
    BY <1>5, <2>1, <2>2, <2>3, <2>6, <2>7
  <2>8. QED
    BY <2>4, <2>5, <2>7
<1>10. QED
  BY <1>2, <1>6, <1>7, <1>8, <1>9 DEF Tree

\* The two nodes swap colours.
Swapped(m, p, g, q) ==
    \A x \in DOMAIN m : q[x].red = IF x = p THEN FALSE ELSE IF x = g THEN TRUE ELSE m[x].red

\* The outer rotation, with the colours swapped, leaves no red node under a red one.
LEMMA OuterTree ==
    ASSUME NEW m, NEW h, NEW d, Tree(m, h, d), NEW at \in DOMAIN m, NEW side \in Sides,
           Down(m, at, side) # 0, m[Down(m, at, side)].red,
           d = m[Down(m, at, side)][Other(side)],
           m[at][side] # 0 => ~m[m[at][side]].red,
           NEW q, Turned(m, at, side, q), Swapped(m, Down(m, at, side), at, q)
    PROVE  \E h2 : Tree(q, h2, 0)
<1> DEFINE moved == Moved(m, at, side)
           down == Down(m, at, side)
           up == m[at].parent
           opp == Other(side)
           h2 == [h EXCEPT ![at] = h[down], ![down] = h[at]]
<1>1. Apart(m, at, side)
  BY RotationApart
<1>2. /\ DOMAIN m = 1..Len(m) /\ DOMAIN q = DOMAIN m /\ 0 \notin DOMAIN m
      /\ q \in Seq(Nodes(Len(q))) /\ Len(q) = Len(m) /\ m \in Seq(Nodes(Len(m)))
      /\ \A x \in DOMAIN m, s \in Sides : m[x][s] \in {0} \cup DOMAIN m
      /\ \A x \in DOMAIN m : m[x].parent \in {0} \cup DOMAIN m
      /\ {0} \cup DOMAIN m = 0..Len(m)
  BY NodesAre DEF Turned, Tree
<1>3. /\ opp \in Sides /\ opp # side /\ \A s \in Sides : s = side \/ s = opp
  BY OtherSide
<1>4. /\ down \in DOMAIN m /\ moved \in {0} \cup DOMAIN m /\ down # at /\ m[down].parent = at
      /\ moved # at /\ moved # down /\ up # at /\ up # down
      /\ moved # 0 => m[moved].parent = down
      /\ m[at][opp] = down /\ m[down][side] = moved
  BY <1>1 DEF Apart, Down, Moved
<1>5. /\ \A x \in DOMAIN m : m[x].parent # x
      /\ \A x \in DOMAIN m : m[x].parent # 0 => \E s \in Sides : m[m[x].parent][s] = x
      /\ \A x \in DOMAIN m, s \in Sides : m[x][s] # 0 => m[m[x][s]].parent = x
      /\ \A x \in DOMAIN m, s, t \in Sides : s # t /\ m[x][s] # 0 => m[x][s] # m[x][t]
  BY DEF Tree, Linked, Sides
<1>6. /\ h \in [0..Len(m) -> Nat]
      /\ \A x \in DOMAIN m, s \in Sides : h[x] = h[m[x][s]] + Black(m, x)
  BY DEF Tree, Heights
<1>7. \A y \in DOMAIN m : m[y].red =>
           m[y].parent # 0 /\ m[y].parent \in DOMAIN m /\ (y # d => ~m[m[y].parent].red)
  BY <1>2 DEF Tree, Coloured
<1>8. d # down /\ (moved # 0 => moved # d) /\ d = m[down][opp]
  BY <1>3, <1>4, <1>5
<1>9. ~m[at].red /\ m[down].red
  BY <1>4, <1>7, <1>8
<1>10. moved # 0 => ~m[moved].red
  BY <1>4, <1>7, <1>8, <1>9
<1>11. Linked(q)
  BY <1>1, <1>2, TurnedIsLinked DEF Tree
<1>12. Black(m, at) = 1 /\ Black(m, down) = 0 /\ Black(q, at) = 0 /\ Black(q, down) = 1
  BY <1>4, <1>9 DEF Black, Swapped, down
<1> HIDE DEF down, moved, opp, up
<1>13. /\ h2 \in [0..Len(m) -> Nat] /\ h2[at] = h[down] /\ h2[down] = h[at]
       /\ \A x \in 0..Len(m) : x # at /\ x # down => h2[x] = h[x]
  BY <1>2, <1>4, <1>6
<1> HIDE DEF h2
<1>14. Heights(q, h2)
  <2>1. h[at] = h[down] + 1 /\ h[at] = h[m[at][side]] + 1
    BY <1>3, <1>4, <1>6, <1>12
  <2>2. h[down] = h[moved] + 0 /\ h[down] = h[m[down][opp]] + 0
    BY <1>3, <1>4, <1>6, <1>12
  <2>3. /\ h[at] \in Nat /\ h[down] \in Nat /\ h[moved] \in Nat
        /\ h[m[at][side]] \in Nat /\ h[m[down][opp]] \in Nat
    BY <1>2, <1>3, <1>4, <1>6
  <2>4. /\ h2[at] = h[m[at][side]] + Black(q, at)
        /\ h2[at] = h[moved] + Black(q, at)
        /\ h2[down] = h2[at] + Black(q, down)
        /\ h2[down] = h[m[down][opp]] + Black(q, down)
        /\ up # 0 => h2[down] = h[at]
    BY <1>12, <1>13, <2>1, <2>2, <2>3
  <2>5. \A x \in DOMAIN m : x # at /\ x # down => q[x].red = m[x].red
    BY DEF Swapped, down
  <2>6. /\ \A x \in 0..Len(m) : x # at /\ x # Down(m, at, side) => h2[x] = h[x]
        /\ \A x \in DOMAIN m : x # at /\ x # Down(m, at, side) => q[x].red = m[x].red
    BY <1>13, <2>5 DEF down
  <2>7. /\ h2[at] = h[m[at][side]] + Black(q, at)
        /\ h2[at] = h[Moved(m, at, side)] + Black(q, at)
        /\ h2[Down(m, at, side)] = h2[at] + Black(q, Down(m, at, side))
        /\ h2[Down(m, at, side)] = h[m[Down(m, at, side)][Other(side)]] + Black(q, Down(m, at, side))
        /\ m[at].parent # 0 => h2[Down(m, at, side)] = h[at]
    BY <2>4 DEF down, moved, opp, up
  <2>8. QED
    BY <1>1, <1>13, <2>6, <2>7, TurnedHeights
<1>15. \A x \in DOMAIN m : q[x].red = IF x = down THEN FALSE ELSE IF x = at THEN TRUE ELSE m[x].red
  BY DEF Swapped, down
<1>16. Coloured(q, 0)
  <2>1. SUFFICES ASSUME NEW x \in DOMAIN m, q[x].red
                 PROVE  q[x].parent # 0 /\ ~q[q[x].parent].red
    BY <1>2 DEF Coloured
  <2>2. q[x].parent = IF x = at THEN down ELSE IF x = down THEN up
                      ELSE IF x = moved THEN at ELSE m[x].parent
    BY DEF Turned, down, moved, up
  <2>3. x # down
    BY <1>4, <1>15, <2>1
  <2>4. CASE x = at
    <3>1. q[x].parent = down /\ down # 0
      BY <1>2, <1>4, <2>2, <2>4
    <3>2. q[down].red = FALSE
      BY <1>4, <1>15
    <3>3. QED
      BY <3>1, <3>2
  <2>5. CASE x # at
    <3>1. m[x].red /\ x # moved
      BY <1>2, <1>10, <1>15, <2>1, <2>3, <2>5
    <3>2. q[x].parent = m[x].parent /\ m[x].parent # 0 /\ m[x].parent \in DOMAIN m
      BY <1>7, <2>2, <2>3, <2>5, <3>1
    <3>3. m[x].parent # at
      <4>1. SUFFICES ASSUME m[x].parent = at PROVE FALSE
        OBVIOUS
      <4>2. PICK s \in Sides : m[at][s] = x
        BY <1>5, <3>2, <4>1
      <4>3. s = side
        BY <1>3, <1>4, <2>3, <4>2
      <4>4. QED
        BY <1>2, <3>1, <4>2, <4>3
    <3>4. CASE m[x].parent = down
      BY <1>15, <1>4, <3>2, <3>4
    <3>5. CASE m[x].parent # down
      <4>1. x # d
        BY <1>2, <1>3, <1>4, <1>5, <1>8, <3>5
      <4>2. QED
        BY <1>7, <1>15, <3>1, <3>2, <3>3, <3>5, <4>1
    <3>6. QED
      BY <3>4, <3>5
  <2>6. QED
    BY <2>4, <2>5
<1>17. Tree(q, h2, 0)
  BY <1>2, <1>11, <1>13, <1>14, <1>16 DEF Tree
<1>18. QED
  BY <1>17

-----------------------------------------------------------------------------
(* The other changes of a tree.                                             *)

SameLinks(m, q) ==
    /\ q \in Seq(Nodes(Len(m))) /\ Len(q) = Len(m)
    /\ \A x \in DOMAIN m : /\ q[x].parent = m[x].parent
                           /\ \A s \in Sides : q[x][s] = m[x][s]

LEMMA SameLinksIsLinked ==
    ASSUME NEW m, m \in Seq(Nodes(Len(m))), Linked(m), NEW q, SameLinks(m, q)
    PROVE  Linked(q) /\ q \in Seq(Nodes(Len(q))) /\ DOMAIN q = DOMAIN m
<1>1. /\ q \in Seq(Nodes(Len(m))) /\ Len(q) = Len(m)
      /\ \A x \in DOMAIN m : q[x].parent = m[x].parent
      /\ \A x \in DOMAIN m, s \in Sides : q[x][s] = m[x][s]
  BY DEF SameLinks
<1>2. DOMAIN q = DOMAIN m /\ q \in Seq(Nodes(Len(q)))
  BY <1>1
<1>3. /\ \A x \in DOMAIN m : m[x].parent \in {0} \cup DOMAIN m
      /\ \A x \in DOMAIN m, s \in Sides : m[x][s] \in {0} \cup DOMAIN m
  BY NodesAre
<1>4. ASSUME NEW x \in DOMAIN m
      PROVE  /\ q[x].parent # x
             /\ q[x].parent # 0 => \E s \in Sides : q[q[x].parent][s] = x
             /\ \A s \in Sides : q[x][s] # 0 => q[q[x][s]].parent = x
  BY <1>1, <1>3 DEF Linked
<1>5. ASSUME NEW x \in DOMAIN m, q[x].left = q[x].right PROVE q[x].left = 0
  <2>1. q[x].left = m[x].left /\ q[x].right = m[x].right
    BY <1>1 DEF Sides
  <2>2. QED
    BY <1>5, <2>1 DEF Linked
<1>6. QED
  BY <1>2, <1>4, <1>5 DEF Linked

\* Two siblings turn black and their parent red, unless it is the root.
Repainted(m, p, u, g, q) ==
    \A x \in DOMAIN m :
        q[x].red = IF x = p \/ x = u THEN FALSE
                   ELSE IF x = g THEN m[g].parent # 0 ELSE m[x].red

\* A red parent and its red sibling turn black, and the grandparent red, unless it is the
\* root: now the grandparent is the one that may be red under a red node.
LEMMA RecolouredTree ==
    ASSUME NEW m, NEW h, NEW d, Tree(m, h, d), NEW p \in DOMAIN m, NEW g \in DOMAIN m,
           NEW side \in Sides, d # 0, d \in DOMAIN m, m[d].parent = p, m[p].red,
           NEW u \in DOMAIN m, m[g][side] = p, m[g][Other(side)] = u, m[u].red,
           NEW q, SameLinks(m, q), Repainted(m, p, u, g, q)
    PROVE  \E h2 : /\ Tree(q, h2, g)
                   /\ m[g].parent = 0 \/ ~m[m[g].parent].red => Tree(q, h2, 0)
<1> DEFINE up == m[g].parent
           opp == Other(side)
           h2 == [x \in 0..Len(m) |-> IF x = p \/ x = u \/ (x = g /\ up = 0) THEN h[x] + 1 ELSE h[x]]
<1>1. /\ DOMAIN m = 1..Len(m) /\ 0 \notin DOMAIN m
      /\ m \in Seq(Nodes(Len(m)))
      /\ \A x \in DOMAIN m, s \in Sides : m[x][s] \in {0} \cup DOMAIN m
      /\ \A x \in DOMAIN m : m[x].parent \in {0} \cup DOMAIN m
      /\ {0} \cup DOMAIN m = 0..Len(m)
  BY NodesAre DEF Tree
<1>2. DOMAIN q = DOMAIN m /\ Linked(q) /\ q \in Seq(Nodes(Len(q))) /\ Len(q) = Len(m)
  BY <1>1, SameLinksIsLinked DEF Tree, SameLinks
<1>3. /\ opp \in Sides /\ opp # side /\ \A s \in Sides : s = side \/ s = opp
  BY OtherSide
<1>4. /\ \A x \in DOMAIN m : m[x].parent # x
      /\ \A x \in DOMAIN m : m[x].parent # 0 => \E s \in Sides : m[m[x].parent][s] = x
      /\ \A x \in DOMAIN m, s \in Sides : m[x][s] # 0 => m[m[x][s]].parent = x
      /\ \A x \in DOMAIN m, s, t \in Sides : s # t /\ m[x][s] # 0 => m[x][s] # m[x][t]
  BY DEF Tree, Linked, Sides
<1>5. /\ h \in [0..Len(m) -> Nat] /\ h[0] = 1
      /\ \A x \in DOMAIN m, s \in Sides : h[x] = h[m[x][s]] + Black(m, x)
  BY DEF Tree, Heights
<1>6. \A y \in DOMAIN m : m[y].red =>
           m[y].parent # 0 /\ m[y].parent \in DOMAIN m /\ (y # d => ~m[m[y].parent].red)
  BY <1>1 DEF Tree, Coloured
<1>7. m[p].parent = g /\ m[u].parent = g /\ p # g /\ u # g /\ p # u /\ p # 0 /\ u # 0 /\ g # 0
  BY <1>1, <1>3, <1>4
<1>8. up # p /\ up # u /\ up # g
  <2>1. /\ Rank(m, h, d, g) \in Nat /\ Rank(m, h, d, p) \in Nat /\ Rank(m, h, d, u) \in Nat
        /\ Rank(m, h, d, p) < Rank(m, h, d, g) /\ Rank(m, h, d, u) < Rank(m, h, d, g)
        /\ up # 0 => Rank(m, h, d, g) < Rank(m, h, d, up)
    BY <1>7, RankFalls
  <2>2. QED
    BY <1>4, <1>7, <2>1
<1>9. p # d /\ ~m[g].red
  BY <1>4, <1>6, <1>7
<1>10. q[p].red = FALSE /\ q[u].red = FALSE /\ q[g].red = (up # 0)
       /\ \A x \in DOMAIN m : x # p /\ x # u /\ x # g => q[x].red = m[x].red
  BY <1>7 DEF Repainted
<1> HIDE DEF up, opp
<1>11. /\ Black(m, p) = 0 /\ Black(m, u) = 0 /\ Black(m, g) = 1
       /\ Black(q, p) = 1 /\ Black(q, u) = 1 /\ Black(q, g) = IF up = 0 THEN 1 ELSE 0
       /\ \A x \in DOMAIN m : x # p /\ x # u /\ x # g => Black(q, x) = Black(m, x)
  BY <1>9, <1>10 DEF Black
<1>12. /\ h2 \in [0..Len(m) -> Nat] /\ h2[p] = h[p] + 1 /\ h2[u] = h[u] + 1
       /\ h2[g] = IF up = 0 THEN h[g] + 1 ELSE h[g]
       /\ \A x \in 0..Len(m) : x # p /\ x # u /\ x # g => h2[x] = h[x]
  BY <1>1, <1>5, <1>7
<1> HIDE DEF h2
<1>13. \A x \in DOMAIN m, s \in Sides : q[x][s] = m[x][s]
  BY DEF SameLinks
<1>14. ASSUME NEW x \in DOMAIN m, NEW s \in Sides PROVE h2[x] = h2[m[x][s]] + Black(q, x)
  <2>1. h[x] = h[m[x][s]] + Black(m, x) /\ h[x] \in Nat /\ h[m[x][s]] \in Nat
    BY <1>1, <1>5
  <2>2. CASE x = p \/ x = u
    <3>1. m[x][s] # p /\ m[x][s] # u /\ m[x][s] # g
      BY <1>4, <1>7, <1>8, <2>2 DEF up
    <3>2. h2[m[x][s]] = h[m[x][s]]
      BY <1>1, <1>12, <3>1
    <3>3. QED
      BY <1>11, <1>12, <2>1, <2>2, <3>2
  <2>3. CASE x = g
    <3>1. m[x][s] = p \/ m[x][s] = u
      BY <1>3, <2>3 DEF opp
    <3>2. h2[m[x][s]] = h[m[x][s]] + 1
      BY <1>12, <3>1
    <3>3. QED
      BY <1>11, <1>12, <2>1, <2>3, <3>2
  <2>4. CASE x # p /\ x # u /\ x # g
    <3>1. m[x][s] # p /\ m[x][s] # u
      BY <1>4, <1>7, <2>4
    <3>2. m[x][s] = g => up # 0
      BY <1>1, <1>4, <1>7 DEF up
    <3>3. h2[m[x][s]] = h[m[x][s]]
      BY <1>1, <1>12, <3>1, <3>2
    <3>4. h2[x] = h[x] /\ Black(q, x) = Black(m, x)
      BY <1>1, <1>11, <1>12, <2>4
    <3>5. QED
      BY <2>1, <3>3, <3>4
  <2>5. QED
    BY <2>2, <2>3, <2>4
<1>15. Heights(q, h2)
  <2>1. h2[0] = 1
    BY <1>1, <1>5, <1>7, <1>12
  <2>2. \A x \in DOMAIN q, s \in Sides : h2[x] = h2[q[x][s]] + Black(q, x)
    BY <1>2, <1>13, <1>14
  <2>3. QED
    BY <2>1, <2>2 DEF Heights
<1>16. ASSUME NEW e, e = g \/ up = 0 \/ ~m[up].red
       PROVE  Coloured(q, e)
  <2>1. SUFFICES ASSUME NEW x \in DOMAIN m, q[x].red
                 PROVE  m[x].parent # 0 /\ (x # e => ~q[m[x].parent].red)
    BY <1>2 DEF Coloured, SameLinks
  <2>2. x # p /\ x # u
    BY <1>10, <2>1
  <2>3. CASE x = g
    <3>1. up # 0 /\ up \in DOMAIN m
      BY <1>1, <1>10, <2>1, <2>3 DEF up
    <3>2. q[up].red = m[up].red
      BY <1>8, <1>10, <3>1
    <3>3. x # e => ~q[up].red
      BY <1>16, <2>3, <3>1, <3>2
    <3>4. QED
      BY <2>3, <3>1, <3>3 DEF up
  <2>4. CASE x # g
    <3>1. m[x].red
      BY <1>10, <2>1, <2>2, <2>4
    <3>2. m[x].parent # 0 /\ m[x].parent \in DOMAIN m /\ (x # d => ~m[m[x].parent].red)
      BY <1>6, <3>1
    <3>3. m[x].parent # g
      <4>1. SUFFICES ASSUME m[x].parent = g PROVE FALSE
        OBVIOUS
      <4>2. PICK s \in Sides : m[g][s] = x
        BY <1>4, <3>2, <4>1
      <4>3. QED
        BY <1>3, <2>2, <4>2 DEF opp
    <3>4. ~q[m[x].parent].red
      <4>1. CASE m[x].parent = p \/ m[x].parent = u
        BY <1>10, <4>1
      <4>2. CASE m[x].parent # p /\ m[x].parent # u
        BY <1>10, <3>2, <3>3, <4>2
      <4>3. QED
        BY <4>1, <4>2
    <3>5. QED
      BY <3>2, <3>4
  <2>5. QED
    BY <2>3, <2>4
<1>17. h2 \in [0..Len(q) -> Nat]
  BY <1>2, <1>12
<1>18. Tree(q, h2, g)
  BY <1>2, <1>15, <1>16, <1>17 DEF Tree
<1>19. up = 0 \/ ~m[up].red => Tree(q, h2, 0)
  BY <1>2, <1>15, <1>16, <1>17 DEF Tree
<1>20. QED
  BY <1>18, <1>19 DEF up

\* A node with no links is added behind the others.
LEMMA GrownTree ==
    ASSUME NEW m, NEW h, Tree(m, h, 0), NEW r \in Nodes(Len(m) + 1),
           r.parent = 0, r.left = 0, r.right = 0, ~r.red
    PROVE  /\ \E h2 : Tree(Append(m, r), h2, 0)
           /\ DOMAIN Append(m, r) = 1..(Len(m) + 1) /\ Len(Append(m, r)) = Len(m) + 1
           /\ \A x \in DOMAIN m : Append(m, r)[x] = m[x]
           /\ Append(m, r)[Len(m) + 1] = r
<1> DEFINE n == Len(m) + 1
           q == Append(m, r)
           h2 == [x \in 0..n |-> IF x = n THEN 2 ELSE h[x]]
<1>1. /\ DOMAIN m = 1..Len(m) /\ Len(m) \in Nat /\ 0 \notin DOMAIN m /\ n \notin DOMAIN m
      /\ m \in Seq(Nodes(Len(m)))
      /\ \A x \in DOMAIN m, s \in Sides : m[x][s] \in {0} \cup DOMAIN m
      /\ \A x \in DOMAIN m : m[x].parent \in {0} \cup DOMAIN m
  BY NodesAre DEF Tree
<1>2. m \in Seq(Nodes(n))
  <2>1. 0..Len(m) \subseteq 0..n
    BY <1>1
  <2>2. Nodes(Len(m)) \subseteq Nodes(n)
    BY <2>1 DEF Nodes
  <2>3. QED
    BY <1>1, <2>2
<1>3. /\ q \in Seq(Nodes(n)) /\ Len(q) = n /\ DOMAIN q = 1..n
      /\ q[n] = r /\ \A x \in DOMAIN m : q[x] = m[x]
  BY <1>1, <1>2
<1>4. DOMAIN q = DOMAIN m \cup {n} /\ n # 0 /\ n \in Nat
  BY <1>1, <1>3
<1>5. \A s \in Sides : r[s] = 0
  BY DEF Sides
<1> HIDE DEF n, q
<1>6. Linked(q)
  <2>1. ASSUME NEW x \in DOMAIN m
        PROVE  /\ q[x].parent # x
               /\ q[x].parent # 0 => \E s \in Sides : q[q[x].parent][s] = x
               /\ \A s \in Sides : q[x][s] # 0 => q[q[x][s]].parent = x
               /\ q[x].left = q[x].right => q[x].left = 0
    <3>1. q[x] = m[x] /\ \A s \in Sides : m[x][s] # 0 => q[m[x][s]] = m[m[x][s]]
      BY <1>1, <1>3
    <3>2. m[x].parent # 0 => q[m[x].parent] = m[m[x].parent]
      BY <1>1, <1>3
    <3>3. QED
      BY <3>1, <3>2 DEF Tree, Linked
  <2>2. r.parent # n /\ r.parent = 0 /\ r.left = 0 /\ \A s \in Sides : r[s] = 0
    BY <1>4, <1>5
  <2>3. QED
    BY <1>3, <1>4, <2>1, <2>2 DEF Linked
<1>7. /\ h \in [0..Len(m) -> Nat] /\ h[0] = 1
      /\ \A x \in DOMAIN m, s \in Sides : h[x] = h[m[x][s]] + Black(m, x)
  BY DEF Tree, Heights
<1>8. /\ h2 \in [0..n -> Nat] /\ h2[n] = 2 /\ h2[0] = 1
      /\ \A x \in {0} \cup DOMAIN m : h2[x] = h[x]
  <2>1. \A x \in 0..n : x = n \/ x \in 0..Len(m)
    BY <1>1 DEF n
  <2>2. \A x \in 0..n : (IF x = n THEN 2 ELSE h[x]) \in Nat
    BY <1>7, <2>1
  <2>3. \A x \in {0} \cup DOMAIN m : x \in 0..n /\ x # n
    BY <1>1, <1>4 DEF n
  <2>4. n \in 0..n
    BY <1>4
  <2>5. QED
    BY <1>7, <2>2, <2>3, <2>4
<1> HIDE DEF h2
<1>9. Heights(q, h2)
  <2>1. ASSUME NEW x \in DOMAIN m, NEW s \in Sides PROVE h2[x] = h2[q[x][s]] + Black(q, x)
    <3>1. q[x] = m[x] /\ m[x][s] \in {0} \cup DOMAIN m
      BY <1>1, <1>3
    <3>2. h2[x] = h[x] /\ h2[m[x][s]] = h[m[x][s]]
      BY <1>8, <3>1
    <3>3. Black(q, x) = Black(m, x)
      BY <3>1 DEF Black
    <3>4. QED
      BY <1>7, <3>1, <3>2, <3>3
  <2>2. Black(q, n) = 1
    BY <1>3 DEF Black
  <2>3. \A s \in Sides : h2[n] = h2[q[n][s]] + Black(q, n)
    BY <1>3, <1>5, <1>8, <2>2
  <2>4. QED
    BY <1>4, <1>8, <2>1, <2>3 DEF Heights
<1>10. Coloured(q, 0)
  <2>1. ASSUME NEW x \in DOMAIN m, q[x].red
        PROVE  q[x].parent # 0 /\ (x # 0 => ~q[q[x].parent].red)
    <3>1. q[x] = m[x] /\ m[x].parent # 0
      BY <1>3, <2>1 DEF Tree, Coloured
    <3>2. q[m[x].parent] = m[m[x].parent]
      BY <1>1, <1>3, <3>1
    <3>3. QED
      BY <2>1, <3>1, <3>2 DEF Tree, Coloured
  <2>2. QED
    BY <1>3, <1>4, <2>1 DEF Coloured
<1>11. Tree(q, h2, 0)
  BY <1>3, <1>6, <1>8, <1>9, <1>10 DEF Tree
<1>12. QED
  BY <1>3, <1>11 DEF n, q

\* A node with no links becomes a red leaf.
LEMMA LeafTree ==
    ASSUME NEW m, NEW h, Tree(m, h, 0), NEW n \in DOMAIN m, NEW p \in DOMAIN m, p # n,
           m[n].parent = 0, m[n].left = 0, m[n].right = 0,
           NEW side \in Sides, m[p][side] = 0,
           NEW q \in Seq(Nodes(Len(m))), Len(q) = Len(m),
           q[n].parent = p, q[n].left = 0, q[n].right = 0, q[n].red,
           q[p][side] = n, q[p][Other(side)] = m[p][Other(side)],
           q[p].parent = m[p].parent, q[p].red = m[p].red,
           \A x \in DOMAIN m : x # n /\ x # p => q[x] = m[x]
    PROVE  \E h2 : Tree(q, h2, n)
<1> DEFINE opp == Other(side)
           h2 == [h EXCEPT ![n] = 1]
<1>1. /\ DOMAIN m = 1..Len(m) /\ 0 \notin DOMAIN m
      /\ m \in Seq(Nodes(Len(m)))
      /\ \A x \in DOMAIN m, s \in Sides : m[x][s] \in {0} \cup DOMAIN m
      /\ \A x \in DOMAIN m : m[x].parent \in {0} \cup DOMAIN m
      /\ {0} \cup DOMAIN m = 0..Len(m) /\ DOMAIN q = DOMAIN m
  BY NodesAre DEF Tree
<1>2. /\ opp \in Sides /\ opp # side /\ \A s \in Sides : s = side \/ s = opp
  BY OtherSide
<1>3. /\ \A x \in DOMAIN m : m[x].parent # x
      /\ \A x \in DOMAIN m : m[x].parent # 0 => \E s \in Sides : m[m[x].parent][s] = x
      /\ \A x \in DOMAIN m, s \in Sides : m[x][s] # 0 => m[m[x][s]].parent = x
      /\ \A x \in DOMAIN m, s, t \in Sides : s # t /\ m[x][s] # 0 => m[x][s] # m[x][t]
  BY DEF Tree, Linked, Sides
<1>4. /\ \A x \in DOMAIN m, s \in Sides : m[x][s] # n
      /\ \A x \in DOMAIN m : m[x].parent # n
  <2>1. \A x \in DOMAIN m, s \in Sides : m[x][s] # n
    BY <1>1, <1>3
  <2>2. \A s \in Sides : m[n][s] = 0
    BY DEF Sides
  <2>3. QED
    BY <1>1, <1>3, <2>1, <2>2
<1>5. \A s \in Sides : q[n][s] = 0
  BY DEF Sides
<1>6. /\ \A x \in DOMAIN m : q[x].parent = IF x = n THEN p ELSE m[x].parent
      /\ \A x \in DOMAIN m, s \in Sides :
            q[x][s] = IF x = n THEN 0 ELSE IF x = p /\ s = side THEN n ELSE m[x][s]
      /\ \A x \in DOMAIN m : x # n => q[x].red = m[x].red
  BY <1>2, <1>5
<1> HIDE DEF opp
<1>7. Linked(q)
  <2>1. ASSUME NEW x \in DOMAIN m, q[x].parent # 0
        PROVE  \E s \in Sides : q[q[x].parent][s] = x
    <3>1. CASE x = n
      BY <1>6, <3>1
    <3>2. CASE x # n
      <4>1. q[x].parent = m[x].parent /\ m[x].parent # n /\ m[x].parent \in DOMAIN m
        BY <1>1, <1>4, <1>6, <2>1, <3>2
      <4>2. PICK s \in Sides : m[m[x].parent][s] = x
        BY <1>3, <2>1, <4>1
      <4>3. ~(m[x].parent = p /\ s = side)
        BY <1>1, <4>2
      <4>4. QED
        BY <1>6, <4>1, <4>2, <4>3
    <3>3. QED
      BY <3>1, <3>2
  <2>2. ASSUME NEW x \in DOMAIN m, NEW s \in Sides, q[x][s] # 0
        PROVE  q[q[x][s]].parent = x
    BY <1>1, <1>3, <1>4, <1>6, <2>2
  <2>3. \A x \in DOMAIN m : q[x].parent # x
    BY <1>3, <1>6
  <2>4. ASSUME NEW x \in DOMAIN m, q[x].left = q[x].right PROVE q[x].left = 0
    <3>1. q[x][side] = q[x][opp] /\ (q[x][side] = 0 => q[x].left = 0)
      BY <2>4 DEF Sides, opp, Other
    <3>2. CASE x = p
      BY <1>2, <1>4, <1>6, <3>1, <3>2
    <3>3. CASE x # p
      <4>1. x = n \/ (q[x][side] = m[x][side] /\ q[x][opp] = m[x][opp])
        BY <1>2, <1>6, <3>3
      <4>2. QED
        BY <1>2, <1>3, <3>1, <4>1
    <3>4. QED
      BY <3>2, <3>3
  <2>5. QED
    BY <1>1, <2>1, <2>2, <2>3, <2>4 DEF Linked
<1>8. /\ h \in [0..Len(m) -> Nat] /\ h[0] = 1
      /\ \A x \in DOMAIN m, s \in Sides : h[x] = h[m[x][s]] + Black(m, x)
  BY DEF Tree, Heights
<1>9. /\ h2 \in [0..Len(m) -> Nat] /\ h2[n] = 1
      /\ \A x \in 0..Len(m) : x # n => h2[x] = h[x]
  BY <1>1, <1>8
<1> HIDE DEF h2
<1>10. Heights(q, h2)
  <2>1. ASSUME NEW x \in DOMAIN m, NEW s \in Sides PROVE h2[x] = h2[q[x][s]] + Black(q, x)
    <3>1. CASE x = n
      <4>1. q[x][s] = 0 /\ h2[0] = 1 /\ h2[x] = 1
        BY <1>1, <1>6, <1>8, <1>9, <3>1
      <4>2. Black(q, x) = 0
        BY <3>1 DEF Black
      <4>3. QED
        BY <4>1, <4>2
    <3>2. CASE x # n
      <4>1. h2[x] = h[x] /\ h[x] = h[m[x][s]] + Black(m, x) /\ h2[m[x][s]] = h[m[x][s]]
        BY <1>1, <1>4, <1>8, <1>9, <3>2
      <4>2. Black(q, x) = Black(m, x)
        BY <1>6, <3>2 DEF Black
      <4>3. h2[q[x][s]] = h[m[x][s]]
        <5>1. CASE x = p /\ s = side
          BY <1>6, <1>8, <1>9, <3>2, <5>1
        <5>2. CASE ~(x = p /\ s = side)
          BY <1>6, <3>2, <4>1, <5>2
        <5>3. QED
          BY <5>1, <5>2
      <4>4. QED
        BY <4>1, <4>2, <4>3
    <3>3. QED
      BY <3>1, <3>2
  <2>2. h2[0] = 1
    BY <1>1, <1>8, <1>9
  <2>3. QED
    BY <1>1, <2>1, <2>2 DEF Heights
<1>11. Coloured(q, n)
  <2>1. ASSUME NEW x \in DOMAIN m, q[x].red
        PROVE  q[x].parent # 0 /\ (x # n => ~q[q[x].parent].red)
    <3>1. CASE x = n
      BY <1>1, <3>1
    <3>2. CASE x # n
      <4>1. m[x].red /\ q[x].parent = m[x].parent
        BY <1>6, <2>1, <3>2
      <4>2. m[x].parent # 0 /\ ~m[m[x].parent].red
        BY <1>1, <4>1 DEF Tree, Coloured
      <4>3. m[x].parent \in DOMAIN m /\ m[x].parent # n
        BY <1>1, <1>4, <4>2
      <4>4. QED
        BY <1>6, <4>1, <4>2, <4>3
    <3>3. QED
      BY <3>1, <3>2
  <2>2. QED
    BY <1>1, <2>1 DEF Coloured
<1>12. Tree(q, h2, n)
  BY <1>7, <1>9, <1>10, <1>11 DEF Tree
<1>13. QED
  BY <1>12

\* A new value changes nothing else.
LEMMA ValueTree ==
    ASSUME NEW m, NEW h, NEW d, Tree(m, h, d), NEW q, SameLinks(m, q),
           \A x \in DOMAIN m : q[x].red = m[x].red
    PROVE  Tree(q, h, d)
<1>1. /\ Linked(q) /\ q \in Seq(Nodes(Len(q))) /\ DOMAIN q = DOMAIN m /\ Len(q) = Len(m)
  BY SameLinksIsLinked DEF Tree, SameLinks
<1>2. \A x \in DOMAIN m : m[x].parent \in {0} \cup DOMAIN m
  BY NodesAre DEF Tree
<1>3. /\ \A x \in DOMAIN m : q[x].parent = m[x].parent
      /\ \A x \in DOMAIN m, s \in Sides : q[x][s] = m[x][s]
  BY DEF SameLinks
<1>4. Heights(q, h)
  BY <1>1, <1>3 DEF Tree, Heights, Black
<1>5. Coloured(q, d)
  <2>1. ASSUME NEW x \in DOMAIN m, q[x].red
        PROVE  q[x].parent # 0 /\ (x # d => ~q[q[x].parent].red)
    <3>1. m[x].red /\ m[x].parent # 0 /\ (x # d => ~m[m[x].parent].red)
      BY <2>1 DEF Tree, Coloured
    <3>2. m[x].parent \in DOMAIN m
      BY <1>2, <3>1
    <3>3. QED
      BY <1>3, <3>1, <3>2
  <2>2. QED
    BY <1>1, <2>1 DEF Coloured
<1>6. QED
  BY <1>1, <1>4, <1>5 DEF Tree

-----------------------------------------------------------------------------
(* The tree in the steps of an insertion.                                   *)

\* The region as it is once the copy of the parent has been written back.
Whole == IF pc \in {"placed", "fix"} THEN [mem EXCEPT ![rootOffset] = root] ELSE mem

\* The node that may be red under a red one.
Exception == IF pc \in {"placed", "fix", "outer"} THEN dataOffset ELSE 0

\* What the local copies hold.
CopiesInv ==
    /\ mem \in Seq(Nodes(Len(mem)))
    /\ dataOffset \in DOMAIN mem /\ rootOffset \in DOMAIN mem /\ dataOffset # rootOffset
    /\ node \in Nodes(Len(mem)) /\ root \in Nodes(Len(mem))
    /\ node.red

PlaceInv ==
    /\ RootOffset # dataOffset /\ mem[RootOffset].parent = 0
    /\ dataOffset = Len(mem)
    /\ mem[dataOffset] = Blank
    /\ node.left = 0 /\ node.right = 0
    /\ root = mem[rootOffset]

FixInv ==
    /\ node = Whole[dataOffset] /\ node.parent = rootOffset /\ root = Whole[rootOffset]
    /\ pc = "placed" => Whole[RootOffset].parent = 0
    /\ pc # "placed" => root.red

OuterInv ==
    /\ parentRootOffset = root.parent
    /\ parentRoot = mem[parentRootOffset]
    /\ dataOffset = root.left <=> rootOffset = parentRoot.left
    /\ \A side \in Sides :
          parentRoot[side] # 0 /\ parentRoot[side] # rootOffset => ~mem[parentRoot[side]].red

TreeInv ==
    /\ pc \in {"ready", "place", "placed", "fix", "outer", "findroot", "iterating"}
    /\ \E h : Tree(Whole, h, Exception)
    /\ mem = <<>> => RootOffset = 1 /\ pc = "ready"
    /\ mem # <<>> => RootOffset \in DOMAIN mem
    /\ mem # <<>> /\ pc \in {"ready", "iterating"} => mem[RootOffset].parent = 0
    /\ pc \in {"place", "placed", "fix", "outer"} => CopiesInv
    /\ pc = "place" => PlaceInv
    /\ pc \in {"placed", "fix", "outer"} => FixInv
    /\ pc = "outer" => OuterInv

\* Steps that leave the region alone.
LEMMA QuietStep ==
    ASSUME TreeInv, pc \in {"ready", "iterating", "findroot"}, mem # <<>>,
           mem' = mem, pc' \in {"ready", "iterating"},
           RootOffset' \in DOMAIN mem, mem[RootOffset'].parent = 0
    PROVE  TreeInv'
<1>1. PICK h : Tree(mem, h, 0)
  BY DEF TreeInv, Whole, Exception
<1>2. Whole' = mem /\ Exception' = 0
  BY DEF Whole, Exception
<1>3. QED
  BY <1>1, <1>2 DEF TreeInv

LEMMA InitTree == Init => TreeInv
<1>1. SUFFICES ASSUME Init PROVE TreeInv
  OBVIOUS
<1>0. pc = "ready" /\ mem = <<>> /\ RootOffset = 1
  BY <1>1 DEF Init
<1>2. Whole = <<>> /\ Exception = 0
  BY <1>0 DEF Whole, Exception
<1>3. Tree(<<>>, [x \in 0..0 |-> 1], 0)
  <2>1. Len(<<>>) = 0 /\ DOMAIN <<>> = {} /\ <<>> \in Seq(Nodes(0))
    OBVIOUS
  <2>2. QED
    BY <2>1 DEF Tree, Linked, Heights, Coloured
<1>4. QED
  BY <1>0, <1>2, <1>3 DEF TreeInv

LEMMA FirstInsert ==
    ASSUME TreeInv, NEW k \in Keys, NEW withValue \in BOOLEAN, Insert(k, withValue), Len(mem) = 0
    PROVE  TreeInv'
<1>1. PICK h : Tree(mem, h, 0)
  BY DEF TreeInv, Whole, Exception, Insert
<1>2. mem \in Seq(Nodes(Len(mem)))
  BY <1>1 DEF Tree
<1>3. mem = <<>>
  BY <1>2
<1> DEFINE v == IF withValue THEN 1 ELSE 0
           r == [Blank EXCEPT !.value = v]
<1>4. mem' = Append(mem, r) /\ pc' = "ready" /\ RootOffset' = RootOffset
  BY <1>3 DEF Insert, Return
<1>5. r \in Nodes(Len(mem) + 1) /\ r.parent = 0 /\ r.left = 0 /\ r.right = 0 /\ ~r.red
  <2> DEFINE n == Len(mem) + 1
  <2>1. v \in 0..n /\ 0 \in 0..n
    OBVIOUS
  <2> HIDE DEF v, n
  <2>2. r \in Nodes(n) /\ r.parent = 0 /\ r.left = 0 /\ r.right = 0 /\ ~r.red
    BY <2>1 DEF Blank, Nodes
  <2>3. QED
    BY <2>2 DEF n
<1> HIDE DEF r
<1>6. /\ \E h2 : Tree(Append(mem, r), h2, 0)
      /\ DOMAIN Append(mem, r) = 1..(Len(mem) + 1) /\ Append(mem, r)[Len(mem) + 1] = r
  BY <1>1, <1>5, GrownTree
<1>7. Whole' = Append(mem, r) /\ Exception' = 0
  BY <1>4 DEF Whole, Exception
<1>8. RootOffset' = 1 /\ DOMAIN mem' = 1..1 /\ mem' # <<>> /\ mem'[1] = r
  BY <1>3, <1>4, <1>6 DEF TreeInv
<1>9. QED
  BY <1>4, <1>5, <1>6, <1>7, <1>8 DEF TreeInv

LEMMA LaterInsert ==
    ASSUME TreeInv, NEW k \in Keys, NEW withValue \in BOOLEAN, Insert(k, withValue), Len(mem) # 0
    PROVE  TreeInv'
<1> DEFINE n == Len(mem) + 1
<1>1. PICK h : Tree(mem, h, 0)
  BY DEF TreeInv, Whole, Exception, Insert
<1>2. /\ mem \in Seq(Nodes(Len(mem))) /\ Len(mem) \in Nat /\ DOMAIN mem = 1..Len(mem) /\ mem # <<>>
      /\ \A x \in DOMAIN mem : mem[x] \in Nodes(Len(mem))
  BY <1>1, NodesAre DEF Tree
<1>3. n # 1 /\ n > 1
  BY <1>2
<1>4. /\ mem' = Append(mem, Blank) /\ RootOffset' = Root(mem, RootOffset)
      /\ rootOffset' = RootOffset' /\ root' = mem[RootOffset'] /\ dataOffset' = n
      /\ node' = [Blank EXCEPT !.value = IF withValue THEN n ELSE 0, !.red = TRUE]
      /\ pc' = "place"
  BY <1>3 DEF Insert
<1>5. RootOffset' \in DOMAIN mem /\ mem[RootOffset'].parent = 0
  BY <1>1, <1>2, <1>4, RootClimbs DEF TreeInv
<1>6. Blank \in Nodes(Len(mem) + 1) /\ Blank.parent = 0 /\ Blank.left = 0 /\ Blank.right = 0
      /\ ~Blank.red
  BY <1>2 DEF Blank, Nodes
<1>7. /\ \E h2 : Tree(mem', h2, 0)
      /\ DOMAIN mem' = 1..n /\ Len(mem') = n /\ mem'[n] = Blank
      /\ \A x \in DOMAIN mem : mem'[x] = mem[x]
  BY <1>1, <1>4, <1>6, GrownTree
<1>8. Whole' = mem' /\ Exception' = 0
  BY <1>4 DEF Whole, Exception
<1>9. node' \in Nodes(n) /\ node'.red /\ node'.left = 0 /\ node'.right = 0
  <2> DEFINE v == IF withValue THEN n ELSE 0
  <2>1. v \in 0..n
    BY <1>2
  <2>2. node' = [Blank EXCEPT !.value = v, !.red = TRUE]
    BY <1>4
  <2>3. 0 \in 0..n
    BY <1>2
  <2> HIDE DEF v, n
  <2>4. QED
    BY <2>1, <2>2, <2>3 DEF Blank, Nodes
<1>10. root' \in Nodes(n)
  <2>1. 0..Len(mem) \subseteq 0..n
    BY <1>2
  <2>2. QED
    BY <1>2, <1>4, <1>5, <2>1 DEF Nodes
<1>11. n \in DOMAIN mem' /\ RootOffset' \in DOMAIN mem' /\ n # RootOffset'
  BY <1>2, <1>5, <1>7
<1>12. mem' # <<>>
  BY <1>11
<1> HIDE DEF n
<1>13. CopiesInv'
  <2>1. mem' \in Seq(Nodes(Len(mem')))
    BY <1>7 DEF Tree
  <2>2. QED
    BY <1>4, <1>7, <1>9, <1>10, <1>11, <2>1 DEF CopiesInv
<1>14. PlaceInv'
  BY <1>4, <1>5, <1>7, <1>9, <1>11 DEF PlaceInv
<1>15. QED
  BY <1>4, <1>7, <1>8, <1>11, <1>12, <1>13, <1>14 DEF TreeInv

\* The side of its parent to which a new key belongs.
Towards == IF Less(keys[dataOffset], keys[rootOffset]) THEN "left" ELSE "right"

LEMMA TowardsIs == Towards \in Sides
BY DEF Towards, Sides

LEMMA PlaceFacts ==
    ASSUME TreeInv, pc = "place"
    PROVE  /\ \E h : Tree(mem, h, 0)
           /\ mem \in Seq(Nodes(Len(mem))) /\ Len(mem) \in Nat /\ DOMAIN mem = 1..Len(mem)
           /\ mem # <<>> /\ RootOffset \in DOMAIN mem
           /\ \A x \in DOMAIN mem : mem[x] \in Nodes(Len(mem))
           /\ CopiesInv /\ PlaceInv
<1>1. PICK h : Tree(mem, h, 0)
  BY DEF TreeInv, Whole, Exception
<1>2. QED
  BY <1>1, NodesAre DEF TreeInv, CopiesInv, Tree

LEMMA PlaceOverwrites ==
    ASSUME TreeInv, Place, keys[dataOffset] = keys[rootOffset]
    PROVE  TreeInv'
<1>1. pc = "place" /\ mem' = [mem EXCEPT ![rootOffset] = [root EXCEPT !.value = node.value]]
      /\ pc' = "ready" /\ RootOffset' = RootOffset
  BY DEF Place, Overwritten, Return
<1>2. /\ \E h : Tree(mem, h, 0)
      /\ mem \in Seq(Nodes(Len(mem))) /\ Len(mem) \in Nat /\ DOMAIN mem = 1..Len(mem)
      /\ mem # <<>> /\ RootOffset \in DOMAIN mem
      /\ \A x \in DOMAIN mem : mem[x] \in Nodes(Len(mem))
      /\ CopiesInv /\ PlaceInv
  BY <1>1, PlaceFacts
<1> DEFINE r == [root EXCEPT !.value = node.value]
<1>3. /\ r \in Nodes(Len(mem)) /\ r.parent = root.parent /\ r.red = root.red
      /\ \A s \in Sides : r[s] = root[s]
  BY <1>2 DEF CopiesInv, Nodes, Sides
<1>4. rootOffset \in DOMAIN mem /\ root = mem[rootOffset] /\ mem[RootOffset].parent = 0
  BY <1>2 DEF CopiesInv, PlaceInv
<1>5. mem' = [mem EXCEPT ![rootOffset] = r]
  BY <1>1
<1> HIDE DEF r
<1>6. /\ mem' \in Seq(Nodes(Len(mem))) /\ Len(mem') = Len(mem) /\ DOMAIN mem' = DOMAIN mem
      /\ mem'[rootOffset] = r
      /\ \A x \in DOMAIN mem : x # rootOffset => mem'[x] = mem[x]
  BY <1>2, <1>4, <1>3, <1>5, Replaced
<1>7. ASSUME NEW x \in DOMAIN mem
      PROVE  /\ mem'[x].parent = mem[x].parent /\ mem'[x].red = mem[x].red
             /\ \A s \in Sides : mem'[x][s] = mem[x][s]
  <2>1. CASE x = rootOffset
    BY <1>3, <1>4, <1>6, <2>1
  <2>2. CASE x # rootOffset
    BY <1>6, <2>2
  <2>3. QED
    BY <2>1, <2>2
<1>8. SameLinks(mem, mem')
  BY <1>6, <1>7 DEF SameLinks
<1>9. PICK h : Tree(mem, h, 0)
  BY <1>2
<1>10. Tree(mem', h, 0)
  BY <1>7, <1>8, <1>9, ValueTree
<1>11. Whole' = mem' /\ Exception' = 0
  BY <1>1 DEF Whole, Exception
<1>12. mem' # <<>>
  BY <1>2, <1>6
<1>13. QED
  BY <1>1, <1>2, <1>4, <1>6, <1>7, <1>10, <1>11, <1>12 DEF TreeInv

LEMMA PlaceDescends ==
    ASSUME TreeInv, Place, keys[dataOffset] # keys[rootOffset], root[Towards] # 0
    PROVE  TreeInv'
<1>1. pc = "place" /\ rootOffset' = root[Towards] /\ root' = mem[root[Towards]]
      /\ UNCHANGED <<mem, pc, dataOffset, node, RootOffset>>
  BY DEF Place, Towards
<1>2. /\ \E h : Tree(mem, h, 0)
      /\ mem \in Seq(Nodes(Len(mem))) /\ Len(mem) \in Nat /\ DOMAIN mem = 1..Len(mem)
      /\ mem # <<>> /\ RootOffset \in DOMAIN mem
      /\ \A x \in DOMAIN mem : mem[x] \in Nodes(Len(mem))
      /\ CopiesInv /\ PlaceInv
  BY <1>1, PlaceFacts
<1>3. Towards \in Sides
  BY TowardsIs
<1>4. /\ rootOffset \in DOMAIN mem /\ root = mem[rootOffset] /\ mem[dataOffset] = Blank
      /\ dataOffset \in DOMAIN mem
  BY <1>2 DEF CopiesInv, PlaceInv
<1> DEFINE c == root[Towards]
<1>5. c \in DOMAIN mem
  BY <1>2, <1>3, <1>4, NodesAre
<1>6. mem[c].parent = rootOffset /\ rootOffset # 0
  BY <1>2, <1>3, <1>4 DEF Tree, Linked
<1>7. c # dataOffset
  BY <1>4, <1>6 DEF Blank
<1> HIDE DEF c
<1>8. rootOffset' = c /\ root' = mem[c]
  BY <1>1 DEF c
<1>9. CopiesInv'
  BY <1>1, <1>2, <1>5, <1>7, <1>8 DEF CopiesInv
<1>10. PlaceInv'
  BY <1>1, <1>2, <1>8 DEF PlaceInv
<1>11. Whole' = mem /\ Exception' = 0
  BY <1>1 DEF Whole, Exception
<1>12. QED
  BY <1>1, <1>2, <1>9, <1>10, <1>11 DEF TreeInv

\* The node is hung under its parent, in the region and in the copy of the parent.
LEMMA LinkIs ==
    ASSUME TreeInv, Place, keys[dataOffset] # keys[rootOffset], root[Towards] = 0
    PROVE  /\ pc = "place" /\ pc' = "placed"
           /\ UNCHANGED <<dataOffset, rootOffset, RootOffset, keys, latest>>
           /\ mem' \in Seq(Nodes(Len(mem))) /\ Len(mem') = Len(mem) /\ DOMAIN mem' = DOMAIN mem
           /\ Whole' \in Seq(Nodes(Len(mem))) /\ Len(Whole') = Len(mem) /\ DOMAIN Whole' = DOMAIN mem
           /\ Whole'[dataOffset] = node' /\ Whole'[rootOffset] = root'
           /\ \A x \in DOMAIN mem : x # dataOffset /\ x # rootOffset => Whole'[x] = mem[x]
           /\ node' \in Nodes(Len(mem)) /\ node'.parent = rootOffset
           /\ node'.left = 0 /\ node'.right = 0 /\ node'.red /\ node'.value = node.value
           /\ root' \in Nodes(Len(mem)) /\ root'.parent = root.parent /\ root'.red = root.red
           /\ root'[Towards] = dataOffset /\ root'[Other(Towards)] = root[Other(Towards)]
           /\ root'.value = root.value
<1> DEFINE p == rootOffset
           n == dataOffset
           side == Towards
           leaf == [node EXCEPT !.parent = p]
           above == [root EXCEPT ![side] = n]
<1>1. /\ pc = "place" /\ pc' = "placed"
      /\ root' = above /\ node' = leaf /\ mem' = [mem EXCEPT ![n] = leaf]
      /\ UNCHANGED <<dataOffset, rootOffset, RootOffset, keys, latest>>
  BY DEF Place, Towards
<1>2. /\ mem \in Seq(Nodes(Len(mem))) /\ Len(mem) \in Nat /\ DOMAIN mem = 1..Len(mem)
      /\ CopiesInv /\ PlaceInv
  BY <1>1, PlaceFacts
<1>3. side \in Sides
  BY TowardsIs
<1>4. /\ p \in DOMAIN mem /\ n \in DOMAIN mem /\ p # n
      /\ node \in Nodes(Len(mem)) /\ root \in Nodes(Len(mem)) /\ node.red
      /\ node.left = 0 /\ node.right = 0
  BY <1>2 DEF CopiesInv, PlaceInv
<1>5. p \in 0..Len(mem) /\ n \in 0..Len(mem)
  BY <1>2, <1>4
<1> HIDE DEF side, p, n
<1>6. /\ leaf \in Nodes(Len(mem)) /\ leaf.parent = p /\ leaf.left = 0 /\ leaf.right = 0
      /\ leaf.red /\ leaf.value = node.value
  BY <1>4, <1>5 DEF Nodes
<1>7. /\ above \in Nodes(Len(mem)) /\ above.parent = root.parent /\ above.red = root.red
      /\ above[side] = n /\ above[Other(side)] = root[Other(side)] /\ above.value = root.value
  BY <1>3, <1>4, <1>5 DEF Nodes, Sides, Other
<1> HIDE DEF leaf, above
<1>8. /\ mem' \in Seq(Nodes(Len(mem))) /\ Len(mem') = Len(mem) /\ DOMAIN mem' = DOMAIN mem
      /\ mem'[n] = leaf
      /\ \A x \in DOMAIN mem : x # n => mem'[x] = mem[x]
  BY <1>1, <1>2, <1>4, <1>6, Replaced
<1> DEFINE q == [mem' EXCEPT ![p] = above]
<1>9. /\ q \in Seq(Nodes(Len(mem))) /\ Len(q) = Len(mem') /\ DOMAIN q = DOMAIN mem'
      /\ q[p] = above
      /\ \A x \in DOMAIN mem' : x # p => q[x] = mem'[x]
  BY <1>4, <1>7, <1>8, Replaced
<1>10. Whole' = q
  BY <1>1 DEF Whole, p
<1> HIDE DEF q
<1>11. /\ q[n] = leaf /\ Len(q) = Len(mem)
       /\ \A x \in DOMAIN mem : x # n /\ x # p => q[x] = mem[x]
  BY <1>4, <1>8, <1>9
<1>12. QED
  BY <1>1, <1>6, <1>7, <1>8, <1>9, <1>10, <1>11 DEF p, n, side

LEMMA PlaceLinks ==
    ASSUME TreeInv, Place, keys[dataOffset] # keys[rootOffset], root[Towards] = 0
    PROVE  TreeInv'
<1> DEFINE p == rootOffset
           n == dataOffset
           side == Towards
<1>1. pc' = "placed" /\ UNCHANGED <<dataOffset, rootOffset, RootOffset>> /\ side \in Sides
  BY LinkIs, TowardsIs
<1>2. /\ pc = "place" /\ \E h : Tree(mem, h, 0)
      /\ mem # <<>> /\ RootOffset \in DOMAIN mem
      /\ CopiesInv /\ PlaceInv
  BY LinkIs, PlaceFacts
<1>3. /\ p \in DOMAIN mem /\ n \in DOMAIN mem /\ p # n
      /\ RootOffset # n /\ mem[RootOffset].parent = 0
      /\ mem[n] = Blank /\ root = mem[p]
  BY <1>2 DEF CopiesInv, PlaceInv
<1>4. PICK q : q = Whole'
  OBVIOUS
<1>5. /\ q \in Seq(Nodes(Len(mem))) /\ Len(q) = Len(mem) /\ DOMAIN q = DOMAIN mem
      /\ q[n] = node' /\ q[p] = root'
      /\ \A x \in DOMAIN mem : x # n /\ x # p => q[x] = mem[x]
  BY <1>4, LinkIs
<1>6. /\ node' \in Nodes(Len(mem)) /\ node'.parent = p /\ node'.left = 0 /\ node'.right = 0
      /\ node'.red
      /\ root' \in Nodes(Len(mem)) /\ root'.parent = root.parent /\ root'.red = root.red
      /\ root'[side] = n /\ root'[Other(side)] = root[Other(side)]
      /\ mem' \in Seq(Nodes(Len(mem))) /\ Len(mem') = Len(mem) /\ DOMAIN mem' = DOMAIN mem
  BY LinkIs
<1>7. Exception' = n
  BY <1>1 DEF Exception
<1>8. mem[p][side] = 0
  BY <1>3
<1> HIDE DEF side, p, n
<1>9. PICK h : Tree(mem, h, 0)
  BY <1>2
<1>10. \E h2 : Tree(q, h2, n)
  <2>1. mem[n].parent = 0 /\ mem[n].left = 0 /\ mem[n].right = 0
    BY <1>3 DEF Blank
  <2>2. /\ q[n].parent = p /\ q[n].left = 0 /\ q[n].right = 0 /\ q[n].red
        /\ q[p][side] = n /\ q[p][Other(side)] = mem[p][Other(side)]
        /\ q[p].parent = mem[p].parent /\ q[p].red = mem[p].red
    BY <1>3, <1>5, <1>6
  <2>3. QED
    BY <1>1, <1>3, <1>5, <1>8, <1>9, <2>1, <2>2, LeafTree
<1>11. q[RootOffset].parent = 0
  BY <1>2, <1>3, <1>5, <1>6
<1>12. mem' # <<>>
  BY <1>3, <1>6
<1>13. CopiesInv'
  BY <1>1, <1>3, <1>6 DEF CopiesInv, n, p
<1>14. FixInv'
  BY <1>1, <1>4, <1>5, <1>6, <1>7, <1>11 DEF FixInv, n, p
<1>15. QED
  BY <1>1, <1>2, <1>4, <1>6, <1>7, <1>10, <1>12, <1>13, <1>14 DEF TreeInv

\* From the step "placed" on the node is in the tree, under its parent.
LEMMA FixFacts ==
    ASSUME TreeInv, pc \in {"placed", "fix", "outer"}
    PROVE  /\ \E h : Tree(Whole, h, dataOffset)
           /\ mem \in Seq(Nodes(Len(mem))) /\ Len(mem) \in Nat /\ DOMAIN mem = 1..Len(mem)
           /\ mem # <<>> /\ RootOffset \in DOMAIN mem
           /\ \A x \in DOMAIN mem : mem[x] \in Nodes(Len(mem))
           /\ Whole \in Seq(Nodes(Len(mem))) /\ Len(Whole) = Len(mem) /\ DOMAIN Whole = DOMAIN mem
           /\ Whole[rootOffset] = root
           /\ \A x \in DOMAIN mem : x # rootOffset => Whole[x] = mem[x]
           /\ dataOffset \in DOMAIN mem /\ rootOffset \in DOMAIN mem /\ rootOffset # 0
           /\ dataOffset # rootOffset /\ root \in Nodes(Len(mem)) /\ node \in Nodes(Len(mem))
           /\ node.red /\ node = Whole[dataOffset] /\ node.parent = rootOffset
<1>1. PICK h : Tree(Whole, h, dataOffset)
  BY DEF TreeInv, Exception
<1>2. mem # <<>> /\ RootOffset \in DOMAIN mem /\ CopiesInv /\ FixInv
  BY DEF TreeInv
<1>3. Whole \in Seq(Nodes(Len(Whole)))
  BY <1>1 DEF Tree
<1>4. /\ Len(Whole) = Len(mem) /\ DOMAIN Whole = DOMAIN mem
      /\ Whole[rootOffset] = root
      /\ \A x \in DOMAIN mem : x # rootOffset => Whole[x] = mem[x]
      /\ mem \in Seq(Nodes(Len(mem)))
  <2>1. CASE pc = "outer"
    <3>1. Whole = mem
      BY <2>1 DEF Whole
    <3>2. QED
      BY <1>2, <1>3, <3>1 DEF FixInv
  <2>2. CASE pc # "outer"
    <3>1. Whole = [mem EXCEPT ![rootOffset] = root]
      BY <2>2 DEF Whole
    <3>2. rootOffset \in DOMAIN mem /\ root \in Nodes(Len(mem)) /\ mem \in Seq(Nodes(Len(mem)))
      BY <1>2 DEF CopiesInv
    <3>3. QED
      BY <3>1, <3>2, Replaced
  <2>3. QED
    BY <2>1, <2>2
<1>5. QED
  BY <1>1, <1>2, <1>3, <1>4, NodesAre DEF CopiesInv, FixInv

LEMMA NoException ==
    ASSUME NEW m, NEW h, NEW d, Tree(m, h, d), d \in DOMAIN m, ~m[m[d].parent].red
    PROVE  Tree(m, h, 0)
<1>1. Coloured(m, 0)
  BY DEF Tree, Coloured
<1>2. QED
  BY <1>1 DEF Tree

LEMMA PlacedStep ==
    ASSUME TreeInv, Placed
    PROVE  TreeInv'
<1>1. pc = "placed" /\ RootOffset' = RootOffset
  BY DEF Placed
<1>2. /\ \E h : Tree(Whole, h, dataOffset)
      /\ mem \in Seq(Nodes(Len(mem))) /\ Len(mem) \in Nat /\ DOMAIN mem = 1..Len(mem)
      /\ mem # <<>> /\ RootOffset \in DOMAIN mem
      /\ Len(Whole) = Len(mem) /\ DOMAIN Whole = DOMAIN mem
      /\ Whole[rootOffset] = root
      /\ dataOffset \in DOMAIN mem /\ rootOffset \in DOMAIN mem
      /\ node = Whole[dataOffset] /\ node.parent = rootOffset
  BY <1>1, FixFacts
<1>3. Whole[RootOffset].parent = 0
  BY <1>1 DEF TreeInv, FixInv
<1>4. PICK h : Tree(Whole, h, dataOffset)
  BY <1>2
<1>5. Whole = [mem EXCEPT ![rootOffset] = root]
  BY <1>1 DEF Whole
<1>6. CASE ~root.red \/ root.parent = 0
  <2>1. mem' = Whole /\ pc' = "ready"
    BY <1>5, <1>6, <1>1 DEF Placed, Return
  <2>2. ~root.red
    BY <1>2, <1>4, <1>6 DEF Tree, Coloured
  <2>3. Tree(Whole, h, 0)
    BY <1>2, <1>4, <2>2, NoException
  <2>4. Whole' = Whole /\ Exception' = 0
    BY <2>1 DEF Whole, Exception
  <2>5. Whole # <<>>
    BY <1>2
  <2>6. QED
    BY <1>1, <1>2, <1>3, <2>1, <2>3, <2>4, <2>5 DEF TreeInv
<1>7. CASE ~(~root.red \/ root.parent = 0)
  <2>1. pc' = "fix" /\ UNCHANGED <<mem, RootOffset, dataOffset, node, rootOffset, root>> /\ root.red
    BY <1>7 DEF Placed, locals
  <2>2. Whole' = Whole /\ Exception' = dataOffset
    BY <1>1, <2>1 DEF Whole, Exception
  <2>3. CopiesInv'
    BY <1>1, <2>1 DEF TreeInv, CopiesInv
  <2>4. FixInv'
    BY <1>1, <2>1, <2>2 DEF TreeInv, FixInv
  <2>5. QED
    BY <1>2, <1>4, <2>1, <2>2, <2>3, <2>4 DEF TreeInv
<1>8. QED
  BY <1>6, <1>7

\* While it is fixed, its parent is red and has a parent; the sibling of the parent is
\* another child of that.
LEMMA GrandIs ==
    ASSUME TreeInv, pc = "fix"
    PROVE  /\ root.red /\ root.parent \in DOMAIN mem /\ root.parent # rootOffset
           /\ Grand = Whole[root.parent] /\ Grand = mem[root.parent]
           /\ \E side \in Sides : /\ Grand[side] = rootOffset
                                  /\ Grand[Other(side)] = Uncle /\ Uncle # rootOffset
           /\ Uncle \in {0} \cup DOMAIN mem
           /\ Uncle # 0 => Whole[Uncle].parent = root.parent /\ mem[Uncle] = Whole[Uncle]
<1>1. /\ \E h : Tree(Whole, h, dataOffset)
      /\ Len(Whole) = Len(mem) /\ DOMAIN Whole = DOMAIN mem
      /\ Whole[rootOffset] = root
      /\ \A x \in DOMAIN mem : x # rootOffset => Whole[x] = mem[x]
      /\ rootOffset \in DOMAIN mem /\ rootOffset # 0
      /\ node.parent = rootOffset
  BY FixFacts
<1>2. root.red
  BY DEF TreeInv, FixInv
<1>3. /\ Linked(Whole) /\ Coloured(Whole, dataOffset) /\ Whole \in Seq(Nodes(Len(Whole)))
  BY <1>1 DEF Tree
<1>4. /\ \A x \in DOMAIN mem, s \in Sides : Whole[x][s] \in {0} \cup DOMAIN mem
      /\ \A x \in DOMAIN mem : Whole[x].parent \in {0} \cup DOMAIN mem
  BY <1>1, <1>3, NodesAre
<1>5. root.parent \in DOMAIN mem /\ root.parent # 0 /\ root.parent # rootOffset
  BY <1>1, <1>2, <1>3, <1>4 DEF Coloured, Linked
<1>6. Grand = Whole[root.parent] /\ Grand = mem[root.parent]
  BY <1>1, <1>5 DEF Grand
<1>7. Uncle = IF Grand.left = rootOffset THEN Grand.right ELSE Grand.left
  BY <1>1 DEF Uncle
<1>8. /\ \E s \in Sides : Grand[s] = rootOffset
      /\ Grand.left = Grand.right => Grand.left = 0
      /\ \A s \in Sides : Grand[s] # 0 => Whole[Grand[s]].parent = root.parent
  BY <1>1, <1>3, <1>5, <1>6 DEF Linked
<1>9. PICK side \in Sides : Grand[side] = rootOffset
  BY <1>8
<1>10. Grand[Other(side)] = Uncle /\ Uncle # rootOffset
  <2>1. CASE side = "left"
    BY <1>1, <1>7, <1>8, <1>9, <2>1 DEF Other
  <2>2. CASE side = "right"
    BY <1>1, <1>7, <1>8, <1>9, <2>2 DEF Other
  <2>3. QED
    BY <2>1, <2>2 DEF Sides
<1>11. Other(side) \in Sides
  BY OtherSide
<1>12. Uncle \in {0} \cup DOMAIN mem
  BY <1>4, <1>5, <1>6, <1>10, <1>11
<1>13. Uncle # 0 => Whole[Uncle].parent = root.parent /\ mem[Uncle] = Whole[Uncle]
  BY <1>1, <1>8, <1>10, <1>11, <1>12
<1>14. QED
  BY <1>2, <1>5, <1>6, <1>9, <1>10, <1>12, <1>13

\* What case 3 leaves in the region.
LEMMA RecolourIs ==
    ASSUME TreeInv, Recolour
    PROVE  /\ SameLinks(Whole, mem')
           /\ \A x \in DOMAIN mem :
                 mem'[x].red = IF x = rootOffset \/ x = Uncle THEN FALSE
                               ELSE IF x = root.parent THEN Grand.parent # 0 ELSE Whole[x].red
           /\ SameValues(Whole, mem')
           /\ parentRoot' = mem'[root.parent]
<1> DEFINE p == rootOffset
           g == root.parent
           u == Uncle
           black == [root EXCEPT !.red = FALSE]
           uncle == [mem[u] EXCEPT !.red = FALSE]
           grand == [Grand EXCEPT !.red = Grand.parent # 0]
           m1 == [mem EXCEPT ![p] = black]
           m2 == [m1 EXCEPT ![u] = uncle]
           m3 == [m2 EXCEPT ![g] = grand]
           S == Nodes(Len(mem))
<1>1. pc = "fix" /\ UncleIsRed
  BY DEF Recolour
<1>2. /\ mem \in Seq(S) /\ DOMAIN mem = 1..Len(mem) /\ Len(mem) \in Nat
      /\ Len(Whole) = Len(mem) /\ DOMAIN Whole = DOMAIN mem
      /\ \A x \in DOMAIN mem : mem[x] \in S
      /\ Whole[p] = root /\ p \in DOMAIN mem /\ root \in S
      /\ \A x \in DOMAIN mem : x # p => Whole[x] = mem[x]
  BY <1>1, FixFacts
<1>3. /\ g \in DOMAIN mem /\ g # p /\ Grand = Whole[g] /\ Grand = mem[g]
      /\ u \in {0} \cup DOMAIN mem /\ u # p
      /\ u # 0 => Whole[u].parent = g /\ mem[u] = Whole[u]
  BY <1>1, GrandIs
<1>4. u \in DOMAIN mem /\ u # g
  <2>1. u # 0 /\ u \in DOMAIN mem
    BY <1>1, <1>3 DEF UncleIsRed
  <2>2. Linked(Whole)
    BY <1>1, FixFacts DEF Tree
  <2>3. QED
    BY <1>2, <1>3, <2>1, <2>2 DEF Linked
<1>5. m1[u] = mem[u]
  BY <1>2, <1>3, <1>4
<1>6. mem' = m3 /\ parentRoot' = grand
  <2>1. parentRoot' = grand
    BY DEF Recolour
  <2>2. mem' = [[m1 EXCEPT ![u] = [m1[u] EXCEPT !.red = FALSE]] EXCEPT ![g] = parentRoot']
    BY DEF Recolour
  <2>3. QED
    BY <1>5, <2>1, <2>2
<1>7. black \in S /\ black.red = FALSE /\ black.parent = root.parent
      /\ black.value = root.value /\ \A s \in Sides : black[s] = root[s]
  BY <1>2 DEF Nodes, Sides
<1>8. uncle \in S /\ uncle.red = FALSE /\ uncle.parent = mem[u].parent
      /\ uncle.value = mem[u].value /\ \A s \in Sides : uncle[s] = mem[u][s]
  <2>1. mem[u] \in S
    BY <1>2, <1>4
  <2>2. QED
    BY <2>1 DEF Nodes, Sides
<1>9. grand \in S /\ grand.red = (Grand.parent # 0) /\ grand.parent = Grand.parent
      /\ grand.value = Grand.value /\ \A s \in Sides : grand[s] = Grand[s]
  <2>1. Grand \in S
    BY <1>2, <1>3
  <2>2. QED
    BY <2>1 DEF Nodes, Sides
<1> HIDE DEF black, uncle, grand
<1>10. /\ m1 \in Seq(S) /\ Len(m1) = Len(mem) /\ DOMAIN m1 = DOMAIN mem /\ m1[p] = black
       /\ \A x \in DOMAIN mem : x # p => m1[x] = mem[x]
  BY <1>2, <1>7, Replaced
<1> HIDE DEF m1
<1>11. /\ m2 \in Seq(S) /\ Len(m2) = Len(m1) /\ DOMAIN m2 = DOMAIN m1 /\ m2[u] = uncle
       /\ \A x \in DOMAIN m1 : x # u => m2[x] = m1[x]
  BY <1>4, <1>8, <1>10, Replaced
<1> HIDE DEF m2
<1>12. /\ m3 \in Seq(S) /\ Len(m3) = Len(m2) /\ DOMAIN m3 = DOMAIN m2 /\ m3[g] = grand
       /\ \A x \in DOMAIN m2 : x # g => m3[x] = m2[x]
  BY <1>3, <1>9, <1>10, <1>11, Replaced
<1> HIDE DEF m3
<1>13. /\ m3[p] = black /\ m3[u] = uncle /\ m3[g] = grand
       /\ \A x \in DOMAIN mem : x # p /\ x # u /\ x # g => m3[x] = Whole[x]
  BY <1>2, <1>3, <1>4, <1>10, <1>11, <1>12
<1>14. ASSUME NEW x \in DOMAIN mem
       PROVE  /\ m3[x].parent = Whole[x].parent /\ \A s \in Sides : m3[x][s] = Whole[x][s]
              /\ m3[x].red = IF x = p \/ x = u THEN FALSE
                             ELSE IF x = g THEN Grand.parent # 0 ELSE Whole[x].red
  <2>1. CASE x = p
    BY <1>2, <1>7, <1>13, <2>1
  <2>2. CASE x = u
    <3>1. m3[x] = uncle /\ Whole[x] = mem[u] /\ x # p
      BY <1>2, <1>3, <1>4, <1>13, <2>2
    <3>2. m3[x].red = FALSE /\ m3[x].parent = Whole[x].parent
      BY <1>8, <3>1
    <3>3. \A s \in Sides : m3[x][s] = Whole[x][s]
      BY <1>8, <3>1
    <3>4. QED
      BY <2>2, <3>2, <3>3
  <2>3. CASE x = g
    <3>1. m3[x] = grand /\ Whole[x] = Grand /\ x # p /\ x # u
      BY <1>3, <1>4, <1>13, <2>3
    <3>2. m3[x].red = (Grand.parent # 0)
      BY <1>9, <3>1
    <3>3. m3[x].parent = Whole[x].parent /\ \A s \in Sides : m3[x][s] = Whole[x][s]
      BY <1>9, <3>1
    <3>4. QED
      BY <2>3, <3>1, <3>2, <3>3
  <2>4. CASE x # p /\ x # u /\ x # g
    BY <1>13, <2>4
  <2>5. QED
    BY <2>1, <2>2, <2>3, <2>4
<1>15. SameValues(Whole, m3)
  <2>1. ASSUME NEW x \in DOMAIN mem PROVE m3[x].value = Whole[x].value
    <3>1. CASE x = p
      BY <1>2, <1>7, <1>13, <3>1
    <3>2. CASE x = u
      BY <1>2, <1>3, <1>4, <1>8, <1>13, <3>2
    <3>3. CASE x = g
      BY <1>3, <1>4, <1>9, <1>13, <3>3
    <3>4. CASE x # p /\ x # u /\ x # g
      BY <1>13, <3>4
    <3>5. QED
      BY <3>1, <3>2, <3>3, <3>4
  <2>2. QED
    BY <1>2, <2>1 DEF SameValues
<1>16. SameLinks(Whole, m3)
  BY <1>2, <1>10, <1>11, <1>12, <1>14 DEF SameLinks
<1>17. QED
  BY <1>6, <1>13, <1>14, <1>15, <1>16

LEMMA RecolourStep ==
    ASSUME TreeInv, Recolour
    PROVE  TreeInv'
<1> DEFINE p == rootOffset
           g == root.parent
           up == Grand.parent
           u == Uncle
<1>1. pc = "fix" /\ UncleIsRed /\ RootOffset' = RootOffset
  BY DEF Recolour
<1>2. /\ DOMAIN mem = 1..Len(mem) /\ Len(mem) \in Nat /\ mem # <<>> /\ RootOffset \in DOMAIN mem
      /\ Len(Whole) = Len(mem) /\ DOMAIN Whole = DOMAIN mem
      /\ Whole[p] = root /\ p \in DOMAIN mem /\ p # 0
      /\ dataOffset \in DOMAIN mem /\ node = Whole[dataOffset] /\ node.parent = p
      /\ Whole \in Seq(Nodes(Len(Whole)))
      /\ \A x \in DOMAIN mem : x # p => Whole[x] = mem[x]
  BY <1>1, FixFacts
<1>3. PICK h : Tree(Whole, h, dataOffset)
  BY <1>1, FixFacts
<1>4. /\ root.red /\ g \in DOMAIN mem /\ g # p /\ Grand = Whole[g]
      /\ \E side \in Sides : Grand[side] = p /\ Grand[Other(side)] = u
      /\ u \in {0} \cup DOMAIN mem /\ u # p
      /\ u # 0 => mem[u] = Whole[u]
  BY <1>1, GrandIs
<1>5. /\ SameLinks(Whole, mem')
      /\ \A x \in DOMAIN mem :
            mem'[x].red = IF x = p \/ x = u THEN FALSE ELSE IF x = g THEN up # 0 ELSE Whole[x].red
      /\ parentRoot' = mem'[g]
  BY RecolourIs
<1>6. u \in DOMAIN mem /\ Whole[u].red
  BY <1>1, <1>4 DEF UncleIsRed
<1>7. PICK side \in Sides : Grand[side] = p /\ Grand[Other(side)] = u
  BY <1>4
<1>8. \E h2 : Tree(mem', h2, g) /\ (up = 0 \/ ~Whole[up].red => Tree(mem', h2, 0))
  <2>1. /\ dataOffset # 0 /\ dataOffset \in DOMAIN Whole /\ Whole[dataOffset].parent = p
        /\ Whole[p].red /\ Whole[u].red /\ Whole[g][side] = p /\ Whole[g][Other(side)] = u
    BY <1>2, <1>4, <1>6, <1>7
  <2>2. Repainted(Whole, p, u, g, mem')
    BY <1>2, <1>4, <1>5 DEF Repainted
  <2>3. p \in DOMAIN Whole /\ g \in DOMAIN Whole /\ u \in DOMAIN Whole
    BY <1>2, <1>4, <1>6
  <2>4. \E h2 : /\ Tree(mem', h2, g)
                /\ Whole[g].parent = 0 \/ ~Whole[Whole[g].parent].red => Tree(mem', h2, 0)
    BY <1>3, <1>5, <2>1, <2>2, <2>3, RecolouredTree
  <2>5. QED
    BY <1>4, <2>4
<1>9. PICK h2 : Tree(mem', h2, g) /\ (up = 0 \/ ~Whole[up].red => Tree(mem', h2, 0))
  BY <1>8
<1>10. /\ mem' \in Seq(Nodes(Len(mem))) /\ Len(mem') = Len(mem)
       /\ \A x \in DOMAIN mem : mem'[x].parent = Whole[x].parent
  BY <1>2, <1>5 DEF SameLinks
<1>11. DOMAIN mem' = DOMAIN mem /\ mem' # <<>>
  BY <1>2, <1>10
<1>12. up # 0 => up \in DOMAIN mem /\ up # g
  BY <1>2, <1>3, <1>4, NodesAre DEF Tree, Linked
<1> HIDE DEF p, g, up, u
<1>13. CASE up = 0
  <2>1. pc' = "findroot"
    BY <1>13 DEF Recolour, up
  <2>2. Whole' = mem' /\ Exception' = 0
    BY <2>1 DEF Whole, Exception
  <2>3. QED
    BY <1>1, <1>2, <1>9, <1>11, <1>13, <2>1, <2>2 DEF TreeInv
<1>14. CASE up # 0
  <2>1. rootOffset' = up /\ root' = mem'[up]
    BY <1>14 DEF Recolour, up
  <2>2. mem'[up].red => Whole[up].red
    BY <1>5, <1>12, <1>14
  <2>3. mem'[up].red => mem'[up].parent # 0
    BY <1>9, <1>11, <1>12, <1>14 DEF Tree, Coloured
  <2>4. CASE ~mem'[up].red
    <3>1. pc' = "findroot"
      BY <1>14, <2>1, <2>4 DEF Recolour, up
    <3>2. Whole' = mem' /\ Exception' = 0
      BY <3>1 DEF Whole, Exception
    <3>3. Tree(mem', h2, 0)
      <4>1. mem'[g].parent = up
        BY <1>4, <1>10 DEF up, g
      <4>2. QED
        BY <1>4, <1>9, <1>11, <2>4, <4>1, NoException
    <3>4. QED
      BY <1>1, <1>2, <1>11, <3>1, <3>2, <3>3 DEF TreeInv
  <2>5. CASE mem'[up].red
    <3>1. pc' = pc /\ node' = parentRoot' /\ dataOffset' = g
      BY <1>14, <2>1, <2>3, <2>5 DEF Recolour, up, g
    <3>2. [mem' EXCEPT ![up] = mem'[up]] = mem'
      BY <1>10, <1>11, <1>12, <1>14
    <3>3. Whole' = mem' /\ Exception' = g
      BY <1>1, <2>1, <3>1, <3>2 DEF Whole, Exception
    <3>4. mem'[g].red /\ mem'[g].parent = up
      <4>1. g # u
        BY <1>2, <1>3, <1>4, <1>6, <1>7, OtherSide DEF Tree, Linked
      <4>2. mem'[g].red = (up # 0)
        BY <1>4, <1>5, <4>1
      <4>3. QED
        BY <1>4, <1>10, <1>14, <4>2 DEF up
    <3>5. mem'[g] \in Nodes(Len(mem)) /\ mem'[up] \in Nodes(Len(mem))
      BY <1>4, <1>10, <1>11, <1>12, <1>14
    <3>6. CopiesInv'
      BY <1>4, <1>5, <1>10, <1>11, <1>12, <1>14, <2>1, <3>1, <3>4, <3>5 DEF CopiesInv
    <3>7. FixInv'
      BY <1>1, <1>5, <2>1, <2>5, <3>1, <3>3, <3>4 DEF FixInv
    <3>8. QED
      BY <1>1, <1>2, <1>9, <1>11, <3>1, <3>3, <3>6, <3>7 DEF TreeInv
  <2>6. QED
    BY <2>4, <2>5
<1>15. QED
  BY <1>13, <1>14

\* The inner rotation.
LEMMA InnerTurned ==
    ASSUME TreeInv, pc = "fix", ~UncleIsRed, NEW side \in Sides,
           dataOffset = root[Other(side)], rootOffset = Grand[side],
           NEW q, q = Rotate(mem, Grand, root.parent, rootOffset, root, side)
    PROVE  /\ Down(Whole, rootOffset, side) = dataOffset
           /\ Turned(Whole, rootOffset, side, q) /\ SameColours(Whole, q)
<1> DEFINE p == rootOffset
           n == dataOffset
           g == root.parent
           u == Uncle
           opp == Other(side)
<1>1. /\ mem \in Seq(Nodes(Len(mem))) /\ DOMAIN mem = 1..Len(mem) /\ Len(mem) \in Nat
      /\ mem # <<>> /\ RootOffset \in DOMAIN mem
      /\ Whole \in Seq(Nodes(Len(mem))) /\ Len(Whole) = Len(mem) /\ DOMAIN Whole = DOMAIN mem
      /\ Whole[p] = root /\ p \in DOMAIN mem /\ p # 0 /\ n \in DOMAIN mem /\ n # p
      /\ node.red /\ node = Whole[n]
      /\ \A x \in DOMAIN mem : x # p => Whole[x] = mem[x]
  BY FixFacts
<1>2. PICK h : Tree(Whole, h, n)
  BY FixFacts
<1>3. /\ root.red /\ g \in DOMAIN mem /\ g # p /\ Grand = Whole[g]
      /\ \E s \in Sides : Grand[s] = p /\ Grand[Other(s)] = u
      /\ u \in {0} \cup DOMAIN mem /\ u # p
      /\ u # 0 => mem[u] = Whole[u]
  BY GrandIs
<1>4. opp \in Sides /\ opp # side /\ Other(opp) = side /\ \A s \in Sides : s = side \/ s = opp
  BY OtherSide
<1>5. Grand[side] = p /\ Grand[opp] = u
  BY <1>3, <1>4
<1>6. Down(Whole, p, side) = n /\ n # 0
  BY <1>1 DEF Down
<1>7. Turned(Whole, p, side, q) /\ SameColours(Whole, q)
  <2>1. /\ \A x \in DOMAIN Whole : x # p => mem[x] = Whole[x]
        /\ Whole[p].parent # 0 => Grand = Whole[Whole[p].parent]
        /\ Down(Whole, p, side) # 0 /\ p \in DOMAIN Whole /\ Len(mem) = Len(Whole)
        /\ mem \in Seq(Nodes(Len(Whole)))
    BY <1>1, <1>3, <1>6
  <2>2. q = Rotate(mem, Grand, Whole[p].parent, p, Whole[p], side)
    BY <1>1
  <2>3. QED
    BY <1>2, <2>1, <2>2, RotateIs
<1>8. QED
  BY <1>6, <1>7

\* What the inner rotation leaves in the region.
LEMMA InnerIs ==
    ASSUME TreeInv, pc = "fix", ~UncleIsRed, NEW side \in Sides,
           dataOffset = root[Other(side)], rootOffset = Grand[side],
           NEW q, q = Rotate(mem, Grand, root.parent, rootOffset, root, side)
    PROVE  /\ \E h : Tree(q, h, rootOffset)
           /\ q \in Seq(Nodes(Len(mem))) /\ Len(q) = Len(mem) /\ DOMAIN q = DOMAIN mem
           /\ q[dataOffset][side] = rootOffset /\ q[rootOffset].parent = dataOffset
           /\ q[dataOffset].parent = root.parent
           /\ q[root.parent][side] = dataOffset /\ q[root.parent][Other(side)] = Uncle
           /\ q[dataOffset].red /\ q[rootOffset].red
           /\ Uncle # 0 => ~q[Uncle].red
<1> DEFINE p == rootOffset
           n == dataOffset
           g == root.parent
           u == Uncle
           opp == Other(side)
<1>1. /\ mem \in Seq(Nodes(Len(mem))) /\ DOMAIN mem = 1..Len(mem) /\ Len(mem) \in Nat
      /\ mem # <<>> /\ RootOffset \in DOMAIN mem
      /\ Whole \in Seq(Nodes(Len(mem))) /\ Len(Whole) = Len(mem) /\ DOMAIN Whole = DOMAIN mem
      /\ Whole[p] = root /\ p \in DOMAIN mem /\ p # 0 /\ n \in DOMAIN mem /\ n # p
      /\ node.red /\ node = Whole[n]
      /\ \A x \in DOMAIN mem : x # p => Whole[x] = mem[x]
  BY FixFacts
<1>2. PICK h : Tree(Whole, h, n)
  BY FixFacts
<1>3. /\ root.red /\ g \in DOMAIN mem /\ g # p /\ Grand = Whole[g]
      /\ \E s \in Sides : Grand[s] = p /\ Grand[Other(s)] = u
      /\ u \in {0} \cup DOMAIN mem /\ u # p
      /\ u # 0 => mem[u] = Whole[u]
  BY GrandIs
<1>4. opp \in Sides /\ opp # side /\ Other(opp) = side /\ \A s \in Sides : s = side \/ s = opp
  BY OtherSide
<1>5. Grand[side] = p /\ Grand[opp] = u
  BY <1>3, <1>4
<1>6. Down(Whole, p, side) = n /\ n # 0
  BY <1>1 DEF Down
<1>7. Turned(Whole, p, side, q) /\ SameColours(Whole, q)
  BY InnerTurned
<1>8. Tree(q, h, p)
  <2>1. Whole[p].red /\ Whole[n].red /\ p \in DOMAIN Whole
    BY <1>1, <1>3
  <2>2. QED
    BY <1>2, <1>6, <1>7, <2>1, InnerTree
<1>9. Apart(Whole, p, side)
  BY <1>1, <1>2, <1>6, RotationApart
<1>10. /\ q \in Seq(Nodes(Len(mem))) /\ Len(q) = Len(mem) /\ DOMAIN q = DOMAIN mem
       /\ \A x \in DOMAIN mem : q[x].red = Whole[x].red
  BY <1>1, <1>7 DEF Turned, SameColours
<1>11. g # n /\ g = Whole[p].parent
  BY <1>1, <1>6, <1>9 DEF Apart
<1>12. /\ q[n][side] = p /\ q[p].parent = n /\ q[n].parent = g
       /\ q[g][side] = n /\ q[g][opp] = u
  <2>1. q[p].parent = n /\ q[n].parent = g
    BY <1>1, <1>6, <1>7, <1>11 DEF Turned
  <2>2. q[n][side] = p
    BY <1>1, <1>6, <1>7 DEF Turned
  <2>3. \A s \in Sides : q[g][s] = IF Whole[g][s] = p THEN n ELSE Whole[g][s]
    BY <1>1, <1>3, <1>6, <1>7, <1>11 DEF Turned
  <2>4. Whole[g][side] = p /\ Whole[g][opp] = u /\ u # p
    BY <1>3, <1>5
  <2>5. QED
    BY <1>4, <2>1, <2>2, <2>3, <2>4
<1>13. q[p].red /\ q[n].red
  BY <1>1, <1>3, <1>10
<1>14. u # 0 => ~q[u].red
  BY <1>3, <1>10 DEF UncleIsRed
<1>15. QED
  BY <1>8, <1>10, <1>12, <1>13, <1>14

\* What is then loaded from it.
InnerCopies(q, side) ==
    /\ mem' = q /\ dataOffset' = q[dataOffset][side] /\ node' = q[dataOffset']
    /\ rootOffset' = node'.parent /\ root' = q[rootOffset']
    /\ parentRootOffset' = root'.parent /\ parentRoot' = q[parentRootOffset']

\* The two ways through the first half of case 4.
LEMMA InnerStep ==
    ASSUME TreeInv, pc = "fix", ~UncleIsRed, NEW side \in Sides,
           dataOffset = root[Other(side)], rootOffset = Grand[side],
           InnerCopies(Rotate(mem, Grand, root.parent, rootOffset, root, side), side),
           pc' = "outer", RootOffset' = RootOffset
    PROVE  TreeInv'
<1> DEFINE p == rootOffset
           n == dataOffset
           g == root.parent
           u == Uncle
           q == Rotate(mem, Grand, root.parent, rootOffset, root, side)
<1>1. /\ Len(mem) \in Nat /\ DOMAIN mem = 1..Len(mem) /\ mem # <<>> /\ RootOffset \in DOMAIN mem
      /\ p \in DOMAIN mem /\ n \in DOMAIN mem /\ n # p /\ n # 0
  BY FixFacts
<1>2. g \in DOMAIN mem
  BY GrandIs
<1>3. /\ \E h : Tree(q, h, p)
      /\ q \in Seq(Nodes(Len(mem))) /\ Len(q) = Len(mem) /\ DOMAIN q = DOMAIN mem
      /\ q[n][side] = p /\ q[p].parent = n /\ q[n].parent = g
      /\ q[g][side] = n /\ q[g][Other(side)] = u
      /\ q[n].red /\ q[p].red /\ (u # 0 => ~q[u].red)
  BY InnerIs
<1> HIDE DEF q
<1>4. q[p] \in Nodes(Len(mem)) /\ q[n] \in Nodes(Len(mem))
  BY <1>1, <1>3, ElementOfSeq
<1>5. /\ dataOffset' = p /\ node' = q[p] /\ rootOffset' = n /\ root' = q[n]
      /\ parentRootOffset' = g /\ parentRoot' = q[g] /\ mem' = q
  <2>1. InnerCopies(q, side)
    BY DEF q
  <2>2. QED
    BY <1>3, <2>1 DEF InnerCopies
<1>6. Whole' = q /\ Exception' = p
  BY <1>5 DEF Whole, Exception
<1> HIDE DEF p, n, g, u
<1>7. CopiesInv'
  BY <1>1, <1>3, <1>4, <1>5 DEF CopiesInv
<1>8. FixInv'
  BY <1>3, <1>5, <1>6 DEF FixInv
<1>9. OuterInv'
  <2>1. /\ q[n].left = q[n].right => q[n].left = 0
        /\ q[g].left = q[g].right => q[g].left = 0
    BY <1>1, <1>2, <1>3 DEF Tree, Linked
  <2>2. p # 0
    BY <1>1
  <2>3. p = q[n].left <=> n = q[g].left
    <3>1. CASE side = "left"
      BY <1>3, <3>1
    <3>2. CASE side = "right"
      BY <1>1, <1>3, <2>1, <2>2, <3>2
    <3>3. QED
      BY <3>1, <3>2 DEF Sides
  <2>4. \A s \in Sides : q[g][s] = n \/ q[g][s] = u
    BY <1>3, OtherSide
  <2>5. \A s \in Sides : q[g][s] # 0 /\ q[g][s] # n => ~q[q[g][s]].red
    BY <1>3, <2>4
  <2>6. QED
    BY <1>3, <1>5, <2>3, <2>5 DEF OuterInv
<1>10. q # <<>>
  BY <1>1, <1>3
<1>11. QED
  BY <1>1, <1>3, <1>5, <1>6, <1>7, <1>8, <1>9, <1>10 DEF TreeInv

LEMMA NoInnerStep ==
    ASSUME TreeInv, pc = "fix", ~UncleIsRed, NEW side \in Sides,
           dataOffset = root[Other(side)], rootOffset # Grand[side],
           mem' = [mem EXCEPT ![rootOffset] = root],
           parentRootOffset' = root.parent, parentRoot' = Grand,
           UNCHANGED <<dataOffset, node, rootOffset, root>>,
           pc' = "outer", RootOffset' = RootOffset
    PROVE  TreeInv'
<1> DEFINE p == rootOffset
           n == dataOffset
           g == root.parent
           u == Uncle
           opp == Other(side)
<1>1. /\ mem \in Seq(Nodes(Len(mem))) /\ DOMAIN mem = 1..Len(mem) /\ Len(mem) \in Nat
      /\ mem # <<>> /\ RootOffset \in DOMAIN mem
      /\ Whole \in Seq(Nodes(Len(mem))) /\ Len(Whole) = Len(mem) /\ DOMAIN Whole = DOMAIN mem
      /\ Whole[p] = root /\ p \in DOMAIN mem /\ p # 0 /\ n \in DOMAIN mem /\ n # p
      /\ node \in Nodes(Len(mem)) /\ root \in Nodes(Len(mem))
      /\ node.red /\ node = Whole[n] /\ node.parent = p
  BY FixFacts
<1>2. PICK h : Tree(Whole, h, n)
  BY FixFacts
<1>3. /\ root.red /\ g \in DOMAIN mem /\ g # p /\ Grand = Whole[g]
      /\ \E s \in Sides : Grand[s] = p /\ Grand[Other(s)] = u
      /\ u \in {0} \cup DOMAIN mem /\ u # p
      /\ u # 0 => mem[u] = Whole[u]
  BY GrandIs
<1>4. opp \in Sides /\ opp # side /\ Other(opp) = side /\ \A s \in Sides : s = side \/ s = opp
  BY OtherSide
<1>5. Grand[opp] = p /\ Grand[side] = u
  BY <1>3, <1>4
<1>6. Whole = [mem EXCEPT ![rootOffset] = root]
  BY DEF Whole
<1>7. mem' = Whole
  BY <1>6
<1>8. Whole' = mem' /\ Exception' = n
  BY DEF Whole, Exception
<1>9. CopiesInv'
  BY <1>1, <1>7 DEF CopiesInv
<1>10. FixInv'
  BY <1>1, <1>3, <1>7, <1>8 DEF FixInv
<1>11. OuterInv'
  <2>1. /\ root.left = root.right => root.left = 0
        /\ Grand.left = Grand.right => Grand.left = 0
    BY <1>1, <1>2, <1>3 DEF Tree, Linked
  <2>2. n # 0
    BY <1>1
  <2>3. n = root.left <=> p = Grand.left
    <3>1. CASE side = "left"
      <4>1. opp = "right"
        BY <3>1 DEF Other
      <4>2. QED
        BY <1>1, <1>5, <2>1, <2>2, <4>1
    <3>2. CASE side = "right"
      <4>1. opp = "left"
        BY <3>2 DEF Other
      <4>2. QED
        BY <1>5, <4>1
    <3>3. QED
      BY <3>1, <3>2 DEF Sides
  <2>4. u # 0 => ~Whole[u].red
    BY <1>3 DEF UncleIsRed
  <2>5. \A s \in Sides : Grand[s] # 0 /\ Grand[s] # p => ~Whole[Grand[s]].red
    BY <1>4, <1>5, <2>4
  <2>6. QED
    BY <1>3, <1>7, <2>3, <2>5 DEF OuterInv
<1>12. QED
  BY <1>1, <1>2, <1>7, <1>8, <1>9, <1>10, <1>11 DEF TreeInv

LEMMA RotateInnerStep ==
    ASSUME TreeInv, RotateInner
    PROVE  TreeInv'
<1> DEFINE side == IF dataOffset = root.right THEN "left" ELSE "right"
<1>1. pc = "fix" /\ ~UncleIsRed /\ pc' = "outer" /\ RootOffset' = RootOffset
  BY DEF RotateInner
<1>2. side \in Sides
  BY DEF Sides
<1>3. dataOffset = root[Other(side)] /\ node.parent = rootOffset
  <2>1. \E h : Tree(Whole, h, dataOffset)
    BY <1>1, FixFacts
  <2>2. /\ DOMAIN Whole = DOMAIN mem /\ dataOffset \in DOMAIN mem /\ node = Whole[dataOffset]
        /\ node.parent = rootOffset /\ rootOffset # 0 /\ Whole[rootOffset] = root
    BY <1>1, FixFacts
  <2>3. \E s \in Sides : root[s] = dataOffset
    BY <2>1, <2>2 DEF Tree, Linked
  <2>4. dataOffset = root.left \/ dataOffset = root.right
    BY <2>3 DEF Sides
  <2>5. QED
    BY <2>2, <2>4 DEF Other
<1>4. CASE rootOffset = Grand[side]
  <2> DEFINE q == Rotate(mem, Grand, root.parent, rootOffset, root, side)
  <2>1. InnerCopies(q, side)
    BY <1>3, <1>4 DEF RotateInner, InnerCopies
  <2> HIDE DEF side
  <2>2. QED
    BY <1>1, <1>2, <1>3, <1>4, <2>1, InnerStep
<1>5. CASE rootOffset # Grand[side]
  <2>1. /\ mem' = [mem EXCEPT ![rootOffset] = root]
        /\ parentRootOffset' = root.parent /\ parentRoot' = Grand
        /\ UNCHANGED <<dataOffset, node, rootOffset, root>>
    BY <1>3, <1>5 DEF RotateInner
  <2> HIDE DEF side
  <2>2. QED
    BY <1>1, <1>2, <1>3, <1>5, <2>1, NoInnerStep
<1>6. QED
  BY <1>4, <1>5

LEMMA SwapColours ==
    ASSUME NEW m, m \in Seq(Nodes(Len(m))), NEW p \in DOMAIN m, NEW g \in DOMAIN m, p # g,
           NEW q, q = [m EXCEPT ![p].red = FALSE, ![g].red = TRUE]
    PROVE  SameLinks(m, q) /\ Swapped(m, p, g, q) /\ SameValues(m, q)
<1> DEFINE S == Nodes(Len(m))
           black == [m[p] EXCEPT !.red = FALSE]
           red == [m[g] EXCEPT !.red = TRUE]
           m1 == [m EXCEPT ![p] = black]
           m2 == [m1 EXCEPT ![g] = red]
<1>1. \A x \in DOMAIN m : m[x] \in S
  BY NodesAre
<1>2. m1[g] = m[g]
  OBVIOUS
<1>3. q = m2
  BY <1>2
<1>4. black \in S /\ black.red = FALSE /\ black.parent = m[p].parent
      /\ black.value = m[p].value /\ \A s \in Sides : black[s] = m[p][s]
  <2>1. m[p] \in S
    BY <1>1
  <2>2. QED
    BY <2>1 DEF Nodes, Sides
<1>5. red \in S /\ red.red = TRUE /\ red.parent = m[g].parent
      /\ red.value = m[g].value /\ \A s \in Sides : red[s] = m[g][s]
  <2>1. m[g] \in S
    BY <1>1
  <2>2. QED
    BY <2>1 DEF Nodes, Sides
<1> HIDE DEF black, red
<1>6. /\ m1 \in Seq(S) /\ Len(m1) = Len(m) /\ DOMAIN m1 = DOMAIN m /\ m1[p] = black
      /\ \A x \in DOMAIN m : x # p => m1[x] = m[x]
  BY <1>4, Replaced
<1> HIDE DEF m1
<1>7. /\ m2 \in Seq(S) /\ Len(m2) = Len(m1) /\ m2[g] = red
      /\ \A x \in DOMAIN m1 : x # g => m2[x] = m1[x]
  BY <1>5, <1>6, Replaced
<1> HIDE DEF m2
<1>8. ASSUME NEW x \in DOMAIN m
      PROVE  /\ m2[x].parent = m[x].parent /\ \A s \in Sides : m2[x][s] = m[x][s]
             /\ m2[x].red = IF x = p THEN FALSE ELSE IF x = g THEN TRUE ELSE m[x].red
  <2>1. CASE x = p
    BY <1>4, <1>6, <1>7, <2>1
  <2>2. CASE x = g
    BY <1>5, <1>7, <2>2
  <2>3. CASE x # p /\ x # g
    BY <1>6, <1>7, <2>3
  <2>4. QED
    BY <2>1, <2>2, <2>3
<1>9. SameLinks(m, m2)
  BY <1>6, <1>7, <1>8 DEF SameLinks
<1>10. Swapped(m, p, g, m2)
  BY <1>8 DEF Swapped
<1>11. SameValues(m, m2)
  BY <1>4, <1>5, <1>6, <1>7 DEF SameValues
<1>12. QED
  BY <1>3, <1>9, <1>10, <1>11

\* The outer rotation, with the colours of parent and grandparent swapped.
LEMMA OuterIs ==
    ASSUME TreeInv, RotateOuter
    PROVE  \E side \in Sides :
              /\ parentRootOffset \in DOMAIN mem /\ rootOffset \in DOMAIN mem /\ rootOffset # 0
              /\ Down(mem, parentRootOffset, side) = rootOffset
              /\ mem[rootOffset][Other(side)] = dataOffset /\ mem[rootOffset].red
              /\ mem[parentRootOffset][side] # 0 => ~mem[mem[parentRootOffset][side]].red
              /\ Turned(mem, parentRootOffset, side, mem')
              /\ Swapped(mem, rootOffset, parentRootOffset, mem')
              /\ SameValues(mem, mem')
<1> DEFINE p == rootOffset
           n == dataOffset
           g == parentRootOffset
           above == IF parentRoot.parent # 0 THEN mem[parentRoot.parent] ELSE node
           side == IF dataOffset = root.left THEN "right" ELSE "left"
           rotated == Rotate(mem, above, parentRoot.parent, g, parentRoot, side)
<1>1. /\ pc = "outer" /\ pc' = "findroot" /\ RootOffset' = RootOffset
      /\ mem' = [rotated EXCEPT ![p].red = FALSE, ![g].red = TRUE]
  BY DEF RotateOuter
<1>2. /\ mem \in Seq(Nodes(Len(mem))) /\ DOMAIN mem = 1..Len(mem) /\ Len(mem) \in Nat
      /\ mem # <<>> /\ RootOffset \in DOMAIN mem
      /\ p \in DOMAIN mem /\ p # 0 /\ n \in DOMAIN mem /\ n # p
      /\ node.parent = p
      /\ \A x \in DOMAIN mem : mem[x] \in Nodes(Len(mem))
  BY <1>1, FixFacts
<1>3. Whole = mem
  BY <1>1 DEF Whole
<1>4. PICK h : Tree(mem, h, n)
  BY <1>1, <1>3, FixFacts
<1>5. root = mem[p] /\ node = mem[n] /\ root.red
  BY <1>1, <1>3 DEF TreeInv, FixInv
<1>6. /\ g = root.parent /\ parentRoot = mem[g]
      /\ n = root.left <=> p = parentRoot.left
      /\ \A s \in Sides : parentRoot[s] # 0 /\ parentRoot[s] # p => ~mem[parentRoot[s]].red
  BY <1>1 DEF TreeInv, OuterInv
<1>7. side \in Sides
  BY DEF Sides
<1>8. g \in DOMAIN mem /\ g # p /\ g # 0
  BY <1>2, <1>4, <1>5, <1>6, NodesAre DEF Tree, Coloured, Linked
<1>9. (n = root.left \/ n = root.right) /\ (p = parentRoot.left \/ p = parentRoot.right)
  <2>1. /\ \E s \in Sides : root[s] = n
        /\ \E s \in Sides : parentRoot[s] = p
    BY <1>2, <1>4, <1>5, <1>6, <1>8 DEF Tree, Linked
  <2>2. QED
    BY <2>1 DEF Sides
<1>10. parentRoot[Other(side)] = p /\ root[Other(side)] = n
  <2>1. CASE n = root.left
    <3>1. Other(side) = "left"
      BY <2>1 DEF Other
    <3>2. QED
      BY <1>6, <2>1, <3>1
  <2>2. CASE n # root.left
    <3>1. Other(side) = "right"
      BY <2>2 DEF Other
    <3>2. QED
      BY <1>6, <1>9, <2>2, <3>1
  <2>3. QED
    BY <2>1, <2>2
<1> HIDE DEF side
<1>11. Other(side) \in Sides /\ Other(side) # side
  BY <1>7, OtherSide
<1>12. Down(mem, g, side) = p
  BY <1>6, <1>10 DEF Down
<1>13. parentRoot[side] # p
  BY <1>2, <1>4, <1>6, <1>7, <1>8, <1>10, <1>11 DEF Tree, Linked, Sides
<1>14. Turned(mem, g, side, rotated) /\ SameColours(mem, rotated)
  <2>1. mem[g].parent # 0 => above = mem[mem[g].parent]
    BY <1>6
  <2> HIDE DEF above
  <2>2. rotated = Rotate(mem, above, mem[g].parent, g, mem[g], side)
    BY <1>6
  <2>3. \A x \in DOMAIN mem : x # g => mem[x] = mem[x]
    OBVIOUS
  <2>4. Down(mem, g, side) # 0
    BY <1>2, <1>12
  <2>5. QED
    BY <1>2, <1>4, <1>7, <1>8, <2>1, <2>2, <2>3, <2>4, RotateIs
<1> HIDE DEF rotated, p, n, g
<1>15. rotated \in Seq(Nodes(Len(rotated))) /\ Len(rotated) = Len(mem) /\ DOMAIN rotated = DOMAIN mem
  BY <1>2, <1>14 DEF Turned
<1>16. SameLinks(rotated, mem') /\ Swapped(rotated, p, g, mem') /\ SameValues(rotated, mem')
  BY <1>1, <1>2, <1>8, <1>15, SwapColours
<1>17. Turned(mem, g, side, mem')
  BY <1>14, <1>15, <1>16 DEF Turned, SameLinks
<1>18. Swapped(mem, p, g, mem') /\ SameValues(mem, mem')
  BY <1>14, <1>15, <1>16 DEF SameColours, Swapped, SameValues
<1>19. mem[g][side] # 0 => ~mem[mem[g][side]].red
  BY <1>6, <1>7, <1>13
<1>20. mem[p][Other(side)] = n /\ mem[p].red
  BY <1>5, <1>10
<1>21. QED
  BY <1>2, <1>7, <1>8, <1>12, <1>17, <1>18, <1>19, <1>20 DEF p, n, g

LEMMA RotateOuterStep ==
    ASSUME TreeInv, RotateOuter
    PROVE  TreeInv'
<1> DEFINE q == mem'
           p == rootOffset
           g == parentRootOffset
<1>1. pc = "outer" /\ pc' = "findroot" /\ RootOffset' = RootOffset
  BY DEF RotateOuter
<1>2. /\ mem # <<>> /\ RootOffset \in DOMAIN mem /\ \E h : Tree(Whole, h, dataOffset)
      /\ DOMAIN mem = 1..Len(mem) /\ Len(mem) \in Nat
  BY <1>1, FixFacts
<1>3. Whole = mem
  BY <1>1 DEF Whole
<1>4. PICK h : Tree(mem, h, dataOffset)
  BY <1>2, <1>3
<1>5. PICK side \in Sides :
        /\ g \in DOMAIN mem /\ p \in DOMAIN mem /\ p # 0
        /\ Down(mem, g, side) = p /\ mem[p][Other(side)] = dataOffset /\ mem[p].red
        /\ mem[g][side] # 0 => ~mem[mem[g][side]].red
        /\ Turned(mem, g, side, q) /\ Swapped(mem, p, g, q)
  BY OuterIs
<1> HIDE DEF q, p, g
<1>6. \E h2 : Tree(q, h2, 0)
  <2>1. /\ Down(mem, g, side) # 0 /\ mem[Down(mem, g, side)].red
        /\ dataOffset = mem[Down(mem, g, side)][Other(side)]
        /\ Swapped(mem, Down(mem, g, side), g, q)
    BY <1>5
  <2>2. QED
    BY <1>4, <1>5, <2>1, OuterTree
<1>7. Whole' = q /\ Exception' = 0
  BY <1>1 DEF Whole, Exception, q
<1>8. DOMAIN q = DOMAIN mem /\ q # <<>>
  BY <1>2, <1>5 DEF Turned
<1>9. QED
  BY <1>1, <1>2, <1>6, <1>7, <1>8 DEF TreeInv, q

-----------------------------------------------------------------------------
(* The theorem.                                                             *)

LEMMA InsertStep ==
    ASSUME TreeInv, NEW k \in Keys, NEW withValue \in BOOLEAN, Insert(k, withValue)
    PROVE  TreeInv'
BY FirstInsert, LaterInsert

LEMMA PlaceStep ==
    ASSUME TreeInv, Place
    PROVE  TreeInv'
BY PlaceOverwrites, PlaceDescends, PlaceLinks

LEMMA RootStep ==
    ASSUME TreeInv, FindNewRoot \/ Reopen
    PROVE  TreeInv'
<1>1. pc \in {"findroot", "ready"} /\ pc' = "ready" /\ mem' = mem
  BY DEF FindNewRoot, Reopen, Return
<1>2. mem # <<>>
  BY DEF FindNewRoot, Reopen, TreeInv
<1>3. PICK h : Tree(mem, h, 0)
  BY <1>1 DEF TreeInv, Whole, Exception
<1>4. RootOffset \in DOMAIN mem /\ 1 \in DOMAIN mem
  BY <1>2, <1>3, NodesAre DEF TreeInv, Tree
<1>5. RootOffset' = Root(mem, RootOffset) \/ RootOffset' = Root(mem, 1)
  BY DEF FindNewRoot, Reopen
<1>6. RootOffset' \in DOMAIN mem /\ mem[RootOffset'].parent = 0
  BY <1>3, <1>4, <1>5, RootClimbs
<1>7. QED
  BY <1>1, <1>2, <1>6, QuietStep

LEMMA IteratorStep ==
    ASSUME TreeInv, (\E p \in IterPrefixes : GetAll(p)) \/ Next1 \/ IteratorEnds
    PROVE  TreeInv'
<1>1. /\ pc \in {"ready", "iterating"} /\ pc' \in {"ready", "iterating"} /\ mem' = mem
      /\ RootOffset' = RootOffset
  BY DEF GetAll, Next1, IteratorEnds
<1>2. CASE mem # <<>>
  BY <1>1, <1>2, QuietStep DEF TreeInv
<1>3. CASE mem = <<>>
  BY <1>1, <1>3 DEF TreeInv, GetAll, Next1, IteratorEnds
<1>4. QED
  BY <1>2, <1>3

LEMMA TreeIsInductive ==
    ASSUME TreeInv, [Next]_vars
    PROVE  TreeInv'
<1>1. CASE \E k \in Keys, withValue \in BOOLEAN : Insert(k, withValue)
  BY <1>1, InsertStep
<1>2. CASE Place
  BY <1>2, PlaceStep
<1>3. CASE Placed
  BY <1>3, PlacedStep
<1>4. CASE Recolour
  BY <1>4, RecolourStep
<1>5. CASE RotateInner
  BY <1>5, RotateInnerStep
<1>6. CASE RotateOuter
  BY <1>6, RotateOuterStep
<1>7. CASE FindNewRoot \/ Reopen
  BY <1>7, RootStep
<1>8. CASE (\E p \in IterPrefixes : GetAll(p)) \/ Next1 \/ IteratorEnds
  BY <1>8, IteratorStep
<1>9. CASE UNCHANGED vars
  <2>1. Whole' = Whole /\ Exception' = Exception /\ UNCHANGED <<mem, RootOffset, pc>>
    BY <1>9 DEF vars, locals, Whole, Exception
  <2>2. CopiesInv' = CopiesInv /\ PlaceInv' = PlaceInv /\ FixInv' = FixInv /\ OuterInv' = OuterInv
    BY <1>9, <2>1 DEF vars, locals, CopiesInv, PlaceInv, FixInv, OuterInv
  <2>3. QED
    BY <2>1, <2>2 DEF TreeInv
<1>10. QED
  BY <1>1, <1>2, <1>3, <1>4, <1>5, <1>6, <1>7, <1>8, <1>9 DEF Next

-----------------------------------------------------------------------------
(* Less is a total order of the keys.                                       *)

\* The symbol of a key at a position, as a number above the 0 behind its end.
Symbol(a, i) == IF i \in DOMAIN a THEN a[i] + 1 ELSE 0

\* b is the higher at the first position where the two differ.
DiffersAt(a, b, i) ==
    Symbol(a, i) < Symbol(b, i) /\ \A j \in 1..(i - 1) : Symbol(a, j) = Symbol(b, j)

LEMMA SymbolsAre ==
    ASSUME NEW a \in Seq(Nat)
    PROVE  /\ Len(a) \in Nat /\ DOMAIN a = 1..Len(a)
           /\ \A i \in 1..Len(a) : a[i] \in Nat
           /\ \A i \in Nat : Symbol(a, i) \in Nat
           /\ \A i \in 1..Len(a) : Symbol(a, i) = a[i] + 1
           /\ \A i \in Nat : i > Len(a) => Symbol(a, i) = 0
<1>1. Len(a) \in Nat /\ DOMAIN a = 1..Len(a) /\ \A i \in 1..Len(a) : a[i] \in Nat
  BY LenProperties, ElementOfSeq
<1>2. QED
  BY <1>1 DEF Symbol

LEMMA SameStart ==
    ASSUME NEW a \in Seq(Nat), NEW b \in Seq(Nat), NEW n \in Nat, n <= Len(a), n <= Len(b)
    PROVE  SubSeq(a, 1, n) = SubSeq(b, 1, n) <=> \A j \in 1..n : a[j] = b[j]
<1>1. /\ \A i \in 1..Len(a) : a[i] \in Nat
      /\ \A i \in 1..Len(b) : b[i] \in Nat
      /\ Len(a) \in Nat /\ Len(b) \in Nat
  BY SymbolsAre
<1>2. \A i \in 1..n : a[i] \in Nat /\ b[i] \in Nat
  BY <1>1
<1>3. /\ SubSeq(a, 1, n) \in Seq(Nat) /\ Len(SubSeq(a, 1, n)) = IF 1 <= n THEN n - 1 + 1 ELSE 0
      /\ \A i \in 1..(n - 1 + 1) : SubSeq(a, 1, n)[i] = a[1 + i - 1]
  BY <1>2, SubSeqProperties
<1>4. /\ SubSeq(b, 1, n) \in Seq(Nat) /\ Len(SubSeq(b, 1, n)) = IF 1 <= n THEN n - 1 + 1 ELSE 0
      /\ \A i \in 1..(n - 1 + 1) : SubSeq(b, 1, n)[i] = b[1 + i - 1]
  BY <1>2, SubSeqProperties
<1> DEFINE p == SubSeq(a, 1, n)
           q == SubSeq(b, 1, n)
<1>5. /\ p \in Seq(Nat) /\ q \in Seq(Nat) /\ Len(p) = n /\ Len(q) = n
      /\ \A i \in 1..n : p[i] = a[i] /\ q[i] = b[i]
  <2> HIDE DEF p, q
  <2>1. \A i \in 1..n : i \in 1..(n - 1 + 1) /\ 1 + i - 1 = i
    OBVIOUS
  <2>2. QED
    BY <1>3, <1>4, <2>1 DEF p, q
<1> HIDE DEF p, q
<1>6. (\A j \in 1..n : a[j] = b[j]) => p = q
  <2>1. SUFFICES ASSUME \A j \in 1..n : a[j] = b[j] PROVE p = q
    OBVIOUS
  <2>2. \A j \in 1..Len(p) : p[j] = q[j]
    BY <1>5, <2>1
  <2>3. QED
    BY <1>5, <2>2, SeqEqual
<1>7. p = q => \A j \in 1..n : a[j] = b[j]
  BY <1>5
<1>8. QED
  BY <1>6, <1>7 DEF p, q

LEMMA LessDiffers ==
    ASSUME NEW a \in Seq(Nat), NEW b \in Seq(Nat)
    PROVE  Less(a, b) <=> \E i \in Nat \ {0} : DiffersAt(a, b, i)
<1>1. /\ Len(a) \in Nat /\ DOMAIN a = 1..Len(a)
      /\ \A i \in 1..Len(a) : a[i] \in Nat
      /\ \A i \in 1..Len(a) : Symbol(a, i) = a[i] + 1
      /\ \A i \in Nat : i > Len(a) => Symbol(a, i) = 0
  BY SymbolsAre
<1>2. /\ Len(b) \in Nat /\ DOMAIN b = 1..Len(b)
      /\ \A i \in 1..Len(b) : b[i] \in Nat
      /\ \A i \in 1..Len(b) : Symbol(b, i) = b[i] + 1
      /\ \A i \in Nat : i > Len(b) => Symbol(b, i) = 0
  BY SymbolsAre
<1>3. ASSUME IsStrictPrefix(a, b) PROVE DiffersAt(a, b, Len(a) + 1)
  <2>1. Len(a) <= Len(b) /\ SubSeq(a, 1, Len(a)) = SubSeq(b, 1, Len(a)) /\ a # b
    <3>1. Len(a) <= Len(b) /\ SubSeq(a, 1, Len(a)) = SubSeq(b, 1, Len(a))
      BY <1>3 DEF IsStrictPrefix, IsPrefix
    <3>2. QED
      BY <1>3, <3>1 DEF IsStrictPrefix
  <2>2. \A j \in 1..Len(a) : a[j] = b[j]
    BY <1>1, <2>1, SameStart
  <2>3. Len(a) # Len(b)
    BY <2>1, <2>2, SeqEqual
  <2>4. Len(a) + 1 \in 1..Len(b)
    <3>1. \A x, y \in Nat : x <= y /\ x # y => x + 1 \in 1..y
      OBVIOUS
    <3>2. Len(a) \in Nat /\ Len(b) \in Nat
      BY <1>1, <1>2
    <3>3. QED
      BY <2>1, <2>3, <3>1, <3>2
  <2>5. Symbol(a, Len(a) + 1) = 0 /\ Symbol(b, Len(a) + 1) = b[Len(a) + 1] + 1
    BY <1>1, <1>2, <2>4
  <2>6. \A j \in 1..Len(a) : j \in 1..Len(b) /\ Symbol(a, j) = Symbol(b, j)
    BY <1>1, <1>2, <2>1, <2>2
  <2>7. (Len(a) + 1) - 1 = Len(a)
    BY <1>1
  <2>8. b[Len(a) + 1] \in Nat
    BY <1>2, <2>4
  <2>9. QED
    BY <2>5, <2>6, <2>7, <2>8 DEF DiffersAt
<1>4. ASSUME NEW i \in DOMAIN a \cap DOMAIN b,
             a[i] < b[i], SubSeq(a, 1, i - 1) = SubSeq(b, 1, i - 1)
      PROVE  DiffersAt(a, b, i)
  <2>1. i \in 1..Len(a) /\ i \in 1..Len(b) /\ i - 1 \in Nat /\ i - 1 <= Len(a) /\ i - 1 <= Len(b)
    BY <1>1, <1>2
  <2>2. \A j \in 1..(i - 1) : a[j] = b[j]
    BY <1>4, <2>1, SameStart
  <2>3. \A j \in 1..(i - 1) : j \in 1..Len(a) /\ j \in 1..Len(b)
    <3>1. \A n, x \in Nat : x \in 1..n => \A j \in 1..(x - 1) : j \in 1..n
      OBVIOUS
    <3>2. Len(a) \in Nat /\ Len(b) \in Nat /\ i \in Nat
      BY <1>1, <1>2, <2>1
    <3>3. QED
      BY <2>1, <3>1, <3>2
  <2>4. \A j \in 1..(i - 1) : Symbol(a, j) = Symbol(b, j)
    BY <1>1, <1>2, <2>2, <2>3
  <2>5. Symbol(a, i) < Symbol(b, i)
    BY <1>1, <1>2, <1>4, <2>1
  <2>6. QED
    BY <2>4, <2>5 DEF DiffersAt
<1>5. ASSUME NEW i \in Nat \ {0}, DiffersAt(a, b, i) PROVE Less(a, b)
  <2>1. Symbol(a, i) < Symbol(b, i) /\ \A j \in 1..(i - 1) : Symbol(a, j) = Symbol(b, j)
    BY <1>5 DEF DiffersAt
  <2>2. i \in 1..Len(b)
    <3>1. \A x \in Nat : ~(x < 0)
      OBVIOUS
    <3>2. i > Len(b) => Symbol(b, i) = 0
      BY <1>2
    <3>3. Symbol(a, i) \in Nat
      BY SymbolsAre
    <3>4. QED
      BY <1>2, <2>1, <3>1, <3>2, <3>3
  <2>3. ASSUME NEW j \in 1..(i - 1) PROVE j \in 1..Len(a) /\ j \in 1..Len(b) /\ a[j] = b[j]
    <3>1. j \in 1..Len(b) /\ j \in Nat
      BY <1>2, <2>2
    <3>2. Symbol(a, j) = b[j] + 1 /\ b[j] \in Nat
      BY <1>2, <2>1, <2>3, <3>1
    <3>3. j \in 1..Len(a)
      <4>1. j > Len(a) => Symbol(a, j) = 0
        BY <1>1, <3>1
      <4>2. \A x \in Nat : x + 1 # 0
        OBVIOUS
      <4>3. ~(j > Len(a))
        BY <3>2, <4>1, <4>2
      <4>4. QED
        BY <1>1, <2>3, <4>3
    <3>4. a[j] + 1 = b[j] + 1 /\ a[j] \in Nat
      BY <1>1, <3>2, <3>3
    <3>5. QED
      BY <3>1, <3>2, <3>3, <3>4
  <2>4. CASE i \in 1..Len(a)
    <3>1. a[i] < b[i]
      BY <1>1, <1>2, <2>1, <2>2, <2>4
    <3>2. SubSeq(a, 1, i - 1) = SubSeq(b, 1, i - 1)
      <4>1. i - 1 \in Nat /\ i - 1 <= Len(a) /\ i - 1 <= Len(b)
        BY <1>1, <1>2, <2>2, <2>4
      <4>2. QED
        BY <2>3, <4>1, SameStart
    <3>3. QED
      BY <1>1, <1>2, <2>2, <2>4, <3>1, <3>2 DEF Less
  <2>5. CASE i \notin 1..Len(a)
    <3>1. i = Len(a) + 1
      <4>1. i > Len(a)
        BY <1>1, <2>5
      <4>2. i - 1 > Len(a) => i - 1 \in 1..(i - 1)
        BY <1>1
      <4>3. ~(i - 1 > Len(a))
        BY <1>1, <2>3, <4>2
      <4>4. \A x, n \in Nat : x > n /\ ~(x - 1 > n) => x = n + 1
        OBVIOUS
      <4>5. Len(a) \in Nat
        BY <1>1
      <4>6. QED
        BY <4>1, <4>3, <4>4, <4>5
    <3>2. Len(a) < Len(b)
      BY <1>1, <1>2, <2>2, <3>1
    <3>3. \A j \in 1..Len(a) : a[j] = b[j]
      BY <1>1, <2>3, <3>1
    <3>4. SubSeq(a, 1, Len(a)) = SubSeq(b, 1, Len(a))
      BY <1>1, <1>2, <3>2, <3>3, SameStart
    <3>5. Len(a) <= Len(b) /\ a # b
      BY <1>1, <1>2, <3>2
    <3>6. IsStrictPrefix(a, b)
      BY <3>4, <3>5 DEF IsStrictPrefix, IsPrefix
    <3>7. QED
      BY <3>6 DEF Less
  <2>6. QED
    BY <2>4, <2>5
<1>6. Len(a) + 1 \in Nat \ {0} /\ \A i \in DOMAIN a : i \in Nat \ {0}
  BY <1>1
<1>7. Less(a, b) => \E i \in Nat \ {0} : DiffersAt(a, b, i)
  <2>1. SUFFICES ASSUME Less(a, b) PROVE \E i \in Nat \ {0} : DiffersAt(a, b, i)
    OBVIOUS
  <2>2. CASE IsStrictPrefix(a, b)
    BY <1>3, <1>6, <2>2
  <2>3. CASE ~IsStrictPrefix(a, b)
    <3>1. PICK i \in DOMAIN a \cap DOMAIN b :
             a[i] < b[i] /\ SubSeq(a, 1, i - 1) = SubSeq(b, 1, i - 1)
      BY <2>1, <2>3 DEF Less
    <3>2. QED
      BY <1>4, <1>6, <3>1
  <2>4. QED
    BY <2>2, <2>3
<1>8. QED
  BY <1>5, <1>7

LEMMA LessIsIrreflexive ==
    ASSUME NEW a \in Seq(Nat)
    PROVE  ~Less(a, a)
<1>1. \A i \in Nat : Symbol(a, i) \in Nat
  BY SymbolsAre
<1>2. \A x \in Nat : ~(x < x)
  OBVIOUS
<1>3. \A i \in Nat \ {0} : ~DiffersAt(a, a, i)
  BY <1>1, <1>2 DEF DiffersAt
<1>4. QED
  BY <1>3, LessDiffers

LEMMA LessIsTransitive ==
    ASSUME NEW a \in Seq(Nat), NEW b \in Seq(Nat), NEW c \in Seq(Nat), Less(a, b), Less(b, c)
    PROVE  Less(a, c)
<1>1. \A i \in Nat : Symbol(a, i) \in Nat /\ Symbol(b, i) \in Nat /\ Symbol(c, i) \in Nat
  BY SymbolsAre
<1>2. PICK i \in Nat \ {0} : DiffersAt(a, b, i)
  BY LessDiffers
<1>3. PICK k \in Nat \ {0} : DiffersAt(b, c, k)
  BY LessDiffers
<1>4. /\ Symbol(a, i) < Symbol(b, i) /\ \A j \in 1..(i - 1) : Symbol(a, j) = Symbol(b, j)
      /\ Symbol(b, k) < Symbol(c, k) /\ \A j \in 1..(k - 1) : Symbol(b, j) = Symbol(c, j)
  BY <1>2, <1>3 DEF DiffersAt
<1>5. \A x, y, z \in Nat : x < y /\ y < z => x < z
  OBVIOUS
<1>6. CASE i = k
  <2>1. Symbol(a, i) < Symbol(c, i)
    BY <1>1, <1>4, <1>5, <1>6
  <2>2. QED
    BY <1>4, <1>6, <2>1, LessDiffers DEF DiffersAt
<1>7. CASE i < k
  <2>1. i \in 1..(k - 1) /\ \A j \in 1..(i - 1) : j \in 1..(k - 1)
    BY <1>7
  <2>2. DiffersAt(a, c, i)
    BY <1>4, <2>1 DEF DiffersAt
  <2>3. QED
    BY <2>2, LessDiffers
<1>8. CASE k < i
  <2>1. k \in 1..(i - 1) /\ \A j \in 1..(k - 1) : j \in 1..(i - 1)
    BY <1>8
  <2>2. DiffersAt(a, c, k)
    BY <1>4, <2>1 DEF DiffersAt
  <2>3. QED
    BY <2>2, LessDiffers
<1>9. QED
  BY <1>6, <1>7, <1>8

LEMMA ShorterDiffers ==
    ASSUME NEW a \in Seq(Nat), NEW b \in Seq(Nat), Len(a) < Len(b)
    PROVE  \E i \in Nat \ {0} : Symbol(a, i) # Symbol(b, i)
<1> DEFINE i == Len(a) + 1
<1>1. Len(a) \in Nat /\ Len(b) \in Nat
  BY SymbolsAre
<1>2. \A x, y \in Nat : x < y => x + 1 \in 1..y /\ x + 1 \in Nat \ {0} /\ x + 1 > x
  OBVIOUS
<1>3. i \in 1..Len(b) /\ i \in Nat \ {0} /\ i > Len(a)
  BY <1>1, <1>2
<1> HIDE DEF i
<1>4. Symbol(a, i) = 0 /\ Symbol(b, i) = b[i] + 1 /\ b[i] \in Nat
  BY <1>3, SymbolsAre
<1>5. \A x \in Nat : x + 1 # 0
  OBVIOUS
<1>6. QED
  BY <1>3, <1>4, <1>5

LEMMA LessIsTotal ==
    ASSUME NEW a \in Seq(Nat), NEW b \in Seq(Nat), a # b
    PROVE  Less(a, b) \/ Less(b, a)
<1> DEFINE D == {i \in Nat \ {0} : Symbol(a, i) # Symbol(b, i)}
<1>1. /\ Len(a) \in Nat /\ Len(b) \in Nat
      /\ \A i \in 1..Len(a) : a[i] \in Nat /\ Symbol(a, i) = a[i] + 1
      /\ \A i \in 1..Len(b) : b[i] \in Nat /\ Symbol(b, i) = b[i] + 1
      /\ \A i \in Nat : i > Len(a) => Symbol(a, i) = 0
      /\ \A i \in Nat : i > Len(b) => Symbol(b, i) = 0
      /\ \A i \in Nat : Symbol(a, i) \in Nat /\ Symbol(b, i) \in Nat
  BY SymbolsAre
<1>2. D # {}
  <2>1. SUFFICES ASSUME \A i \in Nat \ {0} : Symbol(a, i) = Symbol(b, i) PROVE FALSE
    OBVIOUS
  <2>2. Len(a) = Len(b)
    <3>1. ~(Len(a) < Len(b)) /\ ~(Len(b) < Len(a))
      BY <2>1, ShorterDiffers
    <3>2. \A x, y \in Nat : x < y \/ y < x \/ x = y
      OBVIOUS
    <3>3. Len(a) \in Nat /\ Len(b) \in Nat
      BY <1>1
    <3>4. QED
      BY <3>1, <3>2, <3>3
  <2>3. ASSUME NEW i \in 1..Len(a) PROVE a[i] = b[i]
    <3>1. i \in 1..Len(b) /\ i \in Nat \ {0}
      BY <2>2
    <3>2. a[i] + 1 = b[i] + 1 /\ a[i] \in Nat /\ b[i] \in Nat
      BY <1>1, <2>1, <3>1
    <3>3. \A x, y \in Nat : x + 1 = y + 1 => x = y
      OBVIOUS
    <3>4. QED
      BY <3>2, <3>3
  <2>4. QED
    BY <2>2, <2>3, SeqEqual
<1>3. PICK i \in D : \A x \in D : i <= x
  <2>1. D \subseteq Nat
    OBVIOUS
  <2> HIDE DEF D
  <2>2. QED
    BY <1>2, <2>1, LeastNatural
<1>4. \A j \in 1..(i - 1) : Symbol(a, j) = Symbol(b, j)
  <2>1. SUFFICES ASSUME NEW j \in 1..(i - 1) PROVE j \notin D
    OBVIOUS
  <2>2. ~(i <= j)
    OBVIOUS
  <2>3. QED
    BY <1>3, <2>2
<1>5. Symbol(a, i) < Symbol(b, i) \/ Symbol(b, i) < Symbol(a, i)
  <2>1. \A x, y \in Nat : x # y => x < y \/ y < x
    OBVIOUS
  <2>2. QED
    BY <1>1, <2>1
<1>6. DiffersAt(a, b, i) \/ DiffersAt(b, a, i)
  BY <1>4, <1>5 DEF DiffersAt
<1>7. QED
  BY <1>6, LessDiffers

-----------------------------------------------------------------------------
(* The search tree: what is below each node.                                *)

\* Key x belongs on this side of key y.
OnSide(side, x, y) == IF side = "left" THEN Less(x, y) ELSE Less(y, x)
SideOf(x, y) == IF Less(x, y) THEN "left" ELSE "right"

LEMMA SidesOrder ==
    ASSUME NEW side \in Sides, NEW x \in Keys, NEW y \in Keys
    PROVE  /\ OnSide(Other(side), y, x) <=> OnSide(side, x, y)
           /\ OnSide(side, x, y) => x # y /\ ~OnSide(Other(side), x, y)
           /\ SideOf(x, y) \in Sides
           /\ x # y => OnSide(SideOf(x, y), x, y)
           /\ \A z \in Keys : OnSide(side, x, y) /\ OnSide(side, y, z) => OnSide(side, x, z)
<1>1. \A k \in Keys : k \in Seq(Nat)
  BY KeysAssumption
<1>2. /\ \A a \in Keys : ~Less(a, a)
      /\ \A a, b, c \in Keys : Less(a, b) /\ Less(b, c) => Less(a, c)
      /\ \A a, b \in Keys : a # b => Less(a, b) \/ Less(b, a)
  BY <1>1, LessIsIrreflexive, LessIsTransitive, LessIsTotal
<1>3. \/ side = "left" /\ Other(side) = "right"
      \/ side = "right" /\ Other(side) = "left"
  BY DEF Sides, Other
<1>4. SideOf(x, y) \in Sides
  BY DEF SideOf, Sides
<1>5. QED
  BY <1>2, <1>3, <1>4 DEF OnSide, SideOf

\* C has the keys that are in the tree below each node of m, its own one included.  K has the key
\* of each node, Z the nodes that are not in the tree: those of overwriting insertions, and the
\* one that is not yet placed.  r is the root.
Spare(m, Z) == \A z \in Z : m[z].parent = 0 /\ \A s \in Sides : m[z][s] = 0

Contents(m, K, C, Z) ==
    \A i \in DOMAIN m \ Z :
        /\ \A x \in Keys : x \in C[i] <=> x = K[i] \/ \E s \in Sides : x \in C[m[i][s]]
        /\ \A s \in Sides : \A x \in C[m[i][s]] : OnSide(s, x, K[i])

OneRoot(m, r, Z) ==
    /\ r \in DOMAIN m \ Z
    /\ \A i \in DOMAIN m \ Z : m[i].parent = 0 => i = r
    /\ m[r].parent = 0

Searchable(m, K, C, r, Z) ==
    /\ K \in Seq(Keys) /\ Len(K) = Len(m)
    /\ C \in [0..Len(m) -> SUBSET Keys] /\ C[0] = {}
    /\ Z \subseteq DOMAIN m /\ Spare(m, Z)
    /\ OneRoot(m, r, Z)
    /\ Contents(m, K, C, Z)
    /\ \A i \in DOMAIN m \ Z : K[i] \in C[r]
    /\ \A i, j \in DOMAIN m \ Z : K[i] = K[j] => i = j

LEMMA LinksAreInTree ==
    ASSUME NEW m, m \in Seq(Nodes(Len(m))), Linked(m), NEW Z, Z \subseteq DOMAIN m, Spare(m, Z),
           NEW i \in DOMAIN m \ Z
    PROVE  /\ m[i].parent # 0 => m[i].parent \in DOMAIN m \ Z
           /\ \A s \in Sides : m[i][s] # 0 => m[i][s] \in DOMAIN m \ Z
<1>1. /\ m[i].parent \in {0} \cup DOMAIN m
      /\ \A s \in Sides : m[i][s] \in {0} \cup DOMAIN m
      /\ i # 0
  BY NodesAre
<1>2. ASSUME m[i].parent # 0 PROVE m[i].parent \notin Z
  <2>1. \E s \in Sides : m[m[i].parent][s] = i
    BY <1>2 DEF Linked
  <2>2. QED
    BY <1>1, <2>1 DEF Spare
<1>3. ASSUME NEW s \in Sides, m[i][s] # 0 PROVE m[i][s] \notin Z
  <2>1. m[m[i][s]].parent = i
    BY <1>3 DEF Linked
  <2>2. QED
    BY <1>1, <2>1 DEF Spare
<1>4. QED
  BY <1>1, <1>2, <1>3

LEMMA SameLinksIsSearchable ==
    ASSUME NEW m, m \in Seq(Nodes(Len(m))), Linked(m), NEW q, SameLinks(m, q),
           NEW K, NEW C, NEW r, NEW Z, Searchable(m, K, C, r, Z)
    PROVE  Searchable(q, K, C, r, Z)
<1>1. /\ DOMAIN q = DOMAIN m /\ Len(q) = Len(m)
      /\ \A x \in DOMAIN m : q[x].parent = m[x].parent
      /\ \A x \in DOMAIN m, s \in Sides : q[x][s] = m[x][s]
  BY SameLinksIsLinked DEF SameLinks
<1>2. Contents(q, K, C, Z)
  BY <1>1 DEF Searchable, Contents
<1>3. OneRoot(q, r, Z)
  BY <1>1 DEF Searchable, OneRoot
<1>4. Spare(q, Z)
  BY <1>1 DEF Searchable, Spare
<1>5. QED
  BY <1>1, <1>2, <1>3, <1>4 DEF Searchable

\* A rotation leaves the keys in the tree and in their order: what is now below the node that
\* came up is what was below the one that went down.
LEMMA TurnedIsSearchable ==
    ASSUME NEW m, m \in Seq(Nodes(Len(m))), Linked(m), NEW at \in DOMAIN m, NEW side \in Sides,
           Down(m, at, side) # 0, Apart(m, at, side), NEW q, Turned(m, at, side, q),
           NEW K, NEW C, NEW r, NEW Z, Searchable(m, K, C, r, Z)
    PROVE  \E C2, r2 : Searchable(q, K, C2, r2, Z) /\ C2[r2] = C[r]
<1> DEFINE down == Down(m, at, side)
           moved == Moved(m, at, side)
           opp == Other(side)
           D == DOMAIN m \ Z
           stays == m[at][side]
           below == {x \in Keys : x = K[at] \/ x \in C[stays] \/ x \in C[moved]}
           C2 == [C EXCEPT ![down] = C[at], ![at] = below]
           r2 == IF at = r THEN down ELSE r
<1>1. /\ K \in Seq(Keys) /\ Len(K) = Len(m)
      /\ C \in [0..Len(m) -> SUBSET Keys] /\ C[0] = {}
      /\ Z \subseteq DOMAIN m /\ Spare(m, Z)
      /\ OneRoot(m, r, Z)
      /\ Contents(m, K, C, Z)
      /\ \A i \in D : K[i] \in C[r]
      /\ \A i, j \in D : K[i] = K[j] => i = j
  BY DEF Searchable
<1>2. /\ Len(m) \in Nat /\ DOMAIN m = 1..Len(m) /\ 0 \notin DOMAIN m
      /\ 0..Len(m) = {0} \cup DOMAIN m
  BY NodesAre
<1>3. \A i \in DOMAIN m : K[i] \in Keys
  BY <1>1, <1>2, ElementOfSeq
<1>4. /\ opp \in Sides /\ opp # side /\ Other(opp) = side
      /\ \A s \in Sides : s = side \/ s = opp
  BY OtherSide
<1>5. /\ down \in DOMAIN m /\ moved \in {0} \cup DOMAIN m
      /\ down # at /\ m[down].parent = at
      /\ moved # at /\ moved # down
      /\ m[at].parent # at /\ m[at].parent # down
      /\ m[at].parent \in {0} \cup DOMAIN m
      /\ moved # 0 => m[moved].parent = down
      /\ at # 0
  BY DEF Apart
<1>6. /\ m[at][opp] = down /\ m[down][side] = moved
  BY DEF Down, Moved
<1>7. at \in D
  BY <1>1, <1>4, <1>6 DEF Spare
<1>8. down \in D
  BY <1>1, <1>4, <1>6, <1>7, LinksAreInTree
<1>9. /\ DOMAIN q = DOMAIN m /\ Len(q) = Len(m)
      /\ \A x \in DOMAIN m :
            q[x].parent = IF x = at THEN down
                          ELSE IF x = down THEN m[at].parent
                          ELSE IF x = moved THEN at ELSE m[x].parent
      /\ \A x \in DOMAIN m, s \in Sides :
            q[x][s] = IF x = at /\ s = opp THEN moved
                      ELSE IF x = down /\ s = side THEN at
                      ELSE IF x = m[at].parent /\ m[x][s] = at THEN down
                      ELSE m[x][s]
  BY DEF Turned
<1>10. /\ \A i \in DOMAIN m, s \in Sides : m[i][s] \in {0} \cup DOMAIN m
       /\ \A i \in DOMAIN m, s \in Sides : m[i][s] # 0 => m[m[i][s]].parent = i
       /\ \A i \in DOMAIN m : m[i].parent \in {0} \cup DOMAIN m
  BY NodesAre DEF Linked
<1>11. stays \in {0} \cup DOMAIN m /\ stays # at /\ stays # down
  <2>1. stays \in {0} \cup DOMAIN m /\ (stays # 0 => m[stays].parent = at)
    BY <1>10
  <2>2. stays # at
    BY <1>5, <2>1
  <2>3. m[at].left = m[at].right => m[at].left = 0
    BY DEF Linked
  <2>4. stays # down
    <3>1. down # 0
      BY <1>2, <1>5
    <3>2. (side = "left" /\ opp = "right") \/ (side = "right" /\ opp = "left")
      BY <1>4 DEF Sides
    <3>3. QED
      BY <1>6, <2>3, <3>1, <3>2
  <2>5. QED
    BY <2>1, <2>2, <2>4
<1> HIDE DEF down, moved, opp, stays
<1>12. /\ C2 \in [0..Len(m) -> SUBSET Keys] /\ C2[0] = {}
       /\ C2[down] = C[at] /\ C2[at] = below
       /\ \A i \in 0..Len(m) : i # at /\ i # down => C2[i] = C[i]
  <2>1. below \subseteq Keys
    OBVIOUS
  <2>2. C[at] \subseteq Keys
    BY <1>1, <1>2
  <2> HIDE DEF below
  <2>3. QED
    BY <1>1, <1>2, <1>5, <2>1, <2>2
<1>13. \A x \in Keys : x \in below <=> x = K[at] \/ x \in C[stays] \/ x \in C[moved]
  OBVIOUS
<1> HIDE DEF below, C2
<1>14. \A x \in Keys : x \in C[at] <=> x = K[at] \/ x \in C[stays] \/ x \in C[down]
  BY <1>1, <1>4, <1>6, <1>7 DEF Contents, stays
<1>15. \A x \in Keys : x \in C[down] <=> x = K[down] \/ x \in C[moved] \/ x \in C[m[down][opp]]
  BY <1>1, <1>4, <1>6, <1>8 DEF Contents

<1>16. \A x \in Keys : x \in C2[down] <=> x = K[down] \/ x \in C2[at] \/ x \in C[m[down][opp]]
  BY <1>12, <1>13, <1>14, <1>15
<1>17. /\ q[at][opp] = moved /\ q[at][side] = stays
       /\ q[down][side] = at /\ q[down][opp] = m[down][opp]
  <2>1. q[at][opp] = moved /\ q[down][side] = at
    BY <1>2, <1>4, <1>5, <1>9
  <2>2. q[at][side] = stays
    BY <1>4, <1>5, <1>9 DEF stays
  <2>3. m[down][opp] # at
    BY <1>4, <1>5, <1>10
  <2>4. q[down][opp] = m[down][opp]
    BY <1>4, <1>5, <1>9, <2>3
  <2>5. QED
    BY <2>1, <2>2, <2>4
<1>18. /\ C2[stays] = C[stays] /\ C2[moved] = C[moved] /\ C2[m[down][opp]] = C[m[down][opp]]
  <2>1. m[down][opp] \in {0} \cup DOMAIN m /\ m[down][opp] # at /\ m[down][opp] # down
    BY <1>2, <1>4, <1>5, <1>10
  <2>2. QED
    BY <1>2, <1>5, <1>11, <1>12, <2>1
<1>19. OnSide(side, K[at], K[down])
  <2>1. K[down] \in C[down] /\ K[at] \in Keys /\ K[down] \in Keys
    BY <1>3, <1>5, <1>15
  <2>2. OnSide(opp, K[down], K[at])
    BY <1>1, <1>4, <1>6, <1>7, <2>1 DEF Contents
  <2>3. QED
    BY <2>1, <2>2, SidesOrder DEF opp
<1>20. \A x \in C[stays] : x \in Keys /\ OnSide(side, x, K[at])
  BY <1>1, <1>2, <1>7, <1>11 DEF Contents, stays
<1>21. \A x \in C[moved] : x \in Keys /\ OnSide(side, x, K[down]) /\ OnSide(opp, x, K[at])
  <2>1. SUFFICES ASSUME NEW x \in C[moved]
                 PROVE  x \in Keys /\ OnSide(side, x, K[down]) /\ OnSide(opp, x, K[at])
    OBVIOUS
  <2>2. x \in Keys
    BY <1>1, <1>2, <1>5
  <2>3. x \in C[down]
    BY <1>15, <2>1, <2>2
  <2>4. OnSide(side, x, K[down])
    BY <1>1, <1>6, <1>8, <2>1 DEF Contents
  <2>5. OnSide(opp, x, K[at])
    BY <1>1, <1>4, <1>6, <1>7, <2>3 DEF Contents
  <2>6. QED
    BY <2>2, <2>4, <2>5
<1>22. ASSUME NEW x \in C2[at] PROVE OnSide(side, x, K[down])
  <2>1. x = K[at] \/ x \in C[stays] \/ x \in C[moved]
    <3>1. at \in 0..Len(m)
      BY <1>2
    <3>2. x \in Keys
      BY <1>12, <3>1
    <3>3. QED
      BY <1>12, <1>13, <3>2
  <2>2. ASSUME x \in C[stays] PROVE OnSide(side, x, K[down])
    <3>1. x \in Keys /\ K[at] \in Keys /\ K[down] \in Keys /\ OnSide(side, x, K[at])
      BY <1>3, <1>5, <1>20, <2>2
    <3>2. QED
      BY <1>19, <3>1, SidesOrder
  <2>3. QED
    BY <1>19, <1>21, <2>1, <2>2
<1>23. /\ \A x \in Keys : x \in C2[at] <=> x = K[at] \/ \E s \in Sides : x \in C2[q[at][s]]
       /\ \A s \in Sides : \A x \in C2[q[at][s]] : OnSide(s, x, K[at])
  <2>1. \A x \in Keys : x \in C2[at] <=> x = K[at] \/ \E s \in Sides : x \in C2[q[at][s]]
    BY <1>4, <1>12, <1>13, <1>17, <1>18
  <2>2. ASSUME NEW s \in Sides, NEW x \in C2[q[at][s]] PROVE OnSide(s, x, K[at])
    <3>1. CASE s = side
      BY <1>17, <1>18, <1>20, <2>2, <3>1
    <3>2. CASE s = opp
      BY <1>17, <1>18, <1>21, <2>2, <3>2
    <3>3. QED
      BY <1>4, <3>1, <3>2
  <2>3. QED
    BY <2>1, <2>2
<1>24. /\ \A x \in Keys : x \in C2[down] <=> x = K[down] \/ \E s \in Sides : x \in C2[q[down][s]]
       /\ \A s \in Sides : \A x \in C2[q[down][s]] : OnSide(s, x, K[down])
  <2>1. \A x \in Keys : x \in C2[down] <=> x = K[down] \/ \E s \in Sides : x \in C2[q[down][s]]
    BY <1>4, <1>16, <1>17, <1>18
  <2>2. ASSUME NEW s \in Sides, NEW x \in C2[q[down][s]] PROVE OnSide(s, x, K[down])
    <3>1. CASE s = side
      BY <1>17, <1>22, <2>2, <3>1
    <3>2. CASE s = opp
      <4>1. x \in C[m[down][opp]]
        BY <1>17, <1>18, <2>2, <3>2
      <4>2. QED
        BY <1>1, <1>4, <1>8, <3>2, <4>1 DEF Contents
    <3>3. QED
      BY <1>4, <3>1, <3>2
  <2>3. QED
    BY <2>1, <2>2
<1>25. ASSUME NEW i \in D, i # at, i # down
       PROVE  /\ \A x \in Keys : x \in C2[i] <=> x = K[i] \/ \E s \in Sides : x \in C2[q[i][s]]
              /\ \A s \in Sides : \A x \in C2[q[i][s]] : OnSide(s, x, K[i])
  <2>1. C2[i] = C[i]
    BY <1>2, <1>12, <1>25
  <2>2. ASSUME NEW s \in Sides PROVE C2[q[i][s]] = C[m[i][s]]
    <3>1. m[i][s] \in {0} \cup DOMAIN m /\ m[i][s] # down
      BY <1>2, <1>5, <1>10, <1>25
    <3>2. CASE m[i][s] = at
      <4>1. i = m[at].parent
        BY <1>5, <1>10, <3>2
      <4>2. q[i][s] = down
        BY <1>9, <1>25, <3>2, <4>1
      <4>3. QED
        BY <1>12, <3>2, <4>2
    <3>3. CASE m[i][s] # at
      <4>1. q[i][s] = m[i][s]
        BY <1>9, <1>25, <3>3
      <4>2. QED
        BY <1>2, <1>12, <3>1, <3>3, <4>1
    <3>4. QED
      BY <3>2, <3>3
  <2>3. /\ \A x \in Keys : x \in C[i] <=> x = K[i] \/ \E s \in Sides : x \in C[m[i][s]]
        /\ \A s \in Sides : \A x \in C[m[i][s]] : OnSide(s, x, K[i])
    BY <1>1, <1>25 DEF Contents
  <2>4. \A x \in Keys : x \in C2[i] <=> x = K[i] \/ \E s \in Sides : x \in C2[q[i][s]]
    BY <2>1, <2>2, <2>3
  <2>5. \A s \in Sides : \A x \in C2[q[i][s]] : OnSide(s, x, K[i])
    BY <2>2, <2>3
  <2>6. QED
    BY <2>4, <2>5
<1>26. Contents(q, K, C2, Z)
  BY <1>9, <1>23, <1>24, <1>25 DEF Contents
<1>27. Spare(q, Z)
  <2>1. ASSUME NEW z \in Z PROVE q[z].parent = 0 /\ \A s \in Sides : q[z][s] = 0
    <3>1. z # at /\ z # down /\ z \in DOMAIN m
      BY <1>1, <1>7, <1>8
    <3>2. m[z].parent = 0 /\ \A s \in Sides : m[z][s] = 0
      BY <1>1 DEF Spare
    <3>3. moved # z
      BY <1>2, <1>5, <3>1, <3>2
    <3>4. \A s \in Sides : m[z][s] # at
      BY <1>5, <3>2
    <3>5. QED
      BY <1>9, <3>1, <3>2, <3>3, <3>4
  <2>2. QED
    BY <2>1 DEF Spare
<1>28. OneRoot(q, r2, Z) /\ C2[r2] = C[r]
  <2>1. r \in D /\ m[r].parent = 0 /\ \A i \in D : m[i].parent = 0 => i = r
    BY <1>1 DEF OneRoot
  <2>2. ASSUME NEW i \in D, q[i].parent = 0 PROVE i = r2
    BY <1>2, <1>5, <1>7, <1>9, <2>1, <2>2
  <2>3. r2 \in D /\ q[r2].parent = 0
    <3>1. r # down /\ r # moved
      BY <1>2, <1>5, <1>8, <2>1
    <3>2. QED
      BY <1>2, <1>5, <1>7, <1>8, <1>9, <2>1, <3>1
  <2>4. C2[r2] = C[r]
    <3>1. r # down /\ r \in 0..Len(m)
      BY <1>2, <1>5, <1>8, <2>1
    <3>2. QED
      BY <1>12, <3>1
  <2>5. QED
    BY <1>9, <2>2, <2>3, <2>4 DEF OneRoot
<1>29. Searchable(q, K, C2, r2, Z)
  <2>1. C2 \in [0..Len(q) -> SUBSET Keys] /\ Len(K) = Len(q) /\ Z \subseteq DOMAIN q
    BY <1>1, <1>9, <1>12
  <2> HIDE DEF r2, D
  <2>2. /\ \A i \in D : K[i] \in C2[r2]
        /\ D = DOMAIN q \ Z
    BY <1>1, <1>9, <1>28 DEF D
  <2>3. QED
    BY <1>1, <1>12, <1>26, <1>27, <1>28, <2>1, <2>2 DEF Searchable
<1>30. QED
  BY <1>28, <1>29

\* The way of a key k from the root r to node x: the nodes P, each the parent of the next, on
\* the side where k belongs.  If k is in the tree, it is below x.
Way(m, K, C, r, Z, P, k, x) ==
    /\ P \subseteq DOMAIN m \ Z /\ r \in P /\ x \in P
    /\ \A i \in P : m[i].parent # 0 => m[i].parent \in P
    /\ \A i \in P : i # x => /\ K[i] # k /\ m[i][SideOf(k, K[i])] \in P
                             /\ m[i][Other(SideOf(k, K[i]))] \notin P
    /\ \A s \in Sides : m[x][s] \notin P
    /\ k \in C[r] => k \in C[x]

\* A key that is not that of a node is below its child on the side of the key, if it is below.
LEMMA KeysAre ==
    ASSUME NEW m, m \in Seq(Nodes(Len(m))), NEW K, NEW C, NEW r, NEW Z, Searchable(m, K, C, r, Z)
    PROVE  \A i \in DOMAIN m : K[i] \in Keys
<1>1. K \in Seq(Keys) /\ Len(K) = Len(m)
  BY DEF Searchable
<1>2. DOMAIN m = 1..Len(m)
  BY NodesAre
<1>3. QED
  BY <1>1, <1>2, ElementOfSeq

LEMMA OnItsSide ==
    ASSUME NEW m, NEW K, NEW C, NEW r, NEW Z, Searchable(m, K, C, r, Z), NEW k \in Keys,
           NEW x \in DOMAIN m \ Z, k # K[x], K[x] \in Keys, k \in C[x]
    PROVE  k \in C[m[x][SideOf(k, K[x])]]
<1> DEFINE side == SideOf(k, K[x])
<1>1. side \in Sides /\ OnSide(side, k, K[x])
  BY SidesOrder, "left" \in Sides DEF Sides
<1>2. PICK s \in Sides : k \in C[m[x][s]]
  BY DEF Searchable, Contents
<1>3. OnSide(s, k, K[x])
  BY <1>2 DEF Searchable, Contents
<1>4. s = side \/ s = Other(side)
  BY <1>1, <1>2, OtherSide
<1>5. s # Other(side)
  BY <1>1, <1>3, SidesOrder
<1>6. QED
  BY <1>2, <1>4, <1>5

LEMMA WayDescends ==
    ASSUME NEW m, m \in Seq(Nodes(Len(m))), Linked(m),
           NEW K, NEW C, NEW r, NEW Z, Searchable(m, K, C, r, Z), NEW k \in Keys,
           NEW P, NEW x, Way(m, K, C, r, Z, P, k, x), K[x] \in Keys, k # K[x],
           NEW c, c = m[x][SideOf(k, K[x])], c # 0
    PROVE  Way(m, K, C, r, Z, P \cup {c}, k, c)
<1> DEFINE side == SideOf(k, K[x])
           D == DOMAIN m \ Z
<1>1. side \in Sides /\ Other(side) \in Sides /\ Other(side) # side
  BY SidesOrder, OtherSide, "left" \in Sides DEF Sides
<1>2. /\ P \subseteq D /\ r \in P /\ x \in P /\ x \in D
      /\ \A i \in P : m[i].parent # 0 => m[i].parent \in P
      /\ \A i \in P : i # x => /\ K[i] # k /\ m[i][SideOf(k, K[i])] \in P
                               /\ m[i][Other(SideOf(k, K[i]))] \notin P
      /\ \A s \in Sides : m[x][s] \notin P
      /\ k \in C[r] => k \in C[x]
  BY DEF Way
<1>3. c \in D
  <2>1. Z \subseteq DOMAIN m /\ Spare(m, Z)
    BY DEF Searchable
  <2>2. QED
    BY <1>1, <1>2, <2>1, LinksAreInTree
<1>4. /\ 0 \notin DOMAIN m
      /\ \A i \in DOMAIN m, s \in Sides : m[i][s] \in {0} \cup DOMAIN m
  BY NodesAre
<1>5. /\ \A i \in DOMAIN m, s \in Sides : m[i][s] # 0 => m[m[i][s]].parent = i
      /\ \A i \in DOMAIN m : m[i].parent # i
      /\ \A i \in DOMAIN m : m[i].left = m[i].right => m[i].left = 0
  BY DEF Linked
<1>6. m[c].parent = x /\ c \notin P /\ x # 0
  BY <1>1, <1>2, <1>4, <1>5
<1>7. m[x][Other(side)] # c
  <2>1. (side = "left" /\ Other(side) = "right") \/ (side = "right" /\ Other(side) = "left")
    BY <1>1 DEF Sides, Other
  <2>2. QED
    BY <1>2, <1>5, <2>1
<1>8. ASSUME NEW i \in P, i # x
      PROVE  /\ K[i] # k /\ m[i][SideOf(k, K[i])] \in P \cup {c}
             /\ m[i][Other(SideOf(k, K[i]))] \notin P \cup {c}
  <2>1. /\ K[i] # k /\ m[i][SideOf(k, K[i])] \in P
        /\ m[i][Other(SideOf(k, K[i]))] \notin P
    BY <1>2, <1>8
  <2>2. Other(SideOf(k, K[i])) \in Sides
    BY DEF Other, Sides
  <2>3. m[i][Other(SideOf(k, K[i]))] # c
    <3>1. i \in DOMAIN m
      BY <1>2
    <3>2. QED
      BY <1>5, <1>6, <1>8, <2>2, <3>1
  <2>4. QED
    BY <2>1, <2>3
<1>9. /\ K[x] # k /\ m[x][side] \in P \cup {c} /\ m[x][Other(side)] \notin P \cup {c}
  BY <1>1, <1>2, <1>7
<1>10. ASSUME NEW s \in Sides PROVE m[c][s] \notin P \cup {c}
  <2>1. m[c][s] \in {0} \cup DOMAIN m /\ (m[c][s] # 0 => m[m[c][s]].parent = c)
    BY <1>3, <1>4, <1>5
  <2>2. m[c][s] # 0 => m[c][s] \notin P
    BY <1>2, <1>6, <2>1
  <2>3. m[c][s] # c
    BY <1>3, <1>5, <2>1
  <2>4. 0 \notin P
    BY <1>2, <1>4
  <2>5. QED
    BY <2>2, <2>3, <2>4
<1>11. k \in C[r] => k \in C[c]
  BY <1>2, OnItsSide
<1>12. \A i \in P \cup {c} : m[i].parent # 0 => m[i].parent \in P \cup {c}
  BY <1>2, <1>6
<1>13. \A i \in P \cup {c} : i # c => /\ K[i] # k /\ m[i][SideOf(k, K[i])] \in P \cup {c}
                                      /\ m[i][Other(SideOf(k, K[i]))] \notin P \cup {c}
  BY <1>8, <1>9
<1> HIDE DEF side
<1>14. QED
  BY <1>2, <1>3, <1>10, <1>11, <1>12, <1>13 DEF Way

\* Node n, which has no links, is hung under x on the side.
Hung(m, n, x, side, q) ==
    /\ q \in Seq(Nodes(Len(m))) /\ Len(q) = Len(m)
    /\ \A y \in DOMAIN m :
          /\ q[y].parent = IF y = n THEN x ELSE m[y].parent
          /\ \A s \in Sides : q[y][s] = IF y = x /\ s = side THEN n ELSE m[y][s]

\* Node n, kept apart, is hung under the node where the way of its key ends.
Joins(m, K, C, r, Z, n, P, x, side, q) ==
    /\ n \in Z /\ Way(m, K, C, r, Z, P, K[n], x)
    /\ K[n] # K[x] /\ side = SideOf(K[n], K[x]) /\ m[x][side] = 0
    /\ Hung(m, n, x, side, q)

\* The tree at r has one key more.
OneMore(C, C2, r, k) == C2[r] = C[r] \cup {k}

LEMMA HungIsSearchable ==
    ASSUME NEW m, m \in Seq(Nodes(Len(m))), Linked(m),
           NEW K, NEW C, NEW r, NEW Z, Searchable(m, K, C, r, Z),
           NEW n, NEW P, NEW x, NEW side, NEW q, Joins(m, K, C, r, Z, n, P, x, side, q)
    PROVE  \E C2 : Searchable(q, K, C2, r, Z \ {n}) /\ OneMore(C, C2, r, K[n])
<1> DEFINE k == K[n]
           D == DOMAIN m \ Z
           C2 == [i \in 0..Len(m) |-> IF i \in P THEN C[i] \cup {k} ELSE IF i = n THEN {k} ELSE C[i]]
<1>0. /\ n \in Z /\ Way(m, K, C, r, Z, P, k, x) /\ Z \subseteq DOMAIN m /\ x \in DOMAIN m
      /\ k # K[x] /\ side = SideOf(k, K[x]) /\ m[x][side] = 0
      /\ Hung(m, n, x, side, q)
      /\ k \in Keys /\ K[x] \in Keys
  <2>1. n \in Z /\ Way(m, K, C, r, Z, P, k, x) /\ k # K[x] /\ side = SideOf(k, K[x])
        /\ m[x][side] = 0 /\ Hung(m, n, x, side, q)
    BY DEF Joins
  <2>2. Z \subseteq DOMAIN m /\ x \in DOMAIN m
    BY <2>1 DEF Way, Searchable
  <2>3. QED
    BY <2>1, <2>2, KeysAre
<1>1. side \in Sides /\ Other(side) \in Sides /\ Other(side) # side
      /\ \A s \in Sides : s = side \/ s = Other(side)
  BY <1>0, SidesOrder, OtherSide, "left" \in Sides DEF Sides
<1>2. /\ P \subseteq D /\ r \in P /\ x \in P /\ x \in D
      /\ \A i \in P : m[i].parent # 0 => m[i].parent \in P
      /\ \A i \in P : i # x => /\ K[i] # k /\ m[i][SideOf(k, K[i])] \in P
                               /\ m[i][Other(SideOf(k, K[i]))] \notin P
      /\ \A s \in Sides : m[x][s] \notin P
      /\ k \in C[r] => k \in C[x]
  BY <1>0 DEF Way
<1>3. /\ K \in Seq(Keys) /\ Len(K) = Len(m)
      /\ C \in [0..Len(m) -> SUBSET Keys] /\ C[0] = {}
      /\ Z \subseteq DOMAIN m /\ Spare(m, Z)
      /\ OneRoot(m, r, Z)
      /\ Contents(m, K, C, Z)
      /\ \A i \in D : K[i] \in C[r]
      /\ \A i, j \in D : K[i] = K[j] => i = j
  BY DEF Searchable
<1>4. /\ 0 \notin DOMAIN m /\ Len(m) \in Nat /\ DOMAIN m = 1..Len(m) /\ 0..Len(m) = {0} \cup DOMAIN m
      /\ \A i \in DOMAIN m, s \in Sides : m[i][s] \in {0} \cup DOMAIN m
  BY NodesAre
<1>5. /\ \A i \in DOMAIN m, s \in Sides : m[i][s] # 0 => m[m[i][s]].parent = i
      /\ \A i \in DOMAIN m : m[i].parent # i
      /\ \A i \in DOMAIN m : m[i].left = m[i].right => m[i].left = 0
  BY DEF Linked
<1>6. \A i \in DOMAIN m : K[i] \in Keys
  BY <1>3, <1>4, ElementOfSeq
<1>7. /\ DOMAIN q = DOMAIN m /\ Len(q) = Len(m)
      /\ \A y \in DOMAIN m : q[y].parent = IF y = n THEN x ELSE m[y].parent
      /\ \A y \in DOMAIN m, s \in Sides : q[y][s] = IF y = x /\ s = side THEN n ELSE m[y][s]
  BY <1>0 DEF Hung
<1>8. k \notin C[x]
  <2>1. k \in C[x] => k \in C[m[x][side]]
    BY <1>0, <1>2, OnItsSide
  <2>2. QED
    BY <1>0, <1>3, <2>1
<1>9. n \in DOMAIN m /\ n # 0 /\ n \notin P /\ n # x /\ \A s \in Sides : m[n][s] = 0
  BY <1>0, <1>2, <1>3, <1>4 DEF Spare
<1>10. \A i \in D, s \in Sides : m[i][s] # n
  BY <1>3, <1>9, LinksAreInTree
<1>11. k \in Keys
  BY <1>0
<1>12. /\ C2 \in [0..Len(m) -> SUBSET Keys] /\ C2[0] = {} /\ C2[n] = {k}
       /\ \A i \in P : C2[i] = C[i] \cup {k}
       /\ \A i \in 0..Len(m) : i \notin P /\ i # n => C2[i] = C[i]
  <2>1. \A i \in 0..Len(m) : C[i] \subseteq Keys
    BY <1>3
  <2>2. \A i \in 0..Len(m) : C2[i] \subseteq Keys
    BY <1>11, <2>1
  <2>3. 0 \notin P /\ 0 # n /\ 0 \in 0..Len(m) /\ n \in 0..Len(m) /\ P \subseteq 0..Len(m)
    BY <1>2, <1>4, <1>9
  <2>4. QED
    BY <1>3, <1>9, <2>2, <2>3
<1> HIDE DEF C2, D
<1>13. C2[r] = C[r] \cup {k}
  BY <1>2, <1>12
<1>14. \A i \in D : /\ \A y \in Keys : y \in C[i] <=> y = K[i] \/ \E s \in Sides : y \in C[m[i][s]]
                    /\ \A s \in Sides : \A y \in C[m[i][s]] : OnSide(s, y, K[i])
  BY <1>3 DEF Contents, D
<1>15. \A i \in D, s \in Sides : m[i][s] \notin P => C2[m[i][s]] = C[m[i][s]]
  BY <1>4, <1>10, <1>12 DEF D
\* below the new node there is its key only
<1>16. /\ \A y \in Keys : y \in C2[n] <=> y = K[n] \/ \E s \in Sides : y \in C2[q[n][s]]
       /\ \A s \in Sides : \A y \in C2[q[n][s]] : OnSide(s, y, K[n])
  <2>1. \A s \in Sides : q[n][s] = 0
    BY <1>7, <1>9
  <2>2. \A s \in Sides : C2[q[n][s]] = {}
    BY <1>12, <2>1
  <2>3. C2[n] = {K[n]}
    BY <1>12
  <2>4. QED
    BY <2>2, <2>3
\* outside the way nothing changes
<1>17. ASSUME NEW i \in D, i \notin P
       PROVE  /\ \A y \in Keys : y \in C2[i] <=> y = K[i] \/ \E s \in Sides : y \in C2[q[i][s]]
              /\ \A s \in Sides : \A y \in C2[q[i][s]] : OnSide(s, y, K[i])
  <2>1. i \in DOMAIN m /\ i # n /\ i # x
    BY <1>0, <1>2, <1>17 DEF D
  <2>2. C2[i] = C[i]
    BY <1>4, <1>12, <1>17, <2>1
  <2>3. ASSUME NEW s \in Sides PROVE C2[q[i][s]] = C[m[i][s]]
    <3>1. q[i][s] = m[i][s]
      BY <1>7, <2>1
    <3>2. m[i][s] \notin P
      <4>1. m[i][s] # 0 => m[m[i][s]].parent = i /\ i # 0
        BY <1>4, <1>5, <2>1
      <4>2. 0 \notin P
        BY <1>2, <1>4 DEF D
      <4>3. QED
        BY <1>2, <1>17, <4>1, <4>2
    <3>3. QED
      BY <1>15, <3>1, <3>2
  <2>4. /\ \A y \in Keys : y \in C[i] <=> y = K[i] \/ \E s \in Sides : y \in C[m[i][s]]
        /\ \A s \in Sides : \A y \in C[m[i][s]] : OnSide(s, y, K[i])
    BY <1>14
  <2>5. \A y \in Keys : y \in C2[i] <=> y = K[i] \/ \E s \in Sides : y \in C2[q[i][s]]
    BY <2>2, <2>3, <2>4
  <2>6. \A s \in Sides : \A y \in C2[q[i][s]] : OnSide(s, y, K[i])
    BY <2>3, <2>4
  <2>7. QED
    BY <2>5, <2>6
\* on the way the key is added below the child on its side
<1>18. ASSUME NEW i \in P
       PROVE  /\ \A y \in Keys : y \in C2[i] <=> y = K[i] \/ \E s \in Sides : y \in C2[q[i][s]]
              /\ \A s \in Sides : \A y \in C2[q[i][s]] : OnSide(s, y, K[i])
  <2> DEFINE si == SideOf(k, K[i])
             op == Other(si)
  <2>1. i \in D /\ i \in DOMAIN m /\ i # n /\ K[i] \in Keys
    BY <1>2, <1>6, <1>9 DEF D
  <2>2. K[i] # k
    BY <1>0, <1>2
  <2>3. si \in Sides /\ OnSide(si, k, K[i]) /\ op \in Sides /\ op # si
        /\ \A s \in Sides : s = si \/ s = op
    <3>1. si \in Sides /\ OnSide(si, k, K[i])
      BY <1>11, <2>1, <2>2, SidesOrder, "left" \in Sides DEF Sides
    <3>2. QED
      BY <3>1, OtherSide
  <2> HIDE DEF si, op
  <2>4. C2[q[i][si]] = C[m[i][si]] \cup {k}
    <3>1. CASE i = x
      <4>1. si = side /\ m[i][si] = 0
        BY <1>0, <3>1 DEF si
      <4>2. q[i][si] = n
        BY <1>7, <2>1, <2>3, <3>1, <4>1
      <4>3. QED
        BY <1>3, <1>12, <4>1, <4>2
    <3>2. CASE i # x
      <4>1. q[i][si] = m[i][si]
        BY <1>7, <2>1, <2>3, <3>2
      <4>2. m[i][si] \in P
        BY <1>2, <3>2 DEF si
      <4>3. QED
        BY <1>12, <4>1, <4>2
    <3>3. QED
      BY <3>1, <3>2
  <2>5. C2[q[i][op]] = C[m[i][op]]
    <3>1. q[i][op] = m[i][op]
      <4>1. i = x => op # side
        BY <1>0, <2>3 DEF si
      <4>2. QED
        BY <1>7, <2>1, <2>3, <4>1
    <3>2. m[i][op] \notin P
      BY <1>2, <2>3 DEF op, si
    <3>3. QED
      BY <1>15, <2>1, <2>3, <3>1, <3>2
  <2>6. /\ \A y \in Keys : y \in C[i] <=> y = K[i] \/ y \in C[m[i][si]] \/ y \in C[m[i][op]]
        /\ \A y \in C[m[i][si]] : OnSide(si, y, K[i])
        /\ \A y \in C[m[i][op]] : OnSide(op, y, K[i])
    <3>1. /\ \A y \in Keys : y \in C[i] <=> y = K[i] \/ \E s \in Sides : y \in C[m[i][s]]
          /\ \A s \in Sides : \A y \in C[m[i][s]] : OnSide(s, y, K[i])
      BY <1>14, <2>1
    <3>2. QED
      BY <2>3, <3>1
  <2>7. C2[i] = C[i] \cup {k}
    BY <1>12
  <2>8. \A y \in Keys : y \in C2[i] <=> y = K[i] \/ y \in C2[q[i][si]] \/ y \in C2[q[i][op]]
    BY <2>4, <2>5, <2>6, <2>7
  <2>9. (\A y \in C2[q[i][si]] : OnSide(si, y, K[i])) /\ \A y \in C2[q[i][op]] : OnSide(op, y, K[i])
    BY <2>3, <2>4, <2>5, <2>6
  <2>10. QED
    BY <2>3, <2>8, <2>9
<1>19. Contents(q, K, C2, Z \ {n})
  <2>1. \A i \in DOMAIN q \ (Z \ {n}) : i = n \/ i \in D
    BY <1>7 DEF D
  <2>2. ASSUME NEW i \in DOMAIN q \ (Z \ {n})
        PROVE  /\ \A y \in Keys : y \in C2[i] <=> y = K[i] \/ \E s \in Sides : y \in C2[q[i][s]]
               /\ \A s \in Sides : \A y \in C2[q[i][s]] : OnSide(s, y, K[i])
    BY <1>16, <1>17, <1>18, <2>1
  <2>3. QED
    BY <2>2 DEF Contents
<1>20. Spare(q, Z \ {n})
  <2>1. ASSUME NEW z \in Z \ {n} PROVE q[z].parent = 0 /\ \A s \in Sides : q[z][s] = 0
    <3>1. z \in DOMAIN m /\ z # n /\ z # x
      BY <1>2, <1>3 DEF D
    <3>2. m[z].parent = 0 /\ \A s \in Sides : m[z][s] = 0
      BY <1>3 DEF Spare
    <3>3. QED
      BY <1>7, <3>1, <3>2
  <2>2. QED
    BY <2>1 DEF Spare
<1>21. OneRoot(q, r, Z \ {n})
  <2>1. /\ r \in D /\ m[r].parent = 0 /\ \A i \in D : m[i].parent = 0 => i = r
    BY <1>3 DEF OneRoot, D
  <2>2. x # 0 /\ r # n
    BY <1>2, <1>4, <1>9 DEF D
  <2>3. r \in DOMAIN q \ (Z \ {n}) /\ q[r].parent = 0
    BY <1>7, <2>1, <2>2 DEF D
  <2>4. ASSUME NEW i \in DOMAIN q \ (Z \ {n}), q[i].parent = 0 PROVE i = r
    BY <1>7, <2>1, <2>2, <2>4 DEF D
  <2>5. QED
    BY <2>3, <2>4 DEF OneRoot
<1>22. \A i \in DOMAIN q \ (Z \ {n}) : K[i] \in C2[r]
  <2>1. \A i \in DOMAIN q \ (Z \ {n}) : i = n \/ i \in D
    BY <1>7 DEF D
  <2>2. QED
    BY <1>3, <1>13, <2>1 DEF D
<1>23. \A i, j \in DOMAIN q \ (Z \ {n}) : K[i] = K[j] => i = j
  <2>1. \A i \in DOMAIN q \ (Z \ {n}) : i = n \/ i \in D
    BY <1>7 DEF D
  <2>2. \A i \in D : K[i] # K[n]
    BY <1>2, <1>3, <1>8 DEF D
  <2>3. \A i, j \in D : K[i] = K[j] => i = j
    BY <1>3 DEF D
  <2>4. QED
    BY <2>1, <2>2, <2>3
<1>24. Searchable(q, K, C2, r, Z \ {n})
  <2>1. /\ Len(K) = Len(q) /\ C2 \in [0..Len(q) -> SUBSET Keys] /\ Z \ {n} \subseteq DOMAIN q
    BY <1>3, <1>7, <1>12
  <2>2. QED
    BY <1>3, <1>12, <1>19, <1>20, <1>21, <1>22, <1>23, <2>1 DEF Searchable
<1>25. QED
  BY <1>13, <1>24 DEF OneMore

\* A node is reserved for the key: it is not yet in the tree.
Grown(m, K, k, q, K2, n) == q = Append(m, Blank) /\ K2 = Append(K, k) /\ n = Len(m) + 1

LEMMA GrownIsSearchable ==
    ASSUME NEW m, m \in Seq(Nodes(Len(m))), Linked(m),
           NEW K, NEW C, NEW r, NEW Z, Searchable(m, K, C, r, Z), NEW k \in Keys,
           NEW q, NEW K2, NEW n, Grown(m, K, k, q, K2, n)
    PROVE  \E C2 : Searchable(q, K2, C2, r, Z \cup {n}) /\ C2[r] = C[r]
<1> DEFINE Z2 == Z \cup {n}
           D == DOMAIN m \ Z
           C2 == [i \in 0..n |-> IF i = n THEN {} ELSE C[i]]
<1>1. /\ K \in Seq(Keys) /\ Len(K) = Len(m)
      /\ C \in [0..Len(m) -> SUBSET Keys] /\ C[0] = {}
      /\ Z \subseteq DOMAIN m /\ Spare(m, Z)
      /\ OneRoot(m, r, Z)
      /\ Contents(m, K, C, Z)
      /\ \A i \in D : K[i] \in C[r]
      /\ \A i, j \in D : K[i] = K[j] => i = j
  BY DEF Searchable
<1>2. /\ 0 \notin DOMAIN m /\ Len(m) \in Nat /\ DOMAIN m = 1..Len(m) /\ 0..Len(m) = {0} \cup DOMAIN m
      /\ \A i \in DOMAIN m, s \in Sides : m[i][s] \in {0} \cup DOMAIN m
      /\ \A i \in DOMAIN m : m[i] \in Nodes(Len(m))
  BY NodesAre
<1>3. /\ q = Append(m, Blank) /\ K2 = Append(K, k) /\ n = Len(m) + 1
      /\ n \in Nat /\ n # 0 /\ n \notin DOMAIN m /\ 1..n = DOMAIN m \cup {n}
  BY <1>2 DEF Grown
<1>4. /\ Len(q) = n /\ DOMAIN q = 1..n /\ q[n] = Blank /\ \A x \in DOMAIN m : q[x] = m[x]
  <2>1. m \in Seq(Nodes(Len(m)) \cup {Blank})
    BY ElementOfSeq
  <2>2. QED
    BY <1>2, <1>3, <2>1, AppendProperties
<1>5. /\ K2 \in Seq(Keys) /\ Len(K2) = n /\ K2[n] = k /\ \A x \in DOMAIN m : K2[x] = K[x]
  BY <1>1, <1>2, <1>3, AppendProperties
<1>6. DOMAIN q \ Z2 = D
  BY <1>1, <1>3, <1>4
<1>7. /\ C2 \in [0..n -> SUBSET Keys] /\ C2[0] = {} /\ \A i \in {0} \cup DOMAIN m : C2[i] = C[i]
  <2>1. 0..n = {0} \cup DOMAIN m \cup {n}
    BY <1>3
  <2>2. \A i \in {0} \cup DOMAIN m : C[i] \subseteq Keys /\ i # n
    BY <1>1, <1>2, <1>3
  <2>3. QED
    BY <1>1, <1>3, <2>1, <2>2
<1> HIDE DEF C2, Z2, D
<1>8. Contents(q, K2, C2, Z2)
  <2>1. ASSUME NEW i \in D
        PROVE  /\ \A y \in Keys : y \in C2[i] <=> y = K2[i] \/ \E s \in Sides : y \in C2[q[i][s]]
               /\ \A s \in Sides : \A y \in C2[q[i][s]] : OnSide(s, y, K2[i])
    <3>1. i \in DOMAIN m
      BY DEF D
    <3>2. C2[i] = C[i] /\ K2[i] = K[i] /\ \A s \in Sides : C2[q[i][s]] = C[m[i][s]]
      BY <1>2, <1>4, <1>5, <1>7, <3>1
    <3>3. /\ \A y \in Keys : y \in C[i] <=> y = K[i] \/ \E s \in Sides : y \in C[m[i][s]]
          /\ \A s \in Sides : \A y \in C[m[i][s]] : OnSide(s, y, K[i])
      BY <1>1 DEF Contents, D
    <3>4. QED
      BY <3>2, <3>3
  <2>2. QED
    BY <1>6, <2>1 DEF Contents
<1>9. Spare(q, Z2)
  <2>1. Blank.parent = 0 /\ \A s \in Sides : Blank[s] = 0
    BY DEF Blank, Sides
  <2>2. QED
    BY <1>1, <1>4, <2>1 DEF Spare, Z2
<1>10. OneRoot(q, r, Z2) /\ C2[r] = C[r]
  <2>1. r \in D /\ m[r].parent = 0 /\ \A i \in D : m[i].parent = 0 => i = r
    BY <1>1 DEF OneRoot, D
  <2>2. \A i \in D : q[i] = m[i] /\ C2[i] = C[i]
    BY <1>4, <1>7 DEF D
  <2>3. QED
    BY <1>6, <2>1, <2>2 DEF OneRoot
<1>11. /\ \A i \in D : K2[i] \in C2[r]
       /\ \A i, j \in D : K2[i] = K2[j] => i = j
  BY <1>1, <1>5, <1>10 DEF D
<1>12. Z2 \subseteq DOMAIN q
  BY <1>1, <1>3, <1>4 DEF Z2
<1>13. Searchable(q, K2, C2, r, Z2)
  BY <1>4, <1>5, <1>6, <1>7, <1>8, <1>9, <1>10, <1>11, <1>12 DEF Searchable
<1>14. QED
  BY <1>10, <1>13 DEF Z2


\* From a node of the tree it finds the root, whatever is in the region besides the tree.
LEMMA RootIsInTree ==
    ASSUME NEW m, NEW h, NEW d, Tree(m, h, d), NEW Z, Z \subseteq DOMAIN m, Spare(m, Z),
           NEW from \in DOMAIN m \ Z
    PROVE  Root(m, from) \in DOMAIN m \ Z
<1> DEFINE D == DOMAIN m \ Z
           Bad == {i \in D : Root(m, i) \notin D}
<1>1. Bad = {}
  <2>1. SUFFICES ASSUME Bad # {} PROVE FALSE
    OBVIOUS
  <2>2. PICK i \in Bad : m[i].parent # 0 => m[i].parent \in DOMAIN m /\ m[i].parent \notin Bad
    <3>1. Bad \subseteq DOMAIN m
      OBVIOUS
    <3> HIDE DEF Bad
    <3>2. QED
      BY <2>1, <3>1, HighestNode
  <2>3. i \in D /\ Root(m, i) = IF m[i].parent = 0 THEN i ELSE Root(m, m[i].parent)
    BY RootIs
  <2>4. m[i].parent # 0 => m[i].parent \in D
    BY <2>3, LinksAreInTree DEF Tree
  <2>5. QED
    BY <2>2, <2>3, <2>4
<1>2. QED
  BY <1>1

-----------------------------------------------------------------------------
(* What the tree stores, in the steps of an insertion.                      *)

\* The key being inserted: it is not yet in the tree, or with the value it had.
NewKeys == IF pc = "place" THEN {keys[dataOffset]} ELSE {}

Stored(C, r, Z) ==
    /\ Searchable(Whole, keys, C, r, Z)
    /\ 1 \notin Z /\ RootOffset \notin Z
    /\ C[r] \cup NewKeys = DOMAIN latest
    /\ \A i \in DOMAIN Whole \ Z : keys[i] \notin NewKeys => Whole[i].value = latest[keys[i]]

Placing(C, r, Z) ==
    /\ dataOffset \in Z
    /\ node.value = latest[keys[dataOffset]]
    /\ \E P : Way(mem, keys, C, r, Z, P, keys[dataOffset], rootOffset)

DataInv ==
    /\ mem = <<>> => keys = <<>> /\ DOMAIN latest = {}
    /\ mem # <<>> => \E C, r, Z : Stored(C, r, Z) /\ (pc = "place" => Placing(C, r, Z))

LEMMA InitData == Init => DataInv
BY DEF Init, DataInv

\* Steps that leave what is stored as it is.
LEMMA KeptStep ==
    ASSUME pc # "place", pc' # "place", UNCHANGED <<keys, latest>>, mem' # <<>>,
           NEW C, NEW r, NEW Z, Stored(C, r, Z), RootOffset' \notin Z,
           NEW C2, NEW r2, Searchable(Whole', keys, C2, r2, Z), C2[r2] = C[r],
           DOMAIN Whole' = DOMAIN Whole, SameValues(Whole, Whole')
    PROVE  DataInv'
<1>1. NewKeys = {} /\ NewKeys' = {}
  BY DEF NewKeys
<1>2. \A i \in DOMAIN Whole \ Z : Whole'[i].value = latest[keys[i]]
  BY <1>1 DEF Stored, SameValues
<1>3. C2[r2] \cup {} = DOMAIN latest /\ 1 \notin Z
  BY <1>1 DEF Stored
<1>4. Stored(C2, r2, Z)'
  BY <1>1, <1>2, <1>3 DEF Stored
<1>5. QED
  BY <1>4 DEF DataInv

LEMMA QuietData ==
    ASSUME DataInv, pc # "place", pc' # "place", UNCHANGED <<keys, latest>>,
           mem # <<>>, mem' # <<>>, Whole' = Whole,
           \A C, r, Z : Stored(C, r, Z) => RootOffset' \notin Z
    PROVE  DataInv'
<1>1. PICK C, r, Z : Stored(C, r, Z)
  BY DEF DataInv
<1>2. Searchable(Whole', keys, C, r, Z)
  BY <1>1 DEF Stored
<1>3. SameValues(Whole, Whole')
  BY DEF SameValues
<1>4. QED
  BY <1>1, <1>2, <1>3, KeptStep

LEMMA FirstInsertData ==
    ASSUME TreeInv, DataInv, NEW k \in Keys, NEW withValue \in BOOLEAN, Insert(k, withValue),
           Len(mem) = 0
    PROVE  DataInv'
<1> DEFINE v == IF withValue THEN 1 ELSE 0
           b == [Blank EXCEPT !.value = v]
           C == [i \in 0..1 |-> IF i = 1 THEN {k} ELSE {}]
<1>1. mem \in Seq(Nodes(Len(mem)))
  BY DEF TreeInv, Insert, Whole, Tree
<1>2. mem = <<>>
  BY <1>1
<1>3. keys = <<>> /\ DOMAIN latest = {}
  BY <1>2 DEF DataInv
<1>4. /\ mem' = Append(mem, b) /\ pc' = "ready" /\ RootOffset' = RootOffset
      /\ keys' = Append(keys, k)
      /\ latest' = [j \in DOMAIN latest \cup {k} |-> IF j = k THEN v ELSE latest[j]]
  BY <1>2 DEF Insert, Return
<1>5. mem' = <<b>> /\ keys' = <<k>> /\ DOMAIN latest' = {k} /\ latest'[k] = v
  BY <1>2, <1>3, <1>4
<1>6. b.parent = 0 /\ b.left = 0 /\ b.right = 0 /\ b.value = v
  BY DEF Blank
<1> HIDE DEF v, b
<1>7. /\ Whole' = <<b>> /\ NewKeys' = {}
      /\ Len(Whole') = 1 /\ DOMAIN Whole' = {1} /\ Whole'[1] = b
      /\ Len(keys') = 1 /\ keys'[1] = k /\ keys' \in Seq(Keys)
  BY <1>4, <1>5 DEF Whole, NewKeys
<1>8. C \in [0..1 -> SUBSET Keys] /\ C[0] = {} /\ C[1] = {k}
  OBVIOUS
<1> HIDE DEF C
<1>9. \A s \in Sides : Whole'[1][s] = 0
  BY <1>6, <1>7 DEF Sides
<1>10. DOMAIN Whole' \ {} = {1}
  BY <1>7
<1>11. Contents(Whole', keys', C, {})
  BY <1>7, <1>8, <1>9, <1>10 DEF Contents
<1>12. OneRoot(Whole', 1, {}) /\ Spare(Whole', {})
  BY <1>6, <1>7, <1>10 DEF OneRoot, Spare
<1>13. Searchable(Whole', keys', C, 1, {})
  BY <1>7, <1>8, <1>10, <1>11, <1>12 DEF Searchable
<1>14. \A i \in DOMAIN Whole' \ {} : Whole'[i].value = latest'[keys'[i]]
  BY <1>5, <1>6, <1>7, <1>10
<1>15. C[1] \cup NewKeys' = DOMAIN latest'
  BY <1>5, <1>7, <1>8
<1>16. Stored(C, 1, {})'
  BY <1>13, <1>14, <1>15 DEF Stored
<1>17. mem' # <<>> /\ pc' # "place"
  BY <1>4, <1>5
<1>18. QED
  BY <1>16, <1>17 DEF DataInv

LEMMA LaterInsertData ==
    ASSUME TreeInv, DataInv, NEW k \in Keys, NEW withValue \in BOOLEAN, Insert(k, withValue),
           Len(mem) # 0
    PROVE  DataInv'
<1>0. PICK n : n = Len(mem) + 1
  OBVIOUS
<1> DEFINE v == IF withValue THEN n ELSE 0
<1>1. pc = "ready" /\ Whole = mem
  BY DEF Insert, Whole
<1>2. PICK h : Tree(mem, h, 0)
  BY <1>1 DEF TreeInv, Exception
<1>3. /\ mem \in Seq(Nodes(Len(mem))) /\ Len(mem) \in Nat /\ DOMAIN mem = 1..Len(mem) /\ mem # <<>>
      /\ 0 \notin DOMAIN mem /\ Linked(mem)
  BY <1>2, NodesAre DEF Tree
<1>4. n # 1 /\ n > 1 /\ n \notin DOMAIN mem
  BY <1>0, <1>3
<1>5. /\ mem' = Append(mem, Blank) /\ RootOffset' = Root(mem, RootOffset)
      /\ rootOffset' = RootOffset' /\ dataOffset' = n
      /\ node' = [Blank EXCEPT !.value = v, !.red = TRUE]
      /\ pc' = "place" /\ keys' = Append(keys, k)
      /\ latest' = [j \in DOMAIN latest \cup {k} |-> IF j = k THEN v ELSE latest[j]]
  BY <1>0, <1>4 DEF Insert
<1>6. PICK C, r, Z : Stored(C, r, Z)
  BY <1>3 DEF DataInv
<1>7. /\ Searchable(mem, keys, C, r, Z) /\ 1 \notin Z /\ RootOffset \notin Z
      /\ C[r] = DOMAIN latest
      /\ \A i \in DOMAIN mem \ Z : mem[i].value = latest[keys[i]]
  BY <1>1, <1>6 DEF Stored, NewKeys
<1>8. /\ keys \in Seq(Keys) /\ Len(keys) = Len(mem) /\ OneRoot(mem, r, Z)
      /\ Z \subseteq DOMAIN mem /\ Spare(mem, Z)
      /\ \A i \in DOMAIN mem \ Z : keys[i] \in C[r]
  BY <1>7 DEF Searchable
<1>9. PICK C2 : Searchable(mem', keys', C2, r, Z \cup {n}) /\ C2[r] = C[r]
  <2>1. Grown(mem, keys, k, mem', keys', n)
    BY <1>0, <1>5 DEF Grown
  <2>2. Searchable(mem, keys, C, r, Z) /\ k \in Keys
    BY <1>7
  <2>3. Linked(mem) /\ mem \in Seq(Nodes(Len(mem)))
    BY <1>3
  <2>4. \E C2 : Searchable(mem', keys', C2, r, Z \cup {n}) /\ C2[r] = C[r]
    BY <2>1, <2>2, <2>3, GrownIsSearchable
  <2>5. QED
    BY <2>4
<1>10. RootOffset' = r
  <2>1. RootOffset \in DOMAIN mem
    BY <1>3 DEF TreeInv
  <2>2. RootOffset' \in DOMAIN mem \ Z
    BY <1>2, <1>5, <1>7, <1>8, <2>1, RootIsInTree
  <2>3. mem[RootOffset'].parent = 0
    BY <1>2, <1>5, <2>1, RootClimbs
  <2>4. QED
    BY <1>8, <2>2, <2>3 DEF OneRoot
<1>11. /\ Len(mem') = n /\ DOMAIN mem' = 1..n /\ \A x \in DOMAIN mem : mem'[x] = mem[x]
  <2>1. mem \in Seq(Nodes(Len(mem)) \cup {Blank})
    BY <1>3, ElementOfSeq
  <2>2. QED
    BY <1>0, <1>3, <1>5, <2>1, AppendProperties
<1>12. keys'[n] = k /\ \A x \in DOMAIN mem : keys'[x] = keys[x]
  BY <1>0, <1>3, <1>5, <1>8, AppendProperties
<1>13. node'.value = v /\ latest'[k] = v
       /\ DOMAIN latest' = DOMAIN latest \cup {k}
       /\ \A j \in DOMAIN latest : j # k => latest'[j] = latest[j]
  BY <1>5 DEF Blank
<1>14. Whole' = mem' /\ NewKeys' = {k}
  BY <1>5, <1>12 DEF Whole, NewKeys
<1> HIDE DEF v
<1>15. DOMAIN mem' \ (Z \cup {n}) = DOMAIN mem \ Z
  BY <1>0, <1>3, <1>4, <1>8, <1>11
<1>16. ASSUME NEW i \in DOMAIN mem' \ (Z \cup {n}), keys'[i] # k
       PROVE  mem'[i].value = latest'[keys'[i]]
  <2>1. i \in DOMAIN mem \ Z /\ keys'[i] = keys[i] /\ mem'[i] = mem[i]
    BY <1>11, <1>12, <1>15
  <2>2. keys[i] \in DOMAIN latest
    BY <1>7, <1>8, <2>1
  <2>3. QED
    BY <1>7, <1>13, <1>16, <2>1, <2>2
<1>17. Stored(C2, r, Z \cup {n})'
  <2>1. Searchable(mem', keys', C2, r, Z \cup {n})
    BY <1>5, <1>9
  <2>2. 1 \notin Z \cup {n} /\ RootOffset' \notin Z \cup {n}
    BY <1>4, <1>7, <1>8, <1>10 DEF OneRoot
  <2>3. C2[r] \cup {k} = DOMAIN latest'
    BY <1>7, <1>9, <1>13
  <2>4. QED
    BY <1>14, <1>16, <2>1, <2>2, <2>3 DEF Stored
<1>18. Way(mem', keys', C2, r, Z \cup {n}, {r}, k, r)
  <2>1. r \in DOMAIN mem \ Z /\ mem[r].parent = 0 /\ mem'[r] = mem[r]
    BY <1>8, <1>11 DEF OneRoot
  <2>2. ASSUME NEW s \in Sides PROVE mem[r][s] # r
    <3>1. mem[r][s] # 0 => mem[mem[r][s]].parent = r
      BY <1>3, <2>1 DEF Linked
    <3>2. QED
      BY <1>3, <2>1, <3>1
  <2>3. r \in DOMAIN mem' \ (Z \cup {n})
    BY <1>15, <2>1
  <2>4. QED
    BY <2>1, <2>2, <2>3 DEF Way
<1>19. Placing(C2, r, Z \cup {n})'
  BY <1>5, <1>10, <1>12, <1>13, <1>18 DEF Placing
<1>20. mem' # <<>>
  BY <1>4, <1>11
<1>21. QED
  BY <1>17, <1>19, <1>20 DEF DataInv

LEMMA PlacingFacts ==
    ASSUME TreeInv, DataInv, pc = "place"
    PROVE  \E C, r, Z : /\ Searchable(mem, keys, C, r, Z) /\ 1 \notin Z /\ RootOffset \notin Z
                        /\ C[r] \cup {keys[dataOffset]} = DOMAIN latest
                        /\ \A i \in DOMAIN mem \ Z :
                              keys[i] # keys[dataOffset] => mem[i].value = latest[keys[i]]
                        /\ Placing(C, r, Z)
<1>1. Whole = mem /\ NewKeys = {keys[dataOffset]} /\ mem # <<>>
  BY DEF Whole, NewKeys, TreeInv
<1>2. PICK C, r, Z : Stored(C, r, Z) /\ Placing(C, r, Z)
  BY <1>1 DEF DataInv
<1>3. QED
  BY <1>1, <1>2 DEF Stored

LEMMA OverwriteData ==
    ASSUME TreeInv, DataInv, Place, keys[dataOffset] = keys[rootOffset]
    PROVE  DataInv'
<1> DEFINE x == rootOffset
           r1 == [root EXCEPT !.value = node.value]
<1>1. /\ pc = "place" /\ mem' = [mem EXCEPT ![x] = r1]
      /\ pc' = "ready" /\ RootOffset' = RootOffset /\ keys' = keys /\ latest' = latest
  BY DEF Place, Overwritten, Return
<1>2. /\ \E h : Tree(mem, h, 0)
      /\ mem \in Seq(Nodes(Len(mem))) /\ Len(mem) \in Nat /\ DOMAIN mem = 1..Len(mem) /\ mem # <<>>
      /\ CopiesInv /\ PlaceInv
  BY <1>1, PlaceFacts
<1>3. /\ x \in DOMAIN mem /\ root = mem[x] /\ root \in Nodes(Len(mem)) /\ node \in Nodes(Len(mem))
  BY <1>2 DEF CopiesInv, PlaceInv
<1>4. PICK C, r, Z :
        /\ Searchable(mem, keys, C, r, Z) /\ 1 \notin Z /\ RootOffset \notin Z
        /\ C[r] \cup {keys[dataOffset]} = DOMAIN latest
        /\ \A i \in DOMAIN mem \ Z :
              keys[i] # keys[dataOffset] => mem[i].value = latest[keys[i]]
        /\ Placing(C, r, Z)
  BY <1>1, PlacingFacts
<1>5. /\ r1 \in Nodes(Len(mem)) /\ r1.value = node.value /\ r1.parent = root.parent
      /\ \A s \in Sides : r1[s] = root[s]
  BY <1>3 DEF Nodes, Sides
<1> HIDE DEF r1
<1>6. /\ mem' \in Seq(Nodes(Len(mem))) /\ Len(mem') = Len(mem) /\ DOMAIN mem' = DOMAIN mem
      /\ mem'[x] = r1
      /\ \A y \in DOMAIN mem : y # x => mem'[y] = mem[y]
  BY <1>1, <1>2, <1>3, <1>5, Replaced
<1>7. SameLinks(mem, mem')
  <2>1. ASSUME NEW y \in DOMAIN mem
        PROVE  mem'[y].parent = mem[y].parent /\ \A s \in Sides : mem'[y][s] = mem[y][s]
    <3>1. CASE y = x
      BY <1>3, <1>5, <1>6, <3>1
    <3>2. CASE y # x
      BY <1>6, <3>2
    <3>3. QED
      BY <3>1, <3>2
  <2>2. QED
    BY <1>6, <2>1 DEF SameLinks
<1>8. Searchable(mem', keys, C, r, Z)
  <2>1. Linked(mem)
    BY <1>2 DEF Tree
  <2>2. Searchable(mem, keys, C, r, Z)
    BY <1>4
  <2>3. mem \in Seq(Nodes(Len(mem)))
    BY <1>2
  <2>4. QED
    BY <1>7, <2>1, <2>2, <2>3, SameLinksIsSearchable
<1>9. x \in DOMAIN mem \ Z
  <2>1. PICK P : Way(mem, keys, C, r, Z, P, keys[dataOffset], x)
    BY <1>4 DEF Placing
  <2>2. QED
    BY <2>1 DEF Way
<1>10. keys[dataOffset] \in C[r]
  BY <1>4, <1>9 DEF Searchable
<1>11. Whole' = mem' /\ NewKeys' = {}
  BY <1>1 DEF Whole, NewKeys
<1>12. ASSUME NEW i \in DOMAIN mem' \ Z PROVE mem'[i].value = latest[keys[i]]
  <2>1. CASE i = x
    BY <1>4, <1>5, <1>6, <2>1 DEF Placing
  <2>2. CASE i # x
    <3>1. keys[i] # keys[x]
      BY <1>4, <1>6, <1>9, <2>2 DEF Searchable
    <3>2. QED
      BY <1>4, <1>6, <2>2, <3>1
  <2>3. QED
    BY <2>1, <2>2
<1>13. C[r] \cup {} = DOMAIN latest
  BY <1>4, <1>10
<1>14. Stored(C, r, Z)'
  BY <1>1, <1>4, <1>8, <1>11, <1>12, <1>13 DEF Stored
<1>15. mem' # <<>>
  BY <1>3, <1>6
<1>16. QED
  BY <1>1, <1>14, <1>15 DEF DataInv

LEMMA DescendData ==
    ASSUME TreeInv, DataInv, Place, keys[dataOffset] # keys[rootOffset], root[Towards] # 0
    PROVE  DataInv'
<1> DEFINE x == rootOffset
           k == keys[dataOffset]
<1>0. PICK c : c = root[Towards]
  OBVIOUS
<1>1. /\ pc = "place" /\ rootOffset' = c
      /\ UNCHANGED <<mem, pc, dataOffset, node, RootOffset, keys, latest>>
  BY <1>0 DEF Place, Towards
<1>2. /\ \E h : Tree(mem, h, 0)
      /\ mem \in Seq(Nodes(Len(mem))) /\ mem # <<>>
      /\ CopiesInv /\ PlaceInv
  BY <1>1, PlaceFacts
<1>3. root = mem[x] /\ x \in DOMAIN mem /\ dataOffset \in DOMAIN mem
  BY <1>2 DEF CopiesInv, PlaceInv
<1>4. PICK C, r, Z : Stored(C, r, Z) /\ Placing(C, r, Z)
  BY <1>1, <1>2 DEF DataInv
<1>5. Searchable(mem, keys, C, r, Z)
  BY <1>1, <1>4 DEF Stored, Whole
<1>6. k \in Keys /\ keys[x] \in Keys
  BY <1>2, <1>3, <1>5, KeysAre
<1>7. PICK P : Way(mem, keys, C, r, Z, P, k, x)
  BY <1>4 DEF Placing
<1>8. Linked(mem) /\ mem \in Seq(Nodes(Len(mem)))
  BY <1>2 DEF Tree
<1>9. c = mem[x][SideOf(k, keys[x])] /\ c # 0 /\ k # keys[x]
  BY <1>0, <1>3 DEF Towards, SideOf
<1>10. Way(mem, keys, C, r, Z, P \cup {c}, k, c)
  BY <1>5, <1>6, <1>7, <1>8, <1>9, WayDescends
<1>11. Placing(C, r, Z)'
  BY <1>1, <1>4, <1>10 DEF Placing
<1>12. Whole' = Whole /\ NewKeys' = NewKeys
  BY <1>1 DEF Whole, NewKeys
<1>13. Stored(C, r, Z)'
  BY <1>1, <1>4, <1>12 DEF Stored
<1>14. QED
  BY <1>1, <1>2, <1>11, <1>13 DEF DataInv

LEMMA LinkData ==
    ASSUME TreeInv, DataInv, Place, keys[dataOffset] # keys[rootOffset], root[Towards] = 0
    PROVE  DataInv'
<1>0. PICK n, x, side, q : n = dataOffset /\ x = rootOffset /\ side = Towards /\ q = Whole'
  OBVIOUS
<1>1. /\ pc = "place" /\ pc' = "placed"
      /\ UNCHANGED <<RootOffset, keys, latest>>
      /\ DOMAIN mem' = DOMAIN mem
      /\ q \in Seq(Nodes(Len(mem))) /\ Len(q) = Len(mem) /\ DOMAIN q = DOMAIN mem
      /\ q[n] = node' /\ q[x] = root'
      /\ \A y \in DOMAIN mem : y # n /\ y # x => q[y] = mem[y]
      /\ node'.parent = x
      /\ node'.left = 0 /\ node'.right = 0 /\ node'.value = node.value
      /\ root'.parent = root.parent
      /\ root'[side] = n /\ root'[Other(side)] = root[Other(side)]
      /\ root'.value = root.value
  BY <1>0, LinkIs
<1>2. /\ \E h : Tree(mem, h, 0)
      /\ mem \in Seq(Nodes(Len(mem))) /\ mem # <<>> /\ DOMAIN mem = 1..Len(mem)
      /\ CopiesInv /\ PlaceInv
  BY <1>1, PlaceFacts
<1>3. /\ root = mem[x] /\ x \in DOMAIN mem /\ n \in DOMAIN mem /\ n # x
      /\ side \in Sides /\ mem[n] = Blank
  BY <1>0, <1>2, TowardsIs DEF CopiesInv, PlaceInv
<1>4. PICK C, r, Z :
        /\ Searchable(mem, keys, C, r, Z) /\ 1 \notin Z /\ RootOffset \notin Z
        /\ C[r] \cup {keys[n]} = DOMAIN latest
        /\ \A i \in DOMAIN mem \ Z : keys[i] # keys[n] => mem[i].value = latest[keys[i]]
        /\ Placing(C, r, Z)
  BY <1>0, <1>1, PlacingFacts
<1>5. Searchable(mem, keys, C, r, Z)
  BY <1>4
<1>6. keys[n] \in Keys /\ keys[x] \in Keys
  BY <1>2, <1>3, <1>5, KeysAre
<1>7. PICK P : Way(mem, keys, C, r, Z, P, keys[n], x)
  BY <1>0, <1>4 DEF Placing
<1>8. Linked(mem) /\ mem \in Seq(Nodes(Len(mem)))
  BY <1>2 DEF Tree
<1>9. side = SideOf(keys[n], keys[x]) /\ mem[x][side] = 0 /\ keys[n] # keys[x]
  BY <1>0, <1>3 DEF Towards, SideOf
<1>10. Hung(mem, n, x, side, q)
  <2>1. /\ \A s \in Sides : node'[s] = 0 /\ mem[n][s] = 0
        /\ mem[n].parent = 0
    BY <1>1, <1>3 DEF Sides, Blank
  <2>2. \A s \in Sides : s = side \/ s = Other(side)
    BY <1>3, OtherSide
  <2>3. ASSUME NEW y \in DOMAIN mem
        PROVE  /\ q[y].parent = IF y = n THEN x ELSE mem[y].parent
               /\ \A s \in Sides : q[y][s] = IF y = x /\ s = side THEN n ELSE mem[y][s]
    <3>1. CASE y = n
      BY <1>1, <1>3, <2>1, <3>1
    <3>2. CASE y = x
      <4>1. ASSUME NEW s \in Sides PROVE q[y][s] = IF s = side THEN n ELSE mem[y][s]
        BY <1>1, <1>3, <2>2, <3>2
      <4>2. QED
        BY <1>1, <1>3, <3>2, <4>1
    <3>3. CASE y # n /\ y # x
      BY <1>1, <3>3
    <3>4. QED
      BY <3>1, <3>2, <3>3
  <2>4. QED
    BY <1>1, <2>3 DEF Hung
<1>11. n \in Z
  BY <1>0, <1>4 DEF Placing
<1>12. PICK C2 : Searchable(q, keys, C2, r, Z \ {n}) /\ C2[r] = C[r] \cup {keys[n]}
  <2>1. Joins(mem, keys, C, r, Z, n, P, x, side, q)
    BY <1>7, <1>9, <1>10, <1>11 DEF Joins
  <2>2. \E C2 : Searchable(q, keys, C2, r, Z \ {n}) /\ OneMore(C, C2, r, keys[n])
    BY <1>5, <1>8, <2>1, HungIsSearchable
  <2>3. QED
    BY <2>2 DEF OneMore
<1>13. ASSUME NEW i \in DOMAIN q \ (Z \ {n}) PROVE q[i].value = latest[keys[i]]
  <2>1. CASE i = n
    BY <1>0, <1>1, <1>4, <2>1 DEF Placing
  <2>2. CASE i # n
    <3>1. i \in DOMAIN mem \ Z
      BY <1>1, <2>2
    <3>2. q[i].value = mem[i].value
      BY <1>1, <1>3, <2>2, <3>1
    <3>3. keys[i] # keys[n]
      BY <1>1, <1>3, <1>12, <2>2 DEF Searchable
    <3>4. QED
      BY <1>4, <3>1, <3>2, <3>3
  <2>3. QED
    BY <2>1, <2>2
<1>14. Whole' = q /\ NewKeys' = {} /\ 1 \notin Z \ {n} /\ RootOffset' \notin Z \ {n}
  BY <1>0, <1>1, <1>4 DEF NewKeys
<1>15. C2[r] \cup {} = DOMAIN latest
  BY <1>4, <1>12
<1>16. Stored(C2, r, Z \ {n})'
  BY <1>1, <1>12, <1>13, <1>14, <1>15 DEF Stored
<1>17. mem' # <<>>
  BY <1>1, <1>3
<1>18. QED
  BY <1>1, <1>16, <1>17 DEF DataInv

LEMMA PlacedData ==
    ASSUME TreeInv, DataInv, Placed
    PROVE  DataInv'
<1>1. /\ pc = "placed" /\ pc' \in {"ready", "fix"}
      /\ UNCHANGED <<keys, latest, RootOffset>>
  BY DEF Placed, Return
<1>2. mem # <<>> /\ DOMAIN mem # {} /\ DOMAIN Whole = DOMAIN mem
  BY <1>1, FixFacts
<1>3. Whole = [mem EXCEPT ![rootOffset] = root]
  BY <1>1 DEF Whole
<1>4. (mem' = Whole /\ pc' = "ready") \/ (mem' = mem /\ pc' = "fix" /\ UNCHANGED locals)
  BY <1>3 DEF Placed, Return
<1>5. Whole' = Whole
  <2>1. CASE mem' = Whole /\ pc' = "ready"
    BY <2>1 DEF Whole
  <2>2. CASE mem' = mem /\ pc' = "fix" /\ UNCHANGED locals
    BY <1>1, <2>2 DEF Whole, locals
  <2>3. QED
    BY <1>4, <2>1, <2>2
<1>6. mem' # <<>>
  BY <1>2, <1>4
<1>7. \A C, r, Z : Stored(C, r, Z) => RootOffset' \notin Z
  BY <1>1 DEF Stored
<1>8. QED
  BY <1>1, <1>2, <1>5, <1>6, <1>7, QuietData

\* The links of the region stay, or two nodes turn.
LEMMA LinkedData ==
    ASSUME DataInv, pc # "place", pc' # "place", UNCHANGED <<keys, latest, RootOffset>>,
           mem # <<>>, mem' # <<>>,
           NEW m, m = Whole, NEW h, NEW d, Tree(m, h, d), NEW q, q = Whole', SameLinks(m, q),
           SameValues(m, q)
    PROVE  DataInv'
<1>1. PICK C, r, Z : Stored(C, r, Z)
  BY DEF DataInv
<1>2. Searchable(m, keys, C, r, Z) /\ RootOffset' \notin Z
  BY <1>1 DEF Stored
<1>3. m \in Seq(Nodes(Len(m))) /\ Linked(m)
  BY DEF Tree
<1>4. Searchable(q, keys, C, r, Z)
  BY <1>2, <1>3, SameLinksIsSearchable
<1>5. DOMAIN q = DOMAIN m
  BY <1>3, SameLinksIsLinked
<1>6. QED
  BY <1>1, <1>2, <1>4, <1>5, KeptStep

LEMMA TurnedData ==
    ASSUME DataInv, pc # "place", pc' # "place", UNCHANGED <<keys, latest, RootOffset>>,
           mem # <<>>, mem' # <<>>,
           NEW m, m = Whole, NEW h, NEW d, Tree(m, h, d), NEW q, q = Whole',
           NEW at \in DOMAIN m, NEW side \in Sides, Down(m, at, side) # 0, Turned(m, at, side, q),
           SameValues(m, q)
    PROVE  DataInv'
<1>1. PICK C, r, Z : Stored(C, r, Z)
  BY DEF DataInv
<1>2. Searchable(m, keys, C, r, Z) /\ RootOffset' \notin Z
  BY <1>1 DEF Stored
<1>3. m \in Seq(Nodes(Len(m))) /\ Linked(m)
  BY DEF Tree
<1>4. Apart(m, at, side)
  BY RotationApart
<1>5. PICK C2, r2 : Searchable(q, keys, C2, r2, Z) /\ C2[r2] = C[r]
  <2>1. Searchable(m, keys, C, r, Z)
    BY <1>2
  <2>2. \E C2, r2 : Searchable(q, keys, C2, r2, Z) /\ C2[r2] = C[r]
    BY <1>3, <1>4, <2>1, TurnedIsSearchable
  <2>3. QED
    BY <2>2
<1>6. DOMAIN q = DOMAIN m
  BY <1>3, NodesAre DEF Turned
<1>7. QED
  BY <1>1, <1>2, <1>5, <1>6, KeptStep

LEMMA RecolourData ==
    ASSUME TreeInv, DataInv, Recolour
    PROVE  DataInv'
<1>1. /\ pc = "fix" /\ pc' \in {"fix", "findroot"}
      /\ UNCHANGED <<keys, latest, RootOffset>>
  BY DEF Recolour
<1>2. /\ mem # <<>> /\ DOMAIN mem = 1..Len(mem) /\ Len(Whole) = Len(mem)
      /\ DOMAIN Whole = DOMAIN mem
  BY <1>1, FixFacts
<1>3. PICK h : Tree(Whole, h, dataOffset)
  BY <1>1, FixFacts
<1>4. SameLinks(Whole, mem') /\ SameValues(Whole, mem')
  BY RecolourIs
<1>5. mem' \in Seq(Nodes(Len(mem))) /\ Len(mem') = Len(mem)
  BY <1>2, <1>4 DEF SameLinks
<1>6. DOMAIN mem' = DOMAIN mem /\ mem' # <<>>
  BY <1>2, <1>5
<1>7. Whole' = mem'
  <2>1. CASE pc' = "findroot"
    BY <2>1 DEF Whole
  <2>2. CASE pc' = "fix"
    <3>1. root' = mem'[rootOffset']
      BY <2>2, <1>1 DEF Recolour
    <3>2. [mem' EXCEPT ![rootOffset'] = mem'[rootOffset']] = mem'
      BY <1>5, <1>6
    <3>3. QED
      BY <2>2, <3>1, <3>2 DEF Whole
  <2>3. QED
    BY <1>1, <2>1, <2>2
<1>8. SameLinks(Whole, Whole') /\ SameValues(Whole, Whole')
  BY <1>4, <1>7
<1>9. QED
  BY <1>1, <1>2, <1>3, <1>6, <1>8, LinkedData

LEMMA RotateInnerData ==
    ASSUME TreeInv, DataInv, RotateInner
    PROVE  DataInv'
<1>0. PICK side : side = IF dataOffset = root.right THEN "left" ELSE "right"
  OBVIOUS
<1>1. /\ pc = "fix" /\ pc' = "outer" /\ ~UncleIsRed
      /\ UNCHANGED <<keys, latest, RootOffset>>
  BY DEF RotateInner
<1>2. /\ mem # <<>> /\ DOMAIN mem = 1..Len(mem) /\ Len(Whole) = Len(mem)
      /\ DOMAIN Whole = DOMAIN mem /\ rootOffset \in DOMAIN mem /\ dataOffset \in DOMAIN mem
      /\ node.parent = rootOffset
  BY <1>1, FixFacts
<1>3. PICK h : Tree(Whole, h, dataOffset)
  BY <1>1, FixFacts
<1>4. Whole' = mem'
  BY <1>1 DEF Whole
<1>5. CASE dataOffset = root[Other(side)] /\ rootOffset = Grand[side]
  <2>1. side \in Sides
    BY <1>0 DEF Sides
  <2>2. mem' = Rotate(mem, Grand, root.parent, rootOffset, root, side)
    BY <1>0, <1>2, <1>5 DEF RotateInner
  <2>3. /\ Down(Whole, rootOffset, side) = dataOffset
        /\ Turned(Whole, rootOffset, side, mem') /\ SameColours(Whole, mem')
    BY <1>1, <1>5, <2>1, <2>2, InnerTurned
  <2>4. SameValues(Whole, Whole') /\ Turned(Whole, rootOffset, side, Whole')
    BY <1>4, <2>3 DEF SameColours, SameValues
  <2>5. Down(Whole, rootOffset, side) # 0 /\ rootOffset \in DOMAIN Whole
    BY <1>2, <2>3
  <2>6. mem' # <<>>
    BY <1>2, <2>3 DEF Turned
  <2>7. QED
    BY <1>1, <1>2, <1>3, <2>1, <2>4, <2>5, <2>6, TurnedData
<1>6. CASE ~(dataOffset = root[Other(side)] /\ rootOffset = Grand[side])
  <2>1. mem' = [mem EXCEPT ![rootOffset] = root]
    BY <1>0, <1>2, <1>6 DEF RotateInner
  <2>2. Whole' = Whole
    BY <1>1, <1>4, <2>1 DEF Whole
  <2>3. mem' # <<>>
    BY <1>2, <1>4, <2>2
  <2>4. \A C, r, Z : Stored(C, r, Z) => RootOffset' \notin Z
    BY <1>1 DEF Stored
  <2>5. QED
    BY <1>1, <1>2, <2>2, <2>3, <2>4, QuietData
<1>7. QED
  BY <1>5, <1>6

LEMMA RotateOuterData ==
    ASSUME TreeInv, DataInv, RotateOuter
    PROVE  DataInv'
<1>1. /\ pc = "outer" /\ pc' = "findroot"
      /\ UNCHANGED <<keys, latest, RootOffset>>
  BY DEF RotateOuter
<1>2. /\ mem # <<>> /\ DOMAIN mem = 1..Len(mem) /\ \E h : Tree(Whole, h, dataOffset)
  BY <1>1, FixFacts
<1>3. Whole = mem /\ Whole' = mem'
  BY <1>1 DEF Whole
<1>4. PICK side \in Sides :
        /\ parentRootOffset \in DOMAIN mem /\ rootOffset # 0
        /\ Down(mem, parentRootOffset, side) = rootOffset
        /\ Turned(mem, parentRootOffset, side, mem') /\ SameValues(mem, mem')
  BY OuterIs
<1>5. mem' # <<>>
  BY <1>2, <1>4 DEF Turned
<1>6. PICK h : Tree(mem, h, dataOffset)
  BY <1>2, <1>3
<1>7. Down(mem, parentRootOffset, side) # 0
  BY <1>4
<1>8. QED
  BY <1>1, <1>2, <1>3, <1>4, <1>5, <1>6, <1>7, TurnedData

LEMMA RootData ==
    ASSUME TreeInv, DataInv, FindNewRoot \/ Reopen
    PROVE  DataInv'
<1>1. /\ pc \in {"findroot", "ready"} /\ pc' = "ready" /\ UNCHANGED <<mem, keys, latest>>
      /\ RootOffset' = Root(mem, RootOffset) \/ RootOffset' = Root(mem, 1)
  BY DEF FindNewRoot, Reopen, Return
<1>2. mem # <<>>
  BY DEF FindNewRoot, Reopen, TreeInv
<1>3. Whole = mem /\ Whole' = mem
  BY <1>1 DEF Whole
<1>4. PICK h : Tree(mem, h, 0)
  BY <1>1 DEF TreeInv, Whole, Exception
<1>5. RootOffset \in DOMAIN mem /\ 1 \in DOMAIN mem
  BY <1>2, <1>4, NodesAre DEF TreeInv, Tree
<1>6. ASSUME NEW C, NEW r, NEW Z, Stored(C, r, Z) PROVE RootOffset' \notin Z
  <2>1. RootOffset \in DOMAIN mem \ Z /\ 1 \in DOMAIN mem \ Z
    BY <1>5, <1>6 DEF Stored
  <2>2. Z \subseteq DOMAIN mem /\ Spare(mem, Z)
    BY <1>3, <1>6 DEF Stored, Searchable
  <2>3. QED
    BY <1>1, <1>4, <2>1, <2>2, RootIsInTree
<1>7. QED
  BY <1>1, <1>2, <1>3, <1>6, QuietData

LEMMA DataIsInductive ==
    ASSUME TreeInv, DataInv, [Next]_vars
    PROVE  DataInv'
<1>1. CASE \E k \in Keys, withValue \in BOOLEAN : Insert(k, withValue)
  BY <1>1, FirstInsertData, LaterInsertData
<1>2. CASE Place
  BY <1>2, OverwriteData, DescendData, LinkData
<1>3. CASE Placed
  BY <1>3, PlacedData
<1>4. CASE Recolour
  BY <1>4, RecolourData
<1>5. CASE RotateInner
  BY <1>5, RotateInnerData
<1>6. CASE RotateOuter
  BY <1>6, RotateOuterData
<1>7. CASE FindNewRoot \/ Reopen
  BY <1>7, RootData
<1>8. CASE (\E p \in IterPrefixes : GetAll(p)) \/ Next1 \/ IteratorEnds
  <2>1. /\ pc \in {"ready", "iterating"} /\ pc' \in {"ready", "iterating"}
        /\ UNCHANGED <<mem, keys, latest, RootOffset>> /\ mem # <<>>
    BY <1>8 DEF GetAll, Next1, IteratorEnds, TreeInv
  <2>2. Whole' = Whole
    BY <2>1 DEF Whole
  <2>3. \A C, r, Z : Stored(C, r, Z) => RootOffset' \notin Z
    BY <2>1 DEF Stored
  <2>4. QED
    BY <2>1, <2>2, <2>3, QuietData
<1>9. CASE UNCHANGED vars
  <2>1. UNCHANGED <<mem, keys, latest, RootOffset, pc, dataOffset, node, rootOffset, root>>
    BY <1>9 DEF vars, locals
  <2>2. Whole' = Whole /\ NewKeys' = NewKeys
    BY <2>1 DEF Whole, NewKeys
  <2>3. \A C, r, Z : /\ Stored(C, r, Z) => Stored(C, r, Z)'
                     /\ Placing(C, r, Z) => Placing(C, r, Z)'
    BY <2>1, <2>2 DEF Stored, Placing
  <2>4. QED
    BY <2>1, <2>3 DEF DataInv
<1>10. QED
  BY <1>1, <1>2, <1>3, <1>4, <1>5, <1>6, <1>7, <1>8, <1>9 DEF Next

-----------------------------------------------------------------------------
(* A lookup.                                                                *)

\* The recursive function of Get.
Child(m, K, k, i) == m[i][IF Less(k, K[i]) THEN "left" ELSE "right"]
IsSearch(m, K, k, f) ==
    f = [i \in DOMAIN m |-> IF k = K[i] THEN m[i].value
                            ELSE IF Child(m, K, k, i) = 0 THEN 0 ELSE f[Child(m, K, k, i)]]

LEMMA SearchExists ==
    ASSUME NEW m, NEW h, NEW d, Tree(m, h, d), NEW K, NEW k
    PROVE  \E f : IsSearch(m, K, k, f)
<1> DEFINE D == DOMAIN m
           S == 0..Len(m)
           At(f, i) == IF k = K[i] THEN m[i].value
                       ELSE IF Child(m, K, k, i) = 0 THEN 0 ELSE f[Child(m, K, k, i)]
           F == [f \in [D -> S] |-> [i \in D |-> At(f, i)]]
<1>1. Len(m) \in Nat /\ \A i \in D : m[i].value \in S
  <2>1. Len(m) \in Nat /\ \A i \in D : m[i] \in Nodes(Len(m))
    BY NodesAre DEF Tree
  <2>2. \A n \in Nodes(Len(m)) : n.value \in 0..Len(m)
    BY DEF Nodes
  <2>3. QED
    BY <2>1, <2>2
<1>2. 0 \in S
  BY <1>1
<1>3. \A i \in D : /\ Child(m, K, k, i) \in {0} \cup D
                   /\ \E side \in Sides : Child(m, K, k, i) = m[i][side]
  BY NodesAre DEF Tree, Child, Sides
<1> HIDE DEF D, S
<1>4. \A f \in [D -> S], i \in D : At(f, i) \in S
  BY <1>1, <1>2, <1>3
<1>5. ASSUME NEW f, NEW g, NEW i \in D,
             \A side \in Sides : m[i][side] # 0 => f[m[i][side]] = g[m[i][side]]
      PROVE  At(f, i) = At(g, i)
  BY <1>3, <1>5
<1> HIDE DEF At
<1>6. Makes(D, S, F) /\ \A f \in [D -> S] : F[f] = [i \in D |-> At(f, i)]
  BY <1>4 DEF Makes
<1> HIDE DEF F
<1>7. LooksDown(m, S, F)
  <2>1. \A f, g \in [D -> S], i \in D : F[f][i] = At(f, i) /\ F[g][i] = At(g, i)
    BY <1>6
  <2>2. QED
    BY <1>5, <2>1 DEF LooksDown, D
<1>8. PICK f \in [D -> S] : F[f] = f
  BY <1>2, <1>6, <1>7, DownRecursion DEF D
<1>9. f = [i \in D |-> At(f, i)]
  BY <1>6, <1>8
<1>10. QED
  BY <1>9 DEF IsSearch, D, At

\* From a node of the tree it finds the value of the key, if the key is below.
LEMMA SearchFinds ==
    ASSUME NEW m, NEW h, NEW d, Tree(m, h, d), NEW K, NEW C, NEW r, NEW Z,
           Searchable(m, K, C, r, Z), NEW k \in Keys, NEW f, IsSearch(m, K, k, f),
           NEW v, \A i \in DOMAIN m \ Z : K[i] = k => m[i].value = v,
           NEW from \in DOMAIN m \ Z
    PROVE  f[from] = IF k \in C[from] THEN v ELSE 0
<1> DEFINE D == DOMAIN m \ Z
           Bad == {i \in D : f[i] # IF k \in C[i] THEN v ELSE 0}
<1>1. Bad = {}
  <2>1. SUFFICES ASSUME Bad # {} PROVE FALSE
    OBVIOUS
  <2>2. PICK i \in Bad : \A s \in Sides : m[i][s] # 0 => m[i][s] \notin Bad
    <3>1. Bad \subseteq DOMAIN m
      OBVIOUS
    <3> HIDE DEF Bad
    <3>2. QED
      BY <2>1, <3>1, LowestNode
  <2> DEFINE s == SideOf(k, K[i])
             c == Child(m, K, k, i)
  <2>3. i \in D /\ f[i] = IF k = K[i] THEN m[i].value ELSE IF c = 0 THEN 0 ELSE f[c]
    BY DEF IsSearch
  <2>4. c = m[i][s] /\ s \in Sides
    BY DEF Child, SideOf, Sides
  <2>5. c # 0 => c \in D
    BY <2>3, <2>4, LinksAreInTree DEF Searchable, Tree
  <2>6. K[i] \in Keys
    BY <2>3, KeysAre DEF Tree
  <2>7. C[0] = {} /\ \A x \in Keys : x \in C[i] <=> x = K[i] \/ \E t \in Sides : x \in C[m[i][t]]
    BY <2>3 DEF Searchable, Contents
  <2>8. k # K[i] => (k \in C[i] <=> k \in C[c])
    BY <2>3, <2>4, <2>6, <2>7, OnItsSide
  <2>9. c # 0 => f[c] = IF k \in C[c] THEN v ELSE 0
    BY <2>2, <2>4, <2>5
  <2>10. f[i] # IF k \in C[i] THEN v ELSE 0
    OBVIOUS
  <2> HIDE DEF c, s, Bad
  <2>11. k = K[i] => k \in C[i] /\ f[i] = v
    BY <2>3, <2>7
  <2>12. QED
    BY <2>3, <2>7, <2>8, <2>9, <2>10, <2>11
<1>2. QED
  BY <1>1

-----------------------------------------------------------------------------
(* Prefixes in the order of the keys.                                       *)

LEMMA PrefixSymbols ==
    ASSUME NEW p \in Seq(Nat), NEW x \in Seq(Nat)
    PROVE  IsPrefix(p, x) <=> \A j \in 1..Len(p) : Symbol(p, j) = Symbol(x, j)
<1>1. /\ Len(p) \in Nat /\ Len(x) \in Nat
      /\ \A i \in 1..Len(p) : p[i] \in Nat /\ Symbol(p, i) = p[i] + 1
      /\ \A i \in 1..Len(x) : x[i] \in Nat /\ Symbol(x, i) = x[i] + 1
      /\ \A i \in Nat : i > Len(x) => Symbol(x, i) = 0
  BY SymbolsAre
<1>2. ASSUME IsPrefix(p, x), NEW j \in 1..Len(p) PROVE Symbol(p, j) = Symbol(x, j)
  <2>1. Len(p) <= Len(x) /\ SubSeq(p, 1, Len(p)) = SubSeq(x, 1, Len(p))
    BY <1>2 DEF IsPrefix
  <2>2. p[j] = x[j]
    BY <1>1, <1>2, <2>1, SameStart
  <2>3. j \in 1..Len(x)
    BY <1>1, <1>2, <2>1
  <2>4. QED
    BY <1>1, <1>2, <2>2, <2>3
<1>3. ASSUME \A j \in 1..Len(p) : Symbol(p, j) = Symbol(x, j) PROVE IsPrefix(p, x)
  <2>1. ASSUME NEW j \in 1..Len(p) PROVE j \in 1..Len(x) /\ p[j] = x[j]
    <3>1. Symbol(x, j) = p[j] + 1 /\ p[j] \in Nat /\ j \in Nat
      BY <1>1, <1>3
    <3>2. \A y \in Nat : y + 1 # 0
      OBVIOUS
    <3>3. ~(j > Len(x))
      BY <1>1, <3>1, <3>2
    <3>4. j \in 1..Len(x)
      BY <1>1, <3>3
    <3>5. x[j] \in Nat /\ x[j] + 1 = p[j] + 1
      BY <1>1, <3>1, <3>4
    <3>6. QED
      BY <3>1, <3>4, <3>5
  <2>2. Len(p) <= Len(x)
    <3>1. \A a, b \in Nat : (\A j \in 1..a : j \in 1..b) => a <= b
      <4>1. ASSUME NEW a \in Nat, NEW b \in Nat, \A j \in 1..a : j \in 1..b PROVE a <= b
        <5>1. a = 0 \/ a \in 1..a
          OBVIOUS
        <5>2. a = 0 \/ a \in 1..b
          BY <4>1, <5>1
        <5>3. QED
          BY <5>2
      <4>2. QED
        BY <4>1
    <3>2. QED
      BY <1>1, <2>1, <3>1
  <2>3. SubSeq(p, 1, Len(p)) = SubSeq(x, 1, Len(p))
    BY <1>1, <2>1, <2>2, SameStart
  <2>4. QED
    BY <2>2, <2>3 DEF IsPrefix
<1>4. QED
  BY <1>2, <1>3

\* Below a key that is before or after all keys with the prefix there are such keys on one side.
LEMMA PrefixSides ==
    ASSUME NEW p \in Seq(Nat), NEW x \in Seq(Nat), NEW y \in Seq(Nat), IsPrefix(p, x)
    PROVE  /\ Before(y, p) => ~Less(x, y)
           /\ After(y, p) => ~Less(y, x)
<1>1. ASSUME Before(y, p), Less(x, y) PROVE FALSE
  <2>1. Less(y, p)
    BY <1>1 DEF Before
  <2>2. Less(x, p)
    BY <1>1, <2>1, LessIsTransitive
  <2>3. x # p
    BY <2>2, LessIsIrreflexive
  <2>4. Less(p, x)
    BY <2>3 DEF Less, IsStrictPrefix
  <2>5. Less(p, p)
    BY <2>2, <2>4, LessIsTransitive
  <2>6. QED
    BY <2>5, LessIsIrreflexive
<1>2. ASSUME After(y, p), Less(y, x) PROVE FALSE
  <2>1. /\ Len(p) \in Nat
        /\ \A i \in Nat : Symbol(p, i) \in Nat /\ Symbol(x, i) \in Nat /\ Symbol(y, i) \in Nat
    BY SymbolsAre
  <2>2. PICK i \in Nat \ {0} : DiffersAt(y, x, i)
    BY <1>2, LessDiffers
  <2>3. Symbol(y, i) < Symbol(x, i) /\ \A j \in 1..(i - 1) : Symbol(y, j) = Symbol(x, j)
    BY <2>2 DEF DiffersAt
  <2>4. \A j \in 1..Len(p) : Symbol(p, j) = Symbol(x, j)
    BY PrefixSymbols
  <2>5. CASE i \in 1..Len(p)
    <3>1. \A j \in 1..(i - 1) : j \in 1..Len(p)
      BY <2>1, <2>5
    <3>2. DiffersAt(y, p, i)
      BY <2>3, <2>4, <2>5, <3>1 DEF DiffersAt
    <3>3. Less(y, p)
      BY <2>2, <3>2, LessDiffers
    <3>4. QED
      BY <1>2, <3>3 DEF After
  <2>6. CASE i \notin 1..Len(p)
    <3>1. \A j \in 1..Len(p) : j \in 1..(i - 1)
      BY <2>1, <2>6
    <3>2. \A j \in 1..Len(p) : Symbol(p, j) = Symbol(y, j)
      BY <2>3, <2>4, <3>1
    <3>3. IsPrefix(p, y)
      BY <3>2, PrefixSymbols
    <3>4. QED
      BY <1>2, <3>3 DEF After
  <2>7. QED
    BY <2>5, <2>6
<1>3. QED
  BY <1>1, <1>2

LEMMA EmptyPrefix ==
    ASSUME NEW x \in Seq(Nat)
    PROVE  IsPrefix(<<>>, x)
<1>1. <<>> \in Seq(Nat) /\ Len(<<>>) = 0
  OBVIOUS
<1>2. \A j \in 1..0 : Symbol(<<>>, j) = Symbol(x, j)
  OBVIOUS
<1>3. QED
  BY <1>1, <1>2, PrefixSymbols

-----------------------------------------------------------------------------
(* The order in which an iterator goes: first what is below a node.         *)

\* U has the keys of S that come after those below each node.
Later(m, K, C, S, U, i) ==
    LET up == m[i].parent
    IN  IF up = 0 THEN {}
        ELSE (S \cap ((IF i = m[up].left THEN C[m[up].right] ELSE {}) \cup {K[up]})) \cup U[up]
IsAfter(m, K, C, S, U) == U = [i \in DOMAIN m |-> Later(m, K, C, S, U, i)]

LEMMA AfterExists ==
    ASSUME NEW m, NEW h, NEW d, Tree(m, h, d), NEW K, NEW C, NEW S
    PROVE  \E U \in [DOMAIN m -> SUBSET S] : IsAfter(m, K, C, S, U)
<1> DEFINE D == DOMAIN m
           T == SUBSET S
           F == [f \in [D -> T] |-> [i \in D |-> Later(m, K, C, S, f, i)]]
<1>1. \A i \in D : m[i].parent \in {0} \cup D
  BY NodesAre DEF Tree
<1>2. \A f \in [D -> T], i \in D : Later(m, K, C, S, f, i) \in T
  BY <1>1 DEF Later
<1>3. Makes(D, T, F) /\ \A f \in [D -> T] : F[f] = [i \in D |-> Later(m, K, C, S, f, i)]
  BY <1>2 DEF Makes
<1>4. ASSUME NEW f, NEW g, NEW i, m[i].parent # 0 => f[m[i].parent] = g[m[i].parent]
      PROVE  Later(m, K, C, S, f, i) = Later(m, K, C, S, g, i)
  BY <1>4 DEF Later
<1> HIDE DEF F
<1>5. LooksUp(m, T, F)
  <2>1. \A f, g \in [D -> T], i \in D : /\ F[f][i] = Later(m, K, C, S, f, i)
                                        /\ F[g][i] = Later(m, K, C, S, g, i)
    BY <1>3
  <2>2. QED
    BY <1>4, <2>1 DEF LooksUp
<1>6. {} \in T
  OBVIOUS
<1> HIDE DEF T
<1>7. PICK f \in [D -> T] : F[f] = f
  BY <1>3, <1>5, <1>6, UpRecursion
<1>8. f = [i \in D |-> Later(m, K, C, S, f, i)]
  BY <1>3, <1>7
<1>9. QED
  BY <1>7, <1>8 DEF IsAfter, T

\* The first node with a key in S from a node down, 0 if there is none.
From(g, i) == IF i = 0 THEN 0 ELSE g[i]
FirstOf(m, K, S, g, i) ==
    IF From(g, m[i].left) # 0 THEN From(g, m[i].left)
    ELSE IF From(g, m[i].right) # 0 THEN From(g, m[i].right)
    ELSE IF K[i] \in S THEN i ELSE 0
IsFirst(m, K, S, g) == g = [i \in DOMAIN m |-> FirstOf(m, K, S, g, i)]

LEMMA FirstExists ==
    ASSUME NEW m, NEW h, NEW d, Tree(m, h, d), NEW K, NEW S
    PROVE  \E g \in [DOMAIN m -> {0} \cup DOMAIN m] : IsFirst(m, K, S, g)
<1> DEFINE D == DOMAIN m
           T == {0} \cup DOMAIN m
           F == [f \in [D -> T] |-> [i \in D |-> FirstOf(m, K, S, f, i)]]
<1>1. \A i \in D : m[i].left \in {0} \cup D /\ m[i].right \in {0} \cup D
  BY NodesAre DEF Tree, Sides
<1>2. \A f \in [D -> T], i \in D : FirstOf(m, K, S, f, i) \in T
  BY <1>1 DEF FirstOf, From
<1>3. Makes(D, T, F) /\ \A f \in [D -> T] : F[f] = [i \in D |-> FirstOf(m, K, S, f, i)]
  BY <1>2 DEF Makes
<1>4. ASSUME NEW f, NEW g, NEW i,
             \A side \in Sides : m[i][side] # 0 => f[m[i][side]] = g[m[i][side]]
      PROVE  FirstOf(m, K, S, f, i) = FirstOf(m, K, S, g, i)
  <2>1. From(f, m[i].left) = From(g, m[i].left) /\ From(f, m[i].right) = From(g, m[i].right)
    BY <1>4 DEF From, Sides
  <2>2. QED
    BY <2>1 DEF FirstOf
<1> HIDE DEF F
<1>5. LooksDown(m, T, F)
  <2>1. \A f, g \in [D -> T], i \in D : /\ F[f][i] = FirstOf(m, K, S, f, i)
                                        /\ F[g][i] = FirstOf(m, K, S, g, i)
    BY <1>3
  <2>2. QED
    BY <1>4, <2>1 DEF LooksDown
<1>6. 0 \in T
  OBVIOUS
<1> HIDE DEF T
<1>7. PICK f \in [D -> T] : F[f] = f
  BY <1>3, <1>5, <1>6, DownRecursion
<1>8. f = [i \in D |-> FirstOf(m, K, S, f, i)]
  BY <1>3, <1>7
<1>9. QED
  BY <1>7, <1>8 DEF IsFirst, T

\* What is below the children of a node, one beside the other.
LEMMA BelowChildren ==
    ASSUME NEW m, m \in Seq(Nodes(Len(m))), Linked(m),
           NEW K, NEW C, NEW r, NEW Z, Searchable(m, K, C, r, Z), NEW i \in DOMAIN m \ Z
    PROVE  /\ \A x \in Keys : x \in C[i] <=> x = K[i] \/ x \in C[m[i].left] \/ x \in C[m[i].right]
           /\ \A x \in Keys : x \in C[m[i].left] => x # K[i] /\ x \notin C[m[i].right]
           /\ \A x \in Keys : x \in C[m[i].right] => x # K[i]
           /\ K[i] \in Keys
           /\ m[i].left \in {0} \cup (DOMAIN m \ Z) /\ m[i].right \in {0} \cup (DOMAIN m \ Z)
           /\ m[i].left # 0 => m[m[i].left].parent = i
           /\ m[i].right # 0 => m[m[i].right].parent = i /\ m[i].right # m[i].left
           /\ C[0] = {}
<1>1. K[i] \in Keys
  BY KeysAre
<1>2. /\ \A x \in Keys : x \in C[i] <=> x = K[i] \/ \E s \in Sides : x \in C[m[i][s]]
      /\ \A s \in Sides : \A x \in C[m[i][s]] : OnSide(s, x, K[i])
  BY DEF Searchable, Contents
<1>3. /\ \A x \in Keys : x \in C[i] <=> x = K[i] \/ x \in C[m[i].left] \/ x \in C[m[i].right]
      /\ \A x \in C[m[i].left] : OnSide("left", x, K[i])
      /\ \A x \in C[m[i].right] : OnSide("right", x, K[i])
  BY <1>2 DEF Sides
<1>4. ASSUME NEW x \in Keys
      PROVE  /\ OnSide("left", x, K[i]) => x # K[i] /\ ~OnSide("right", x, K[i])
             /\ OnSide("right", x, K[i]) => x # K[i]
  BY <1>1, SidesOrder DEF Sides, Other
<1>5. Z \subseteq DOMAIN m /\ Spare(m, Z) /\ C[0] = {}
  BY DEF Searchable
<1>6. /\ m[i].left \in {0} \cup (DOMAIN m \ Z) /\ m[i].right \in {0} \cup (DOMAIN m \ Z)
      /\ m[i].left # 0 => m[m[i].left].parent = i
      /\ m[i].right # 0 => m[m[i].right].parent = i /\ m[i].right # m[i].left
  BY <1>5, LinksAreInTree DEF Linked, Sides
<1>7. QED
  BY <1>1, <1>3, <1>4, <1>5, <1>6

\* What comes after a node is not below it.
LEMMA AfterIsElsewhere ==
    ASSUME NEW m, NEW h, NEW d, Tree(m, h, d), NEW K, NEW C, NEW r, NEW Z,
           Searchable(m, K, C, r, Z), NEW S, S \subseteq Keys,
           NEW U, U \in [DOMAIN m -> SUBSET S], IsAfter(m, K, C, S, U),
           NEW i \in DOMAIN m \ Z
    PROVE  \A x \in U[i] : x \notin C[i]
<1> DEFINE Bad == {j \in DOMAIN m \ Z : ~ \A x \in U[j] : x \notin C[j]}
<1>1. Bad = {}
  <2>1. SUFFICES ASSUME Bad # {} PROVE FALSE
    OBVIOUS
  <2>2. PICK j \in Bad : m[j].parent # 0 => m[j].parent \in DOMAIN m /\ m[j].parent \notin Bad
    <3>1. Bad \subseteq DOMAIN m
      OBVIOUS
    <3> HIDE DEF Bad
    <3>2. QED
      BY <2>1, <3>1, HighestNode
  <2>3. j \in DOMAIN m \ Z
    OBVIOUS
  <2>4. U[j] = Later(m, K, C, S, U, j)
    BY <2>3 DEF IsAfter
  <2>5. m[j].parent # 0
    BY <2>4 DEF Later
  <2> DEFINE u == m[j].parent
  <2>6. u \in DOMAIN m \ Z /\ (j = m[u].left \/ j = m[u].right)
    <3>1. u \in DOMAIN m \ Z
      BY <2>3, <2>5, LinksAreInTree DEF Searchable, Tree
    <3>2. \E s \in Sides : m[u][s] = j
      BY <2>3, <2>5 DEF Tree, Linked
    <3>3. QED
      BY <3>1, <3>2 DEF Sides
  <2>7. \A x \in U[u] : x \notin C[u]
    BY <2>2, <2>5, <2>6
  <2>8. U[j] \subseteq Keys /\ U[u] \subseteq Keys
    BY <2>3, <2>6
  <2>9. PICK x \in U[j] : x \in C[j]
    OBVIOUS
  <2>10. U[j] = (S \cap ((IF j = m[u].left THEN C[m[u].right] ELSE {}) \cup {K[u]})) \cup U[u]
    BY <2>4, <2>5 DEF Later
  <2> HIDE DEF u, Bad
  <2>11. /\ x \in C[u] <=> x = K[u] \/ x \in C[m[u].left] \/ x \in C[m[u].right]
         /\ x \in C[m[u].left] => x # K[u] /\ x \notin C[m[u].right]
         /\ x \in C[m[u].right] => x # K[u]
         /\ m[u].right # 0 => m[u].right # m[u].left
         /\ C[0] = {}
    BY <2>6, <2>8, <2>9, BelowChildren DEF Tree
  <2>12. QED
    BY <2>6, <2>7, <2>9, <2>10, <2>11
<1>2. QED
  BY <1>1

\* Node n comes first of those below node i: from it on there are the keys of S below i, and
\* those that come after i.
Leads(m, K, C, S, U, Z, i, n) ==
    /\ n \in DOMAIN m \ Z /\ K[n] \in C[i] /\ K[n] \in S
    /\ \A x \in Keys : x = K[n] \/ x \in U[n] <=> (x \in C[i] /\ x \in S) \/ x \in U[i]

LEMMA FirstFinds ==
    ASSUME NEW m, NEW h, NEW d, Tree(m, h, d), NEW K, NEW C, NEW r, NEW Z,
           Searchable(m, K, C, r, Z), NEW S, S \subseteq Keys,
           NEW U, U \in [DOMAIN m -> SUBSET S], IsAfter(m, K, C, S, U),
           NEW g, IsFirst(m, K, S, g), NEW i \in DOMAIN m \ Z
    PROVE  /\ g[i] = 0 => C[i] \cap S = {}
           /\ g[i] # 0 => Leads(m, K, C, S, U, Z, i, g[i])
<1> DEFINE Good(j) == /\ g[j] = 0 => C[j] \cap S = {}
                      /\ g[j] # 0 => Leads(m, K, C, S, U, Z, j, g[j])
           Bad == {j \in DOMAIN m \ Z : ~Good(j)}
<1>1. ASSUME NEW j \in DOMAIN m \ Z,
             m[j].left # 0 => Good(m[j].left), m[j].right # 0 => Good(m[j].right)
      PROVE  Good(j)
  <2> DEFINE l == m[j].left
             c == m[j].right
  <2>1. g[j] = FirstOf(m, K, S, g, j)
    BY DEF IsFirst
  <2>2. /\ \A x \in Keys : x \in C[j] <=> x = K[j] \/ x \in C[l] \/ x \in C[c]
        /\ K[j] \in Keys
        /\ l \in {0} \cup (DOMAIN m \ Z) /\ c \in {0} \cup (DOMAIN m \ Z)
        /\ l # 0 => m[l].parent = j
        /\ c # 0 => m[c].parent = j /\ c # l
        /\ C[0] = {}
    BY BelowChildren DEF Tree
  <2>3. j # 0 /\ U[j] \subseteq S
    BY NodesAre DEF Tree
  <2>4. \A x \in DOMAIN m : U[x] = Later(m, K, C, S, U, x)
    BY DEF IsAfter
  <2>5. l # 0 => U[l] = (S \cap (C[c] \cup {K[j]})) \cup U[j]
    BY <2>2, <2>3, <2>4 DEF Later
  <2>6. c # 0 => U[c] = (S \cap ({} \cup {K[j]})) \cup U[j]
    BY <2>2, <2>3, <2>4 DEF Later
  <2>7. /\ From(g, l) = 0 => C[l] \cap S = {}
        /\ From(g, l) # 0 => l # 0 /\ Leads(m, K, C, S, U, Z, l, From(g, l))
    BY <1>1, <2>2 DEF From
  <2>8. /\ From(g, c) = 0 => C[c] \cap S = {}
        /\ From(g, c) # 0 => c # 0 /\ Leads(m, K, C, S, U, Z, c, From(g, c))
    BY <1>1, <2>2 DEF From
  <2> HIDE DEF l, c
  <2>9. CASE From(g, l) # 0
    <3>1. g[j] = From(g, l)
      BY <2>1, <2>9 DEF FirstOf, l
    <3>2. Leads(m, K, C, S, U, Z, j, g[j])
      BY <2>2, <2>5, <2>7, <2>9, <3>1 DEF Leads
    <3>3. QED
      BY <2>9, <3>1, <3>2
  <2>10. CASE From(g, l) = 0 /\ From(g, c) # 0
    <3>1. g[j] = From(g, c)
      BY <2>1, <2>10 DEF FirstOf, l, c
    <3>2. Leads(m, K, C, S, U, Z, j, g[j])
      BY <2>2, <2>6, <2>7, <2>8, <2>10, <3>1 DEF Leads
    <3>3. QED
      BY <2>10, <3>1, <3>2
  <2>11. CASE From(g, l) = 0 /\ From(g, c) = 0
    <3>1. g[j] = IF K[j] \in S THEN j ELSE 0
      BY <2>1, <2>11 DEF FirstOf, l, c
    <3>2. \A x \in Keys : x \in C[j] /\ x \in S => x = K[j]
      BY <2>2, <2>7, <2>8, <2>11
    <3>3. K[j] \in C[j]
      BY <2>2
    <3>4. CASE K[j] \in S
      <4>1. Leads(m, K, C, S, U, Z, j, j)
        BY <3>2, <3>3, <3>4 DEF Leads
      <4>2. QED
        BY <2>3, <3>1, <3>4, <4>1
    <3>5. CASE K[j] \notin S
      BY <3>1, <3>2, <3>5
    <3>6. QED
      BY <3>4, <3>5
  <2>12. QED
    BY <2>9, <2>10, <2>11
<1> HIDE DEF Good
<1>2. Bad = {}
  <2>1. SUFFICES ASSUME Bad # {} PROVE FALSE
    OBVIOUS
  <2>2. PICK j \in Bad : \A s \in Sides : m[j][s] # 0 => m[j][s] \notin Bad
    <3>1. Bad \subseteq DOMAIN m
      OBVIOUS
    <3> HIDE DEF Bad
    <3>2. QED
      BY <2>1, <3>1, LowestNode
  <2>3. /\ m[j].left \in {0} \cup (DOMAIN m \ Z) /\ m[j].right \in {0} \cup (DOMAIN m \ Z)
    BY BelowChildren DEF Tree
  <2>4. m[j].left # 0 => m[j].left \notin Bad
    BY <2>2 DEF Sides
  <2>5. m[j].right # 0 => m[j].right \notin Bad
    BY <2>2 DEF Sides
  <2>6. QED
    BY <1>1, <2>3, <2>4, <2>5
<1>3. QED
  BY <1>2 DEF Good

-----------------------------------------------------------------------------
(* Descend.                                                                 *)

\* The keys with a prefix.
Wanted(p) == {x \in Keys : IsPrefix(p, x)}

\* The recursive function of DescendAll.
IsDescent(m, f) ==
    f = [i \in DOMAIN m |-> IF m[i].left # 0 THEN f[m[i].left]
                            ELSE IF m[i].right # 0 THEN f[m[i].right] ELSE i]

LEMMA DescentIsFirst ==
    ASSUME NEW m, NEW h, NEW d, Tree(m, h, d), NEW K, NEW S, \A i \in DOMAIN m : K[i] \in S,
           NEW g \in [DOMAIN m -> {0} \cup DOMAIN m], IsFirst(m, K, S, g), NEW f,
           IsDescent(m, f) \/ f = g
    PROVE  \A i \in DOMAIN m : g[i] # 0 /\ f[i] = g[i]
<1> DEFINE Good(i) == g[i] # 0 /\ f[i] = g[i]
           Bad == {i \in DOMAIN m : ~Good(i)}
<1>1. Bad = {}
  <2>1. SUFFICES ASSUME Bad # {} PROVE FALSE
    OBVIOUS
  <2>2. PICK i \in Bad : \A s \in Sides : m[i][s] # 0 => m[i][s] \in DOMAIN m /\ m[i][s] \notin Bad
    <3>1. Bad \subseteq DOMAIN m
      OBVIOUS
    <3> HIDE DEF Bad
    <3>2. QED
      BY <2>1, <3>1, LowestNode
  <2>3. /\ m[i].left # 0 => Good(m[i].left)
        /\ m[i].right # 0 => Good(m[i].right)
    BY <2>2 DEF Sides
  <2>4. g[i] = FirstOf(m, K, S, g, i) /\ K[i] \in S /\ i # 0
    BY NodesAre DEF IsFirst, Tree
  <2>5. f = g \/ f[i] = IF m[i].left # 0 THEN f[m[i].left]
                        ELSE IF m[i].right # 0 THEN f[m[i].right] ELSE i
    BY DEF IsDescent
  <2>6. g[i] = IF m[i].left # 0 THEN g[m[i].left]
               ELSE IF m[i].right # 0 THEN g[m[i].right] ELSE i
    BY <2>3, <2>4 DEF FirstOf, From
  <2>7. Good(i)
    BY <2>3, <2>4, <2>5, <2>6
  <2>8. QED
    BY <2>7
<1>2. QED
  BY <1>1

LEMMA DescendAllIs ==
    ASSUME NEW h, Tree(mem, h, 0), NEW S, \A i \in DOMAIN mem : keys[i] \in S,
           NEW g \in [DOMAIN mem -> {0} \cup DOMAIN mem], IsFirst(mem, keys, S, g),
           NEW from \in DOMAIN mem
    PROVE  DescendAll(from) = g[from]
<1> DEFINE f == CHOOSE f : IsDescent(mem, f)
<1>1. IsDescent(mem, g)
  <2>1. \A i \in DOMAIN mem : g[i] # 0
    BY DescentIsFirst
  <2>2. \A i \in DOMAIN mem : g[i] = FirstOf(mem, keys, S, g, i)
    BY DEF IsFirst
  <2>3. \A i \in DOMAIN mem : mem[i].left \in {0} \cup DOMAIN mem /\ mem[i].right \in {0} \cup DOMAIN mem
    BY NodesAre DEF Tree, Sides
  <2>4. \A i \in DOMAIN mem : g[i] = IF mem[i].left # 0 THEN g[mem[i].left]
                                     ELSE IF mem[i].right # 0 THEN g[mem[i].right] ELSE i
    BY <2>1, <2>2, <2>3 DEF FirstOf, From
  <2>5. QED
    BY <2>4 DEF IsDescent
<1>2. IsDescent(mem, f)
  BY <1>1
<1>3. DescendAll(from) = f[from]
  BY DEF DescendAll, IsDescent
<1> HIDE DEF f
<1>4. QED
  BY <1>2, <1>3, DescentIsFirst

\* The recursive function of DescendPrefix, and one round of it.
At(i, x, r) == [at |-> i, found |-> x, right |-> r]
Onward(p, i) ==
    IF Before(keys[i], p) THEN mem[i].right
    ELSE IF After(keys[i], p) \/ mem[i].left # 0 THEN mem[i].left ELSE mem[i].right
Retry(p, i, r) == IF ~IsPrefix(p, keys[i]) THEN r ELSE IF mem[i].left # 0 THEN mem[i].right ELSE 0
Best(p, i, x) == IF IsPrefix(p, keys[i]) THEN i ELSE x
Round(f, p, i, x, r) ==
    IF Onward(p, i) # 0 THEN f[At(Onward(p, i), Best(p, i, x), Retry(p, i, r))]
    ELSE IF Retry(p, i, r) # 0 THEN f[At(Retry(p, i, r), Best(p, i, x), 0)]
    ELSE Best(p, i, x)
IsLoop(p, f) == f = [s \in Loop |-> Round(f, p, s.at, s.found, s.right)]

\* What it computes: the first match below the node, else below the right subtree that is
\* to be tried, else the last match.
Match(g, i, x, r) == IF g[i] # 0 THEN g[i] ELSE IF From(g, r) # 0 THEN From(g, r) ELSE x

\* Nothing with the prefix is on the side which a loop does not go to.
LEMMA NoneBeside ==
    ASSUME NEW h, Tree(mem, h, 0), NEW C, NEW r, NEW Z, Searchable(mem, keys, C, r, Z),
           NEW p \in Seq(Nat), NEW i \in DOMAIN mem \ Z, NEW x \in Wanted(p)
    PROVE  /\ Before(keys[i], p) => x \notin C[mem[i].left]
           /\ After(keys[i], p) => x \notin C[mem[i].right]
<1>1. /\ keys[i] \in Seq(Nat) /\ x \in Seq(Nat) /\ IsPrefix(p, x)
  BY KeysAre, KeysAssumption DEF Tree, Wanted
<1>2. \A s \in Sides : x \in C[mem[i][s]] => OnSide(s, x, keys[i])
  BY DEF Searchable, Contents
<1>3. /\ x \in C[mem[i].left] => Less(x, keys[i])
      /\ x \in C[mem[i].right] => Less(keys[i], x)
  BY <1>2 DEF Sides, OnSide
<1>4. QED
  BY <1>1, <1>3, PrefixSides

LEMMA NoMatchBeside ==
    ASSUME NEW h, Tree(mem, h, 0), NEW C, NEW r, NEW Z, Searchable(mem, keys, C, r, Z),
           NEW p \in Seq(Nat), NEW g, IsFirst(mem, keys, Wanted(p), g), NEW i \in DOMAIN mem
    PROVE  /\ Before(keys[i], p) => From(g, mem[i].left) = 0
           /\ After(keys[i], p) => From(g, mem[i].right) = 0
<1>1. CASE i \in Z
  BY <1>1 DEF Searchable, Spare, From, Sides
<1>2. CASE i \notin Z
  <2>1. PICK U \in [DOMAIN mem -> SUBSET Wanted(p)] : IsAfter(mem, keys, C, Wanted(p), U)
    BY AfterExists
  <2>2. Wanted(p) \subseteq Keys
    BY DEF Wanted
  <2>3. ASSUME NEW s \in Sides, From(g, mem[i][s]) # 0
        PROVE  \E x \in Wanted(p) : x \in C[mem[i][s]]
    <3> DEFINE c == mem[i][s]
    <3>1. c # 0 /\ g[c] # 0
      BY <2>3 DEF From
    <3>2. c \in DOMAIN mem \ Z
      BY <1>2, <3>1, LinksAreInTree DEF Searchable, Tree
    <3> HIDE DEF c
    <3>3. Leads(mem, keys, C, Wanted(p), U, Z, c, g[c])
      BY <2>1, <2>2, <3>1, <3>2, FirstFinds
    <3>4. QED
      BY <3>3 DEF Leads, c
  <2>4. /\ From(g, mem[i].left) # 0 => \E x \in Wanted(p) : x \in C[mem[i].left]
        /\ From(g, mem[i].right) # 0 => \E x \in Wanted(p) : x \in C[mem[i].right]
    BY <2>3 DEF Sides
  <2>5. QED
    BY <1>2, <2>4, NoneBeside
<1>3. QED
  BY <1>1, <1>2

\* f is right from node i on, with the right subtree r to be tried.
Right(f, g, i, r) == \A x \in 0..Len(mem) : f[At(i, x, r)] = Match(g, i, x, r)

LEMMA RoundIs ==
    ASSUME NEW h, Tree(mem, h, 0), NEW C, NEW root0, NEW Z, Searchable(mem, keys, C, root0, Z),
           NEW p \in Seq(Nat), NEW g, IsFirst(mem, keys, Wanted(p), g), NEW i \in DOMAIN mem,
           NEW x \in 0..Len(mem), NEW r \in 0..Len(mem), NEW f,
           \A c \in {mem[i].left, mem[i].right} \ {0}, q \in {0, r, mem[i].right} : Right(f, g, c, q),
           r # 0 => Right(f, g, r, 0)
    PROVE  Round(f, p, i, x, r) = Match(g, i, x, r)
<1> DEFINE lf == mem[i].left
           rt == mem[i].right
<1>1. /\ From(g, 0) = 0 /\ i # 0 /\ i \in 0..Len(mem)
      /\ lf \in 0..Len(mem) /\ rt \in 0..Len(mem)
  <2>1. /\ DOMAIN mem = 1..Len(mem) /\ Len(mem) \in Nat /\ 0..Len(mem) = {0} \cup DOMAIN mem
        /\ lf \in {0} \cup DOMAIN mem /\ rt \in {0} \cup DOMAIN mem
    BY NodesAre DEF Tree, Sides
  <2>2. QED
    BY <2>1 DEF From
<1>2. g[i] = FirstOf(mem, keys, Wanted(p), g, i) /\ keys[i] \in Keys
  BY KeysAre DEF IsFirst, Tree
<1>3. /\ Before(keys[i], p) => From(g, lf) = 0
      /\ After(keys[i], p) => From(g, rt) = 0
  BY NoMatchBeside
<1>4. /\ lf # 0 => \A q \in {0, r, rt} : Right(f, g, lf, q)
      /\ rt # 0 => \A q \in {0, r, rt} : Right(f, g, rt, q)
  OBVIOUS
<1>5. \A c : c # 0 => From(g, c) = g[c]
  BY DEF From
<1> HIDE DEF lf, rt
<1>6. CASE IsPrefix(p, keys[i])
  <2>1. Best(p, i, x) = i /\ Retry(p, i, r) = IF lf # 0 THEN rt ELSE 0
    BY <1>6 DEF Best, Retry, lf, rt
  <2>2. Onward(p, i) = IF lf # 0 THEN lf ELSE rt
    BY <1>6 DEF Onward, Before, After, lf, rt
  <2>3. keys[i] \in Wanted(p)
    BY <1>2, <1>6 DEF Wanted
  <2>4. g[i] = IF From(g, lf) # 0 THEN From(g, lf) ELSE IF From(g, rt) # 0 THEN From(g, rt) ELSE i
    BY <1>2, <2>3 DEF FirstOf, lf, rt
  <2>5. Match(g, i, x, r) = g[i]
    BY <1>1, <2>4 DEF Match
  <2>6. CASE lf # 0
    <3>1. Round(f, p, i, x, r) = f[At(lf, i, rt)]
      BY <2>1, <2>2, <2>6 DEF Round
    <3>2. Round(f, p, i, x, r) = Match(g, lf, i, rt)
      BY <1>1, <1>4, <2>6, <3>1 DEF Right
    <3>3. QED
      BY <1>5, <2>4, <2>5, <2>6, <3>2 DEF Match
  <2>7. CASE lf = 0 /\ rt # 0
    <3>1. Round(f, p, i, x, r) = f[At(rt, i, 0)]
      BY <2>1, <2>2, <2>7 DEF Round
    <3>2. Round(f, p, i, x, r) = Match(g, rt, i, 0)
      BY <1>1, <1>4, <2>7, <3>1 DEF Right
    <3>3. QED
      BY <1>1, <1>5, <2>4, <2>5, <2>7, <3>2 DEF Match
  <2>8. CASE lf = 0 /\ rt = 0
    <3>1. Round(f, p, i, x, r) = i
      BY <2>1, <2>2, <2>8 DEF Round
    <3>2. QED
      BY <1>1, <2>4, <2>5, <2>8, <3>1
  <2>9. QED
    BY <2>6, <2>7, <2>8
<1>7. CASE ~IsPrefix(p, keys[i])
  <2> DEFINE next == Onward(p, i)
  <2>1. Best(p, i, x) = x /\ Retry(p, i, r) = r
    BY <1>7 DEF Best, Retry
  <2>2. (next = rt /\ From(g, lf) = 0) \/ (next = lf /\ From(g, rt) = 0)
    <3>1. Before(keys[i], p) \/ After(keys[i], p)
      BY <1>7 DEF Before, After
    <3>2. CASE Before(keys[i], p)
      BY <1>3, <3>2 DEF Onward, rt
    <3>3. CASE ~Before(keys[i], p)
      BY <1>3, <3>1, <3>3 DEF Onward, lf
    <3>4. QED
      BY <3>2, <3>3
  <2>3. keys[i] \notin Wanted(p)
    BY <1>7 DEF Wanted
  <2>4. g[i] = From(g, next)
    BY <1>1, <1>2, <2>2, <2>3 DEF FirstOf, lf, rt
  <2>5. Round(f, p, i, x, r) = IF next # 0 THEN f[At(next, x, r)]
                               ELSE IF r # 0 THEN f[At(r, x, 0)] ELSE x
    BY <2>1 DEF Round
  <2> HIDE DEF next
  <2>6. CASE next # 0
    <3>1. f[At(next, x, r)] = Match(g, next, x, r)
      BY <1>4, <2>2, <2>6 DEF Right
    <3>2. QED
      BY <1>5, <2>4, <2>5, <2>6, <3>1 DEF Match
  <2>7. CASE next = 0 /\ r # 0
    <3>1. f[At(r, x, 0)] = Match(g, r, x, 0)
      BY <2>7 DEF Right
    <3>2. QED
      BY <1>1, <1>5, <2>4, <2>5, <2>7, <3>1 DEF Match
  <2>8. CASE next = 0 /\ r = 0
    BY <1>1, <2>4, <2>5, <2>8 DEF Match
  <2>9. QED
    BY <2>6, <2>7, <2>8
<1>8. QED
  BY <1>6, <1>7

LEMMA DescendPrefixIs ==
    ASSUME NEW h, Tree(mem, h, 0), NEW C, NEW root0, NEW Z, Searchable(mem, keys, C, root0, Z),
           NEW p \in Seq(Nat), NEW g, IsFirst(mem, keys, Wanted(p), g),
           g \in [DOMAIN mem -> {0} \cup DOMAIN mem],
           NEW from \in DOMAIN mem, NEW default \in 0..Len(mem)
    PROVE  DescendPrefix(from, default, p) = IF g[from] # 0 THEN g[from] ELSE default
<1> DEFINE f == CHOOSE f : IsLoop(p, f)
           G == [s \in Loop |-> Match(g, s.at, s.found, s.right)]
           L == 0..Len(mem)
<1>1. /\ 0 \in L /\ \A i \in DOMAIN mem : i # 0 /\ i \in L
      /\ \A i \in DOMAIN mem : mem[i].left \in {0} \cup DOMAIN mem /\ mem[i].right \in {0} \cup DOMAIN mem
      /\ L = {0} \cup DOMAIN mem
  BY NodesAre DEF Tree, Sides
<1>2. \A s \in Loop : s.at \in DOMAIN mem /\ s.found \in L /\ s.right \in L
  BY DEF Loop
<1>3. \A i \in DOMAIN mem, x \in L, r \in L :
         /\ At(i, x, r) \in Loop
         /\ At(i, x, r).at = i /\ At(i, x, r).found = x /\ At(i, x, r).right = r
  BY DEF Loop, At
<1>4. \A i \in DOMAIN mem, r \in L : Right(G, g, i, r)
  <2>1. \A i \in DOMAIN mem, x \in L, r \in L : G[At(i, x, r)] = Match(g, i, x, r)
    BY <1>3
  <2>2. QED
    BY <2>1 DEF Right
<1>5. IsLoop(p, G)
  <2>1. \A s \in Loop : G[s] = Match(g, s.at, s.found, s.right)
    OBVIOUS
  <2> HIDE DEF G
  <2>2. ASSUME NEW s \in Loop PROVE Round(G, p, s.at, s.found, s.right) = G[s]
    <3> DEFINE i == s.at
               x == s.found
               r == s.right
    <3>1. i \in DOMAIN mem /\ x \in L /\ r \in L
      BY <1>2
    <3> HIDE DEF i, x, r
    <3>2. \A c \in {mem[i].left, mem[i].right} \ {0}, q \in {0, r, mem[i].right} : Right(G, g, c, q)
      BY <1>1, <1>4, <3>1
    <3>3. r # 0 => Right(G, g, r, 0)
      BY <1>1, <1>4, <3>1
    <3>4. Round(G, p, i, x, r) = Match(g, i, x, r)
      BY <3>1, <3>2, <3>3, RoundIs
    <3>5. QED
      BY <2>1, <3>4 DEF i, x, r
  <2>3. G = [s \in Loop |-> G[s]]
    BY DEF G
  <2>4. QED
    BY <2>2, <2>3 DEF IsLoop
<1>6. IsLoop(p, f)
  BY <1>5
<1>7. DescendPrefix(from, default, p) = f[At(from, default, 0)]
  BY DEF DescendPrefix, IsLoop, Round, Onward, Retry, Best, At
<1> HIDE DEF f, G
<1>8. \A i \in DOMAIN mem, x \in L, r \in L : f[At(i, x, r)] = Round(f, p, i, x, r)
  <2>1. f = [s \in Loop |-> Round(f, p, s.at, s.found, s.right)]
    BY <1>6 DEF IsLoop
  <2>2. \A s \in Loop : f[s] = Round(f, p, s.at, s.found, s.right)
    BY <2>1
  <2>3. QED
    BY <1>3, <2>2
\* The right subtree to be tried is one that the loop gets right without another to be tried.
<1> DEFINE Sure(r) == r = 0 \/ Right(f, g, r, 0)
           Bad == {i \in DOMAIN mem : \E r \in L : Sure(r) /\ ~Right(f, g, i, r)}
<1>9. Bad = {}
  <2>1. SUFFICES ASSUME Bad # {} PROVE FALSE
    OBVIOUS
  <2>2. PICK i \in Bad : \A s \in Sides : mem[i][s] # 0 => mem[i][s] \in DOMAIN mem /\ mem[i][s] \notin Bad
    <3>1. Bad \subseteq DOMAIN mem
      OBVIOUS
    <3> HIDE DEF Bad
    <3>2. QED
      BY <2>1, <3>1, LowestNode
  <2>3. PICK r \in L : Sure(r) /\ ~Right(f, g, i, r)
    OBVIOUS
  <2>4. PICK x \in L : f[At(i, x, r)] # Match(g, i, x, r)
    BY <2>3 DEF Right
  <2>5. i \in DOMAIN mem
    OBVIOUS
  <2>6. ASSUME NEW c \in {mem[i].left, mem[i].right} \ {0}, NEW q \in L, Sure(q)
        PROVE  Right(f, g, c, q)
    <3>1. c \in DOMAIN mem /\ c \notin Bad
      BY <2>2 DEF Sides
    <3>2. QED
      BY <2>6, <3>1
  <2>7. Sure(0) /\ Sure(r) /\ Sure(mem[i].right)
    BY <1>1, <2>3, <2>6
  <2>8. \A c \in {mem[i].left, mem[i].right} \ {0}, q \in {0, r, mem[i].right} : Right(f, g, c, q)
    BY <1>1, <2>5, <2>6, <2>7
  <2>9. r # 0 => Right(f, g, r, 0)
    BY <2>3
  <2>10. Round(f, p, i, x, r) = Match(g, i, x, r)
    <3> HIDE DEF Sure, Bad
    <3>1. QED
      BY <2>5, <2>8, <2>9, RoundIs
  <2>11. QED
    BY <1>8, <2>4, <2>5, <2>10
<1>10. Right(f, g, from, 0)
  BY <1>1, <1>9
<1>11. f[At(from, default, 0)] = Match(g, from, default, 0)
  BY <1>10 DEF Right
<1>12. QED
  BY <1>7, <1>11 DEF Match, From

LEMMA DescendIs ==
    ASSUME NEW h, Tree(mem, h, 0), NEW C, NEW root0, NEW Z, Searchable(mem, keys, C, root0, Z),
           NEW p \in Seq(Nat), NEW g, IsFirst(mem, keys, Wanted(p), g),
           g \in [DOMAIN mem -> {0} \cup DOMAIN mem],
           NEW from \in DOMAIN mem, NEW default \in 0..Len(mem)
    PROVE  /\ DescendPrefix(from, default, p) = IF g[from] # 0 THEN g[from] ELSE default
           /\ p = <<>> => g[from] # 0 /\ DescendAll(from) = g[from]
<1>1. ASSUME p = <<>> PROVE g[from] # 0 /\ DescendAll(from) = g[from]
  <2>1. \A i \in DOMAIN mem : keys[i] \in Wanted(p)
    BY <1>1, KeysAre, KeysAssumption, EmptyPrefix DEF Wanted, Tree
  <2>2. g[from] # 0
    BY <2>1, DescentIsFirst
  <2>3. QED
    BY <2>1, <2>2, DescendAllIs
<1>2. QED
  BY <1>1, DescendPrefixIs

-----------------------------------------------------------------------------
(* GetAll and Next.                                                         *)

\* The recursive function of Topmost.
Turn(p, i) == mem[i][IF Before(keys[i], p) THEN "right" ELSE "left"]
IsTop(p, f) ==
    f = [i \in DOMAIN mem |-> IF IsPrefix(p, keys[i]) THEN i
                              ELSE IF Turn(p, i) = 0 THEN 0 ELSE f[Turn(p, i)]]

LEMMA TopExists ==
    ASSUME NEW h, Tree(mem, h, 0), NEW p
    PROVE  \E f : IsTop(p, f)
<1> DEFINE D == DOMAIN mem
           S == {0} \cup DOMAIN mem
           Value(f, i) == IF IsPrefix(p, keys[i]) THEN i
                          ELSE IF Turn(p, i) = 0 THEN 0 ELSE f[Turn(p, i)]
           F == [f \in [D -> S] |-> [i \in D |-> Value(f, i)]]
<1>1. \A i \in D : /\ Turn(p, i) \in {0} \cup D
                   /\ \E side \in Sides : Turn(p, i) = mem[i][side]
  BY NodesAre DEF Tree, Turn, Sides
<1>2. \A f \in [D -> S], i \in D : Value(f, i) \in S
  BY <1>1
<1>3. ASSUME NEW f, NEW g, NEW i \in D,
             \A side \in Sides : mem[i][side] # 0 => f[mem[i][side]] = g[mem[i][side]]
      PROVE  Value(f, i) = Value(g, i)
  BY <1>1, <1>3
<1>4. 0 \in S
  OBVIOUS
<1> HIDE DEF Value, D, S
<1>5. Makes(D, S, F) /\ \A f \in [D -> S] : F[f] = [i \in D |-> Value(f, i)]
  BY <1>2 DEF Makes
<1> HIDE DEF F
<1>6. LooksDown(mem, S, F)
  <2>1. \A f, g \in [D -> S], i \in D : F[f][i] = Value(f, i) /\ F[g][i] = Value(g, i)
    BY <1>5
  <2>2. QED
    BY <1>3, <2>1 DEF LooksDown, D
<1>7. PICK f \in [D -> S] : F[f] = f
  BY <1>4, <1>5, <1>6, DownRecursion DEF D
<1>8. f = [i \in D |-> Value(f, i)]
  BY <1>5, <1>7
<1>9. QED
  BY <1>8 DEF IsTop, D, Value

\* It is above all keys with the prefix.
Covers(C, Z, p, i, n) ==
    /\ n = 0 => \A x \in Wanted(p) : x \notin C[i]
    /\ n # 0 => /\ n \in DOMAIN mem \ Z /\ IsPrefix(p, keys[n])
                /\ \A x \in Wanted(p) : x \in C[i] => x \in C[n]

LEMMA TopmostIs ==
    ASSUME NEW h, Tree(mem, h, 0), NEW C, NEW r, NEW Z, Searchable(mem, keys, C, r, Z),
           NEW p \in Seq(Nat), RootOffset \in DOMAIN mem \ Z
    PROVE  Covers(C, Z, p, RootOffset, Topmost(p))
<1> DEFINE f == CHOOSE f : IsTop(p, f)
<1>1. IsTop(p, f)
  BY TopExists
<1>2. Topmost(p) = f[RootOffset]
  BY DEF Topmost, IsTop, Turn
<1> HIDE DEF f
<1> DEFINE Bad == {i \in DOMAIN mem \ Z : ~Covers(C, Z, p, i, f[i])}
<1>3. ASSUME NEW i \in DOMAIN mem \ Z,
             Turn(p, i) # 0 => Covers(C, Z, p, Turn(p, i), f[Turn(p, i)])
      PROVE  Covers(C, Z, p, i, f[i])
  <2>1. f[i] = IF IsPrefix(p, keys[i]) THEN i ELSE IF Turn(p, i) = 0 THEN 0 ELSE f[Turn(p, i)]
    BY <1>1 DEF IsTop
  <2>2. i # 0 /\ C[0] = {}
    BY NodesAre DEF Tree, Searchable
  <2>3. CASE IsPrefix(p, keys[i])
    BY <2>1, <2>2, <2>3 DEF Covers
  <2>4. CASE ~IsPrefix(p, keys[i])
    <3>1. ASSUME NEW x \in Wanted(p), x \in C[i] PROVE x \in C[Turn(p, i)]
      <4>1. x \in Keys /\ x # keys[i]
        BY <2>4 DEF Wanted
      <4>2. x \in C[mem[i].left] \/ x \in C[mem[i].right]
        BY <3>1, <4>1, BelowChildren DEF Tree
      <4>3. /\ Before(keys[i], p) => x \notin C[mem[i].left]
            /\ After(keys[i], p) => x \notin C[mem[i].right]
        BY NoneBeside
      <4>4. Before(keys[i], p) \/ After(keys[i], p)
        BY <2>4 DEF Before, After
      <4>5. QED
        BY <4>2, <4>3, <4>4 DEF Turn
    <3>2. CASE Turn(p, i) = 0
      BY <2>1, <2>2, <2>4, <3>1, <3>2 DEF Covers
    <3>3. CASE Turn(p, i) # 0
      BY <1>3, <2>1, <2>4, <3>1, <3>3 DEF Covers
    <3>4. QED
      BY <3>2, <3>3
  <2>5. QED
    BY <2>3, <2>4
<1>4. Bad = {}
  <2>1. SUFFICES ASSUME Bad # {} PROVE FALSE
    OBVIOUS
  <2>2. PICK i \in Bad : \A s \in Sides : mem[i][s] # 0 => mem[i][s] \notin Bad
    <3>1. Bad \subseteq DOMAIN mem
      OBVIOUS
    <3> HIDE DEF Bad
    <3>2. QED
      BY <2>1, <3>1, LowestNode
  <2>3. i \in DOMAIN mem \ Z /\ ~Covers(C, Z, p, i, f[i])
    OBVIOUS
  <2>4. /\ mem[i].left \in {0} \cup (DOMAIN mem \ Z) /\ mem[i].right \in {0} \cup (DOMAIN mem \ Z)
    BY <2>3, BelowChildren DEF Tree
  <2>5. Turn(p, i) = mem[i].left \/ Turn(p, i) = mem[i].right
    BY DEF Turn
  <2>6. Turn(p, i) # 0 => Turn(p, i) \in DOMAIN mem \ Z /\ Turn(p, i) \notin Bad
    BY <2>2, <2>4, <2>5 DEF Sides
  <2>7. QED
    BY <1>3, <2>3, <2>6
<1>5. QED
  BY <1>2, <1>4

\* The recursive function of NextFrom.
Reached(at) ==
    LET up == mem[at].parent
    IN  IF at = mem[up].left /\ mem[up].right # 0 THEN Descend(mem[up].right, up) ELSE up
Stepped(f, at) ==
    LET up == mem[at].parent
    IN  IF up = 0 THEN 0
        ELSE IF prefix = <<>> \/ Reached(at) # up \/ IsPrefix(prefix, keys[up]) THEN Reached(at)
        ELSE IF Reached(at) = top /\ mem[up].parent # 0 THEN Reached(at) ELSE f[up]
IsStep(f) == f = [at \in DOMAIN mem |-> Stepped(f, at)]

LEMMA ReachedIs ==
    ASSUME NEW h, Tree(mem, h, 0), NEW C, NEW r, NEW Z, Searchable(mem, keys, C, r, Z),
           prefix \in Seq(Nat), NEW g, IsFirst(mem, keys, Wanted(prefix), g),
           g \in [DOMAIN mem -> {0} \cup DOMAIN mem],
           NEW at \in DOMAIN mem, mem[at].parent # 0
    PROVE  Reached(at) = LET up == mem[at].parent
                             c == mem[up].right
                         IN  IF at = mem[up].left /\ From(g, c) # 0 THEN g[c] ELSE up
<1> DEFINE up == mem[at].parent
           c == mem[up].right
<1>1. up \in DOMAIN mem /\ up \in 0..Len(mem) /\ c \in {0} \cup DOMAIN mem
  <2>1. 0..Len(mem) = {0} \cup DOMAIN mem /\ up \in DOMAIN mem
    BY NodesAre DEF Tree
  <2>2. QED
    BY <2>1, NodesAre DEF Tree, Sides
<1>2. c # 0 => Descend(c, up) = IF g[c] # 0 THEN g[c] ELSE up
  BY <1>1, DescendIs DEF Descend
<1>3. Reached(at) = IF at = mem[up].left /\ c # 0 THEN Descend(c, up) ELSE up
  BY DEF Reached
<1> HIDE DEF up, c
<1>4. Reached(at) = IF at = mem[up].left /\ From(g, c) # 0 THEN g[c] ELSE up
  BY <1>2, <1>3 DEF From
<1>5. QED
  BY <1>4 DEF up, c

LEMMA StepExists ==
    ASSUME NEW h, Tree(mem, h, 0), NEW C, NEW r, NEW Z, Searchable(mem, keys, C, r, Z),
           prefix \in Seq(Nat), NEW g, IsFirst(mem, keys, Wanted(prefix), g),
           g \in [DOMAIN mem -> {0} \cup DOMAIN mem]
    PROVE  \E f : IsStep(f)
<1> DEFINE D == DOMAIN mem
           S == {0} \cup DOMAIN mem
           F == [f \in [D -> S] |-> [i \in D |-> Stepped(f, i)]]
<1>1. \A i \in D : mem[i].parent \in S /\ mem[i].right \in S
  BY NodesAre DEF Tree, Sides
<1>2. \A i \in D : mem[i].parent # 0 => Reached(i) \in S
  BY <1>1, ReachedIs DEF From
<1>3. \A f \in [D -> S], i \in D : Stepped(f, i) \in S
  BY <1>1, <1>2 DEF Stepped
<1>4. ASSUME NEW f, NEW q, NEW i, mem[i].parent # 0 => f[mem[i].parent] = q[mem[i].parent]
      PROVE  Stepped(f, i) = Stepped(q, i)
  BY <1>4 DEF Stepped
<1>5. 0 \in S
  OBVIOUS
<1> HIDE DEF S
<1>6. Makes(D, S, F) /\ \A f \in [D -> S] : F[f] = [i \in D |-> Stepped(f, i)]
  BY <1>3 DEF Makes
<1> HIDE DEF F
<1>7. LooksUp(mem, S, F)
  <2>1. \A f, q \in [D -> S], i \in D : F[f][i] = Stepped(f, i) /\ F[q][i] = Stepped(q, i)
    BY <1>6
  <2>2. QED
    BY <1>4, <2>1 DEF LooksUp
<1>8. PICK f \in [D -> S] : F[f] = f
  BY <1>5, <1>6, <1>7, UpRecursion
<1>9. QED
  BY <1>6, <1>8 DEF IsStep

\* Node n has the first key after those below node i; 0 if there is none.
Follows(S, U, Z, i, n) ==
    /\ n = 0 => U[i] = {}
    /\ n # 0 => /\ n \in DOMAIN mem \ Z /\ keys[n] \in S
                /\ \A x \in Keys : x = keys[n] \/ x \in U[n] <=> x \in U[i]

LEMMA NextIs ==
    ASSUME NEW h, Tree(mem, h, 0), NEW C, NEW r, NEW Z, Searchable(mem, keys, C, r, Z),
           prefix \in Seq(Nat), top \in DOMAIN mem, keys[top] \in Wanted(prefix),
           NEW U, U \in [DOMAIN mem -> SUBSET Wanted(prefix)],
           IsAfter(mem, keys, C, Wanted(prefix), U), NEW from \in DOMAIN mem \ Z
    PROVE  Follows(Wanted(prefix), U, Z, from, NextFrom(from))
<1> DEFINE S == Wanted(prefix)
           f == CHOOSE f : IsStep(f)
<1>1. PICK g \in [DOMAIN mem -> {0} \cup DOMAIN mem] : IsFirst(mem, keys, S, g)
  BY FirstExists
<1>2. IsStep(f)
  BY <1>1, StepExists
<1>3. NextFrom(from) = f[from]
  BY DEF NextFrom, IsStep, Stepped, Reached
<1> HIDE DEF f
<1>4. S \subseteq Keys /\ \A x \in Keys : x \in S <=> IsPrefix(prefix, x)
  BY DEF Wanted
<1>5. ASSUME NEW i \in DOMAIN mem \ Z, NEW up, up = mem[i].parent,
             up # 0 => Follows(S, U, Z, up, f[up])
      PROVE  Follows(S, U, Z, i, f[i])
  <2>1. f[i] = Stepped(f, i) /\ U[i] = Later(mem, keys, C, S, U, i)
    BY <1>2 DEF IsStep, IsAfter
  <2>2. CASE up = 0
    BY <1>5, <2>1, <2>2 DEF Stepped, Later, Follows
  <2>3. CASE up # 0
    <3> DEFINE c == mem[up].right
               lf == mem[up].left
               to == Reached(i)
    <3>1. up \in DOMAIN mem \ Z
      BY <1>5, <2>3, LinksAreInTree DEF Searchable, Tree
    <3>2. /\ \A x \in Keys : x \in C[c] => x # keys[up]
          /\ keys[up] \in Keys
          /\ c \in {0} \cup (DOMAIN mem \ Z)
          /\ c # 0 => mem[c].parent = up /\ c # lf
          /\ C[0] = {}
      BY <3>1, BelowChildren DEF Tree
    <3>3. to = IF i = lf /\ From(g, c) # 0 THEN g[c] ELSE up
      BY <1>1, <1>5, <2>3, ReachedIs
    <3>4. /\ From(g, c) = 0 => C[c] \cap S = {}
          /\ From(g, c) # 0 => c # 0 /\ From(g, c) = g[c] /\ Leads(mem, keys, C, S, U, Z, c, g[c])
      <4>1. CASE c = 0
        BY <3>2, <4>1 DEF From
      <4>2. CASE c # 0
        BY <1>1, <1>4, <3>2, <4>2, FirstFinds DEF From
      <4>3. QED
        BY <4>1, <4>2
    <3>5. U[i] = (S \cap ((IF i = lf THEN C[c] ELSE {}) \cup {keys[up]})) \cup U[up]
      BY <1>5, <2>1, <2>3 DEF Later
    <3>6. c # 0 => U[c] = Later(mem, keys, C, S, U, c)
      BY <3>2 DEF IsAfter
    <3>7. c # 0 => U[c] = (S \cap ({} \cup {keys[up]})) \cup U[up]
      BY <2>3, <3>2, <3>6 DEF Later
    <3>8. f[i] = IF prefix = <<>> \/ to # up \/ IsPrefix(prefix, keys[up]) THEN to
                 ELSE IF to = top /\ mem[up].parent # 0 THEN to ELSE f[up]
      BY <1>5, <2>1, <2>3 DEF Stepped
    <3>9. U[up] \subseteq Keys /\ U[i] \subseteq Keys
      BY <1>4, <3>1
    <3> HIDE DEF c, lf, to
    <3>10. CASE i = lf /\ From(g, c) # 0
      <4>1. to = g[c] /\ Leads(mem, keys, C, S, U, Z, c, g[c]) /\ c # 0
        BY <3>3, <3>4, <3>10
      <4>2. /\ to \in DOMAIN mem \ Z /\ keys[to] \in C[c] /\ keys[to] \in S
            /\ \A x \in Keys : x = keys[to] \/ x \in U[to] <=> (x \in C[c] /\ x \in S) \/ x \in U[c]
        BY <4>1 DEF Leads
      <4>3. to # up
        BY <1>4, <3>2, <4>2
      <4>4. f[i] = to /\ to # 0
        <5>1. 0 \notin DOMAIN mem
          BY NodesAre DEF Tree
        <5>2. QED
          BY <3>8, <4>2, <4>3, <5>1
      <4>5. \A x \in Keys : (x \in C[c] /\ x \in S) \/ x \in U[c] <=> x \in U[i]
        BY <3>5, <3>7, <3>10, <4>1
      <4>6. QED
        BY <4>2, <4>4, <4>5 DEF Follows
    <3>11. CASE ~(i = lf /\ From(g, c) # 0)
      <4>1. to = up
        BY <3>3, <3>11
      <4>2. U[i] = (S \cap {keys[up]}) \cup U[up]
        BY <3>4, <3>5, <3>11
      <4>3. CASE IsPrefix(prefix, keys[up])
        <5>1. f[i] = up
          BY <3>8, <4>1, <4>3
        <5>2. QED
          BY <1>4, <2>3, <3>1, <3>2, <4>2, <4>3, <5>1 DEF Follows
      <4>4. CASE ~IsPrefix(prefix, keys[up])
        <5>1. keys[up] \notin S /\ up # top
          BY <1>4, <3>2, <4>4
        <5>2. prefix # <<>>
          BY <3>2, <4>4, KeysAssumption, EmptyPrefix
        <5>3. f[i] = f[up] /\ U[i] = U[up]
          BY <3>8, <4>1, <4>2, <4>4, <5>1, <5>2
        <5>4. QED
          BY <1>5, <2>3, <5>3 DEF Follows
      <4>5. QED
        BY <4>3, <4>4
    <3>12. QED
      BY <3>10, <3>11
  <2>4. QED
    BY <2>2, <2>3
<1> HIDE DEF S
<1> DEFINE Bad == {i \in DOMAIN mem \ Z : ~Follows(S, U, Z, i, f[i])}
<1>6. Bad = {}
  <2>1. SUFFICES ASSUME Bad # {} PROVE FALSE
    OBVIOUS
  <2>2. PICK i \in Bad : mem[i].parent # 0 => mem[i].parent \in DOMAIN mem /\ mem[i].parent \notin Bad
    <3>1. Bad \subseteq DOMAIN mem
      OBVIOUS
    <3> HIDE DEF Bad
    <3>2. QED
      BY <2>1, <3>1, HighestNode
  <2>3. i \in DOMAIN mem \ Z /\ ~Follows(S, U, Z, i, f[i])
    OBVIOUS
  <2>4. mem[i].parent # 0 => mem[i].parent \in DOMAIN mem \ Z
    BY <2>3, LinksAreInTree DEF Searchable, Tree
  <2>5. QED
    BY <1>5, <2>2, <2>3, <2>4
<1>7. QED
  BY <1>3, <1>6 DEF S

-----------------------------------------------------------------------------
(* What an iterator has returned.                                           *)

Entries == [key : Keys, value : Nat]
Found == DOMAIN latest \cap Wanted(prefix)
Remaining(U) == IF current = 0 THEN {} ELSE {keys[current]} \cup U[current]

Returned(ys, found) ==
    /\ ys \in Seq(Entries)
    /\ ToSet(ys) = {[key |-> k, value |-> latest[k]] : k \in found}
    /\ IsFiniteSet(found) /\ Cardinality(found) = Len(ys)

Iterates(C, r, Z, U) ==
    /\ Stored(C, r, Z) /\ prefix \in IterPrefixes
    /\ U \in [DOMAIN mem -> SUBSET Wanted(prefix)]
    /\ IsAfter(mem, keys, C, Wanted(prefix), U)
    /\ current # 0 =>
          /\ current \in DOMAIN mem \ Z /\ keys[current] \in Wanted(prefix)
          /\ top \in DOMAIN mem \ Z /\ keys[top] \in Wanted(prefix)
          /\ Found \subseteq C[top]
    /\ Returned(yielded, Found \ Remaining(U))

\* An iterator has returned what does not come after the node where it is.
IterInv == pc = "iterating" => mem # <<>> /\ \E C, r, Z, U : Iterates(C, r, Z, U)

\* One more key is returned.
LEMMA ReturnedOnce ==
    ASSUME NEW ys, NEW found, Returned(ys, found), NEW k \in Keys, k \notin found,
           latest[k] \in Nat, NEW found2, found2 = found \cup {k}
    PROVE  Returned(Append(ys, [key |-> k, value |-> latest[k]]), found2)
<1> DEFINE e == [key |-> k, value |-> latest[k]]
           ys2 == Append(ys, e)
<1>1. e \in Entries
  BY DEF Entries
<1>2. ys \in Seq(Entries) /\ Len(ys) \in Nat /\ DOMAIN ys = 1..Len(ys)
  BY LenProperties DEF Returned
<1> HIDE DEF e
<1>3. /\ ys2 \in Seq(Entries) /\ Len(ys2) = Len(ys) + 1
      /\ \A i \in 1..Len(ys) : ys2[i] = ys[i]
      /\ ys2[Len(ys) + 1] = e
  BY <1>1, <1>2, AppendProperties
<1>4. DOMAIN ys2 = 1..(Len(ys) + 1)
  BY <1>3, LenProperties
<1> HIDE DEF ys2
<1>5. ToSet(ys2) = ToSet(ys) \cup {e}
  <2>1. \A n \in Nat : 1..(n + 1) = (1..n) \cup {n + 1}
    OBVIOUS
  <2>2. DOMAIN ys2 = DOMAIN ys \cup {Len(ys) + 1}
    BY <1>2, <1>4, <2>1
  <2>3. QED
    BY <1>2, <1>3, <2>2 DEF ToSet
<1>6. ToSet(ys2) = {[key |-> x, value |-> latest[x]] : x \in found2}
  <2>1. ToSet(ys) = {[key |-> x, value |-> latest[x]] : x \in found}
    BY DEF Returned
  <2>2. QED
    BY <1>5, <2>1 DEF e
<1>7. IsFiniteSet(found2) /\ Cardinality(found2) = Cardinality(found) + 1
  BY FS_AddElement DEF Returned
<1>8. Cardinality(found) = Len(ys)
  BY DEF Returned
<1>9. QED
  BY <1>3, <1>6, <1>7, <1>8 DEF Returned, ys2, e

\* Where the iterator is in the tree.
LEMMA StoredFacts ==
    ASSUME TreeInv, pc \in {"ready", "iterating"}, mem # <<>>, NEW C, NEW r, NEW Z, Stored(C, r, Z)
    PROVE  /\ \E h : Tree(mem, h, 0)
           /\ Searchable(mem, keys, C, r, Z)
           /\ RootOffset = r /\ r \in DOMAIN mem \ Z
           /\ C[r] = DOMAIN latest /\ C[r] \subseteq Keys
           /\ \A i \in DOMAIN mem \ Z :
                 /\ keys[i] \in Keys /\ keys[i] \in C[i] /\ keys[i] \in DOMAIN latest
                 /\ mem[i].value = latest[keys[i]] /\ mem[i].value \in Nat
<1>1. Whole = mem /\ NewKeys = {}
  BY DEF Whole, NewKeys
<1>2. PICK h : Tree(mem, h, 0)
  BY DEF TreeInv, Whole, Exception
<1>3. Searchable(mem, keys, C, r, Z)
  BY <1>1 DEF Stored
<1>4. C[r] = DOMAIN latest /\ \A i \in DOMAIN mem \ Z : mem[i].value = latest[keys[i]]
  BY <1>1 DEF Stored
<1>5. RootOffset \in DOMAIN mem \ Z /\ mem[RootOffset].parent = 0
  BY DEF TreeInv, Stored
<1>6. RootOffset = r
  BY <1>3, <1>5 DEF Searchable, OneRoot
<1>7. C[r] \subseteq Keys
  <2>1. C \in [0..Len(mem) -> SUBSET Keys]
    BY <1>3 DEF Searchable
  <2>2. r \in 0..Len(mem)
    BY <1>2, <1>5, <1>6, NodesAre DEF Tree
  <2>3. QED
    BY <2>1, <2>2
<1>8. ASSUME NEW i \in DOMAIN mem \ Z
      PROVE  keys[i] \in Keys /\ keys[i] \in C[i] /\ keys[i] \in C[r] /\ mem[i].value \in Nat
  <2>1. keys[i] \in Keys
    BY <1>2, <1>3, KeysAre DEF Tree
  <2>2. keys[i] \in C[i]
    BY <1>3, <2>1 DEF Searchable, Contents
  <2>3. keys[i] \in C[r]
    BY <1>3 DEF Searchable
  <2>4. mem[i] \in Nodes(Len(mem)) /\ Len(mem) \in Nat
    BY <1>2, NodesAre DEF Tree
  <2>5. mem[i].value \in Nat
    BY <2>4 DEF Nodes
  <2>6. QED
    BY <2>1, <2>2, <2>3, <2>5
<1>9. QED
  BY <1>2, <1>3, <1>4, <1>5, <1>6, <1>7, <1>8

LEMMA GetAllStep ==
    ASSUME TreeInv, DataInv, NEW p \in IterPrefixes, GetAll(p)
    PROVE  IterInv'
<1>1. /\ pc = "ready" /\ pc' = "iterating" /\ mem # <<>>
      /\ UNCHANGED <<mem, keys, latest, RootOffset>>
      /\ prefix' = p /\ yielded' = <<>>
      /\ top' = IF p = <<>> THEN RootOffset ELSE Topmost(p)
      /\ current' = IF top' = 0 THEN 0
                    ELSE IF p = <<>> THEN DescendAll(top') ELSE DescendPrefix(top', top', p)
  BY DEF GetAll
<1>2. PICK C, r, Z : Stored(C, r, Z)
  BY <1>1 DEF DataInv
<1>3. PICK h : Tree(mem, h, 0)
  BY <1>1, <1>2, StoredFacts
<1>4. /\ Searchable(mem, keys, C, r, Z)
      /\ RootOffset = r /\ r \in DOMAIN mem \ Z
      /\ C[r] = DOMAIN latest /\ C[r] \subseteq Keys
      /\ \A i \in DOMAIN mem \ Z : keys[i] \in Keys
  BY <1>1, <1>2, StoredFacts
<1>5. p \in Seq(Nat)
  BY KeysAssumption
<1> DEFINE S == Wanted(p)
           t == top'
           c == current'
<1>6. S \subseteq Keys /\ \A x \in Keys : x \in S <=> IsPrefix(p, x)
  BY DEF Wanted
<1>7. PICK U \in [DOMAIN mem -> SUBSET S] : IsAfter(mem, keys, C, S, U)
  BY <1>3, AfterExists
<1>8. PICK g \in [DOMAIN mem -> {0} \cup DOMAIN mem] : IsFirst(mem, keys, S, g)
  BY <1>3, FirstExists
<1>9. Covers(C, Z, p, r, t)
  <2>1. CASE p = <<>>
    <3>1. t = r /\ r # 0
      BY <1>1, <1>3, <1>4, <2>1, NodesAre DEF Tree
    <3>2. IsPrefix(p, keys[r])
      BY <1>4, <2>1, KeysAssumption, EmptyPrefix
    <3>3. QED
      BY <1>4, <3>1, <3>2 DEF Covers
  <2>2. CASE p # <<>>
    BY <1>1, <1>3, <1>4, <1>5, <2>2, TopmostIs
  <2>3. QED
    BY <2>1, <2>2
<1>10. Found' = C[r] \cap S
  BY <1>1, <1>4 DEF Found
<1>11. t = 0 => c = 0 /\ Found' = {}
  BY <1>1, <1>9, <1>10 DEF Covers
<1>12. ASSUME t # 0
       PROVE  /\ t \in DOMAIN mem \ Z /\ keys[t] \in S /\ Found' \subseteq C[t]
              /\ c # 0 /\ Leads(mem, keys, C, S, U, Z, t, c)
  <2>1. t \in DOMAIN mem \ Z /\ keys[t] \in S /\ Found' \subseteq C[t]
    BY <1>4, <1>6, <1>9, <1>10, <1>12 DEF Covers
  <2>2. t \in 0..Len(mem) /\ 0 \notin DOMAIN mem
    BY <1>3, <2>1, NodesAre DEF Tree
  <2>3. c = IF p = <<>> THEN DescendAll(t) ELSE DescendPrefix(t, t, p)
    BY <1>1, <1>12
  <2> HIDE DEF t, c
  <2>4. keys[t] \in C[t]
    BY <1>1, <1>2, <2>1, StoredFacts
  <2>5. g[t] # 0 /\ Leads(mem, keys, C, S, U, Z, t, g[t])
    BY <1>3, <1>4, <1>6, <1>7, <1>8, <2>1, <2>4, FirstFinds
  <2>6. c = g[t]
    BY <1>3, <1>4, <1>5, <1>8, <2>1, <2>2, <2>3, <2>5, DescendIs
  <2>7. QED
    BY <2>1, <2>5, <2>6
<1> HIDE DEF t, c
<1>13. Found' \ Remaining(U)' = {}
  <2>1. Remaining(U)' = IF c = 0 THEN {} ELSE {keys[c]} \cup U[c]
    BY <1>1 DEF Remaining, c
  <2>2. CASE t = 0
    BY <1>11, <2>2
  <2>3. CASE t # 0
    BY <1>6, <1>10, <1>12, <2>1, <2>3 DEF Leads
  <2>4. QED
    BY <2>2, <2>3
<1>14. Returned(yielded, Found \ Remaining(U))'
  <2>1. PICK ys, found : ys = yielded' /\ found = (Found \ Remaining(U))'
    OBVIOUS
  <2>2. ys = <<>> /\ found = {}
    BY <1>1, <1>13, <2>1
  <2>3. <<>> \in Seq(Entries) /\ Len(<<>>) = 0 /\ ToSet(<<>>) = {}
    BY DEF ToSet
  <2>4. IsFiniteSet({}) /\ Cardinality({}) = 0
    BY FS_EmptySet
  <2>5. Returned(ys, found)'
    BY <2>2, <2>3, <2>4 DEF Returned
  <2>6. QED
    BY <2>1, <2>5
<1>15. Stored(C, r, Z)'
  <2>1. Whole' = Whole /\ NewKeys' = NewKeys
    BY <1>1 DEF Whole, NewKeys
  <2>2. QED
    BY <1>1, <1>2, <2>1 DEF Stored
<1>16. c # 0 => c \in DOMAIN mem \ Z /\ keys[c] \in S /\ t # 0
  BY <1>11, <1>12 DEF Leads
<1>17. Iterates(C, r, Z, U)'
  BY <1>1, <1>7, <1>12, <1>14, <1>15, <1>16 DEF Iterates, t, c
<1>18. QED
  BY <1>1, <1>17 DEF IterInv

LEMMA Next1Step ==
    ASSUME TreeInv, DataInv, IterInv, Next1
    PROVE  IterInv'
<1>1. /\ pc = "iterating" /\ pc' = "iterating" /\ current # 0
      /\ UNCHANGED <<mem, keys, latest, RootOffset, prefix, top>>
      /\ yielded' = Append(yielded, [key |-> keys[current], value |-> mem[current].value])
      /\ current' = IF current = top THEN 0 ELSE NextFrom(current)
  BY DEF Next1
<1>2. mem # <<>>
  BY <1>1 DEF IterInv
<1>3. PICK C, r, Z, U : Iterates(C, r, Z, U)
  BY <1>1 DEF IterInv
<1>4. /\ Stored(C, r, Z) /\ prefix \in IterPrefixes
      /\ U \in [DOMAIN mem -> SUBSET Wanted(prefix)]
      /\ IsAfter(mem, keys, C, Wanted(prefix), U)
      /\ current \in DOMAIN mem \ Z /\ keys[current] \in Wanted(prefix)
      /\ top \in DOMAIN mem \ Z /\ keys[top] \in Wanted(prefix)
      /\ Found \subseteq C[top]
      /\ Returned(yielded, Found \ Remaining(U))
  BY <1>1, <1>3 DEF Iterates
<1>5. PICK h : Tree(mem, h, 0)
  BY <1>1, <1>2, <1>4, StoredFacts
<1>6. /\ Searchable(mem, keys, C, r, Z)
      /\ C[r] = DOMAIN latest
      /\ \A i \in DOMAIN mem \ Z : /\ keys[i] \in Keys /\ keys[i] \in C[i] /\ keys[i] \in DOMAIN latest
                                   /\ mem[i].value = latest[keys[i]] /\ mem[i].value \in Nat
  BY <1>1, <1>2, <1>4, StoredFacts
<1> DEFINE S == Wanted(prefix)
           k == keys[current]
           c == current'
<1>7. prefix \in Seq(Nat) /\ S \subseteq Keys /\ Found \subseteq S
  BY <1>4, KeysAssumption DEF Wanted, Found
<1>8. /\ \A x \in U[current] : x \notin C[current]
      /\ \A x \in U[top] : x \notin C[top]
  BY <1>4, <1>5, <1>6, <1>7, AfterIsElsewhere
<1>9. k \in Keys /\ k \in Found /\ k \notin U[current]
  BY <1>4, <1>6, <1>8 DEF Found
\* What remains is what comes after the node that is returned.
<1>10. /\ c # 0 => c \in DOMAIN mem \ Z /\ keys[c] \in S
       /\ \A x \in Found : x \in Remaining(U)' <=> x \in U[current]
  <2>1. Remaining(U)' = IF c = 0 THEN {} ELSE {keys[c]} \cup U[c]
    BY <1>1 DEF Remaining
  <2>2. CASE current = top
    <3>1. c = 0
      BY <1>1, <2>2
    <3>2. \A x \in Found : x \notin U[current]
      BY <1>4, <1>8, <2>2
    <3>3. QED
      BY <2>1, <3>1, <3>2
  <2>3. CASE current # top
    <3>1. c = NextFrom(current)
      BY <1>1, <2>3
    <3>2. Follows(S, U, Z, current, NextFrom(current))
      BY <1>4, <1>5, <1>6, <1>7, NextIs
    <3> HIDE DEF c, S
    <3>3. CASE c = 0
      BY <2>1, <3>1, <3>2, <3>3 DEF Follows
    <3>4. CASE c # 0
      BY <1>7, <2>1, <3>1, <3>2, <3>4 DEF Follows
    <3>5. QED
      BY <3>3, <3>4
  <2>4. QED
    BY <2>2, <2>3
<1>11. Remaining(U) = {k} \cup U[current]
  BY <1>1 DEF Remaining
<1> HIDE DEF k, c
<1>12. PICK rest : rest = Remaining(U)'
  OBVIOUS
<1>13. Found \ rest = (Found \ Remaining(U)) \cup {k} /\ k \notin Found \ Remaining(U)
  BY <1>9, <1>10, <1>11, <1>12
<1>14. mem[current].value = latest[k] /\ latest[k] \in Nat
  BY <1>4, <1>6 DEF k
<1>15. Returned(Append(yielded, [key |-> k, value |-> latest[k]]), Found \ rest)
  BY <1>4, <1>9, <1>13, <1>14, ReturnedOnce
<1>16. Returned(yielded', Found \ rest)
  BY <1>1, <1>14, <1>15 DEF k
<1>17. Found' = Found
  BY <1>1 DEF Found
<1>18. Returned(yielded, Found \ Remaining(U))'
  <2>1. PICK ys, found : ys = yielded' /\ found = Found \ rest
    OBVIOUS
  <2>2. Returned(ys, found)
    BY <1>16, <2>1
  <2>3. Returned(ys, found)'
    BY <1>1, <2>2 DEF Returned
  <2>4. ys = yielded' /\ found = (Found \ Remaining(U))'
    BY <1>12, <1>17, <2>1
  <2>5. QED
    BY <2>3, <2>4
<1>19. Stored(C, r, Z)'
  <2>1. Whole' = Whole /\ NewKeys' = NewKeys
    BY <1>1 DEF Whole, NewKeys
  <2>2. QED
    BY <1>1, <1>4, <2>1 DEF Stored
<1>20. Iterates(C, r, Z, U)'
  BY <1>1, <1>4, <1>10, <1>17, <1>18, <1>19 DEF Iterates, c
<1>21. QED
  BY <1>1, <1>2, <1>20 DEF IterInv

LEMMA IterIsInductive ==
    ASSUME TreeInv, DataInv, IterInv, [Next]_vars
    PROVE  IterInv'
<1>1. CASE \E k \in Keys, withValue \in BOOLEAN : Insert(k, withValue)
  <2>1. pc' \in {"ready", "place"}
    BY <1>1 DEF Insert, Return
  <2>2. QED
    BY <2>1 DEF IterInv
<1>2. CASE Place \/ Placed \/ Recolour \/ RotateInner \/ RotateOuter \/ FindNewRoot
  <2>1. pc' # "iterating"
    BY <1>2 DEF Place, Placed, Recolour, RotateInner, RotateOuter, FindNewRoot, Return, locals
  <2>2. QED
    BY <2>1 DEF IterInv
<1>3. CASE Reopen \/ IteratorEnds
  BY <1>3 DEF Reopen, IteratorEnds, IterInv
<1>4. CASE \E p \in IterPrefixes : GetAll(p)
  BY <1>4, GetAllStep
<1>5. CASE Next1
  BY <1>5, Next1Step
<1>6. CASE UNCHANGED vars
  <2>1. UNCHANGED <<mem, keys, latest, RootOffset, pc, dataOffset, rootOffset, root, node, prefix, top, current, yielded>>
    BY <1>6 DEF vars, locals, iterator
  <2>2. Whole' = Whole /\ NewKeys' = NewKeys /\ Found' = Found
    BY <2>1 DEF Whole, NewKeys, Found
  <2>3. ASSUME NEW C, NEW r, NEW Z, NEW U, Iterates(C, r, Z, U) PROVE Iterates(C, r, Z, U)'
    <3>1. Stored(C, r, Z)'
      BY <2>1, <2>2, <2>3 DEF Stored, Iterates
    <3>2. Returned(yielded, Found \ Remaining(U))'
      BY <2>1, <2>2, <2>3 DEF Returned, Iterates, Remaining
    <3>3. QED
      BY <2>1, <2>2, <2>3, <3>1, <3>2 DEF Iterates
  <2>4. QED
    BY <2>1, <2>3 DEF IterInv
<1>7. QED
  BY <1>1, <1>2, <1>3, <1>4, <1>5, <1>6 DEF Next

-----------------------------------------------------------------------------
(* The theorems.                                                            *)

\* In every step of an insertion the region, with the copy of the parent put back, is a
\* tree in which all links agree and all ways down have as many black nodes, and where only
\* the node being fixed may be red under a red one.
THEOREM TreeIsInvariant == Spec => []TreeInv
<1>1. Init => TreeInv
  BY InitTree
<1>2. TreeInv /\ [Next]_vars => TreeInv'
  BY TreeIsInductive
<1>3. QED
  BY <1>1, <1>2, PTL DEF Spec

\* IsRedBlackTree: for any keys, and any number of insertions in any order, the region holds
\* a red-black tree between two insertions, whatever local copies were written back.
THEOREM TreeIsRedBlack == Spec => []IsRedBlackTree
<1>1. TreeInv => IsRedBlackTree
  <2>1. SUFFICES ASSUME TreeInv, pc = "ready", mem # <<>> PROVE IsRedBlackTree
    BY DEF IsRedBlackTree
  <2>2. PICK h : Tree(mem, h, 0)
    BY <2>1 DEF TreeInv, Whole, Exception
  <2>3. /\ mem \in Seq(Nodes(Len(mem))) /\ 0 \notin DOMAIN mem
        /\ \A i \in DOMAIN mem : mem[i].parent \in {0} \cup DOMAIN mem
    BY <2>2, NodesAre DEF Tree
  <2>4. RootOffset \in DOMAIN mem /\ mem[RootOffset].parent = 0
    BY <2>1 DEF TreeInv
  <2>5. ~mem[RootOffset].red
    BY <2>2, <2>4 DEF Tree, Coloured
  <2>6. ASSUME NEW i \in DOMAIN mem
        PROVE  /\ \A c \in {mem[i].left, mem[i].right} \ {0} : mem[c].parent = i
               /\ mem[i].red => ~mem[mem[i].parent].red
    <3>1. \A side \in Sides : mem[i][side] # 0 => mem[mem[i][side]].parent = i
      BY <2>2 DEF Tree, Linked
    <3>2. /\ mem[i].left # 0 => mem[mem[i].left].parent = i
          /\ mem[i].right # 0 => mem[mem[i].right].parent = i
      BY <3>1 DEF Sides
    <3>3. mem[i].red => ~mem[mem[i].parent].red
      BY <2>2, <2>3 DEF Tree, Coloured
    <3>4. QED
      BY <3>2, <3>3
  <2>7. BlackHeight # 0
    BY <2>2, <2>4, BlackHeightIs
  <2>8. mem \in Seq([parent : 0..Len(mem), left : 0..Len(mem), right : 0..Len(mem),
                     value : 0..Len(mem), red : BOOLEAN])
    BY <2>3 DEF Nodes
  <2>9. QED
    BY <2>4, <2>5, <2>6, <2>7, <2>8 DEF IsRedBlackTree
<1>2. QED
  BY <1>1, TreeIsInvariant, PTL

\* In every step of an insertion the tree holds the keys that were stored, each node the value
\* last stored for its key, and the keys below a node are on the side of it where a lookup goes.
THEOREM DataIsInvariant == Spec => []DataInv
<1>1. Init => DataInv
  BY InitData
<1>2. TreeInv /\ DataInv /\ [Next]_vars => DataInv'
  BY DataIsInductive
<1>3. QED
  BY <1>1, <1>2, TreeIsInvariant, PTL DEF Spec

\* GetFindsLatest: for any keys and any number of insertions in any order, between two insertions
\* a lookup finds what was last stored for its key, also after the tree was opened again.
THEOREM LookupsFindLatest == Spec => []GetFindsLatest
<1>1. TreeInv /\ DataInv => GetFindsLatest
  <2>1. SUFFICES ASSUME TreeInv, DataInv, pc = "ready", mem # <<>>, NEW k \in Keys
                 PROVE  Get(k) = IF k \in DOMAIN latest THEN latest[k] ELSE 0
    BY DEF GetFindsLatest
  <2>2. Whole = mem /\ NewKeys = {}
    BY <2>1 DEF Whole, NewKeys
  <2>3. PICK h : Tree(mem, h, 0)
    BY <2>1 DEF TreeInv, Whole, Exception
  <2>4. PICK C, r, Z : Stored(C, r, Z)
    BY <2>1 DEF DataInv
  <2>5. Searchable(mem, keys, C, r, Z)
    BY <2>2, <2>4 DEF Stored
  <2>6. C[r] = DOMAIN latest /\ \A i \in DOMAIN mem \ Z : mem[i].value = latest[keys[i]]
    BY <2>2, <2>4 DEF Stored
  <2>7. RootOffset \in DOMAIN mem \ Z /\ mem[RootOffset].parent = 0
    BY <2>1, <2>4 DEF TreeInv, Stored
  <2>8. RootOffset = r
    BY <2>5, <2>7 DEF Searchable, OneRoot
  <2> DEFINE f == CHOOSE f : IsSearch(mem, keys, k, f)
  <2>9. IsSearch(mem, keys, k, f)
    BY <2>3, SearchExists
  <2>10. Get(k) = f[RootOffset]
    BY DEF Get, IsSearch, Child
  <2> HIDE DEF f
  <2>11. \A i \in DOMAIN mem \ Z : keys[i] = k => mem[i].value = latest[k]
    BY <2>6
  <2>12. f[RootOffset] = IF k \in C[RootOffset] THEN latest[k] ELSE 0
    BY <2>3, <2>5, <2>7, <2>9, <2>11, SearchFinds
  <2>13. QED
    BY <2>6, <2>8, <2>10, <2>12
<1>2. QED
  BY <1>1, TreeIsInvariant, DataIsInvariant, PTL

\* An iterator stands on a node with the prefix; what it has returned is what comes before that
\* node in post-order, each key with the prefix once, with its value.
THEOREM IteratorIsInvariant == Spec => []IterInv
<1>1. Init => IterInv
  BY DEF Init, IterInv
<1>2. TreeInv /\ DataInv /\ IterInv /\ [Next]_vars => IterInv'
  BY IterIsInductive
<1>3. QED
  BY <1>1, <1>2, TreeIsInvariant, DataIsInvariant, PTL DEF Spec

\* IterationIsComplete: for any tree and any prefix, an iterator that has reached its end has
\* returned every key with the prefix once, with its value, and no other.
THEOREM IteratorIsComplete == Spec => []IterationIsComplete
<1>1. TreeInv /\ IterInv => IterationIsComplete
  <2>1. SUFFICES ASSUME TreeInv, IterInv, pc = "iterating", current = 0
                 PROVE  LET matching == {k \in DOMAIN latest : IsPrefix(prefix, k)}
                        IN  /\ ToSet(yielded) = {[key |-> k, value |-> latest[k]] : k \in matching}
                            /\ Len(yielded) = Cardinality(matching)
    BY DEF IterationIsComplete
  <2>2. mem # <<>> /\ \E C, r, Z, U : Iterates(C, r, Z, U)
    BY <2>1 DEF IterInv
  <2>3. PICK C, r, Z, U : Iterates(C, r, Z, U)
    BY <2>2
  <2>4. DOMAIN latest \subseteq Keys
    BY <2>1, <2>2, <2>3, StoredFacts DEF Iterates
  <2>5. {k \in DOMAIN latest : IsPrefix(prefix, k)} = Found \ Remaining(U)
    BY <2>1, <2>4 DEF Found, Remaining, Wanted
  <2>6. Returned(yielded, Found \ Remaining(U))
    BY <2>3 DEF Iterates
  <2>7. QED
    BY <2>5, <2>6 DEF Returned
<1>2. QED
  BY <1>1, TreeIsInvariant, IteratorIsInvariant, PTL
=============================================================================
