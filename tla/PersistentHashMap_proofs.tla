------------------------- MODULE PersistentHashMap_proofs -------------------------
(***************************************************************************)
(* Proofs about PersistentHashMap, for every set of keys, hash function,   *)
(* length of records, and number of insertions, crashes and openings.      *)
(***************************************************************************)
EXTENDS PersistentHashMap, SequenceTheorems, WellFoundedInduction, TLAPS

(***************************************************************************)
(* The inductive invariant.                                                *)
(***************************************************************************)

Buckets == 0..(BucketCount - 1)

\* A record lies within the file, and its chain goes on to records before it with the same
\* bucket: chains end.  Links lead to records of their bucket.
WellFormed(f) ==
    /\ f = [head |-> f.head, records |-> f.records, size |-> f.size]
    /\ f.size \in Nat
    /\ f.head \in [Buckets -> Nat]
    /\ DOMAIN f.records \subseteq 1..f.size
    /\ \A o \in DOMAIN f.records :
          /\ f.records[o].key \in Keys /\ f.records[o].value \in Values
          /\ o + f.records[o].value <= f.size + 1
          /\ f.records[o].prev # 0 =>
                /\ f.records[o].prev \in DOMAIN f.records /\ f.records[o].prev < o
                /\ Bucket[f.records[f.records[o].prev].key] = Bucket[f.records[o].key]
    /\ \A b \in Buckets :
          f.head[b] # 0 =>
             f.head[b] \in DOMAIN f.records /\ Bucket[f.records[f.head[b]].key] = b

FilesInv ==
    /\ file = [n \in Names |-> file[n]]
    /\ \A n \in Names : WellFormed(file[n])

\* DataPos is behind the last record, or, between the two writes of an insertion, at the
\* record that the bucket is about to be linked to.
HandleInv ==
    /\ File \in Names \cup {"none"} /\ exists \subseteq Names /\ DataPos \in Nat
    /\ File = "none" => pc = "ready"
    /\ File # "none" => File \in exists /\ mapped \in 0..file[File].size
    /\ File # "none" /\ pc # "link" => DataPos = file[File].size + 1
    /\ pc \in {"append", "link"} =>
          key \in Keys /\ value \in Values /\ prev = file[File].head[Bucket[key]]
    /\ pc = "link" =>
          /\ DataPos + value = file[File].size + 1 /\ DataPos \in DOMAIN file[File].records
          /\ file[File].records[DataPos] = [key |-> key, value |-> value, prev |-> prev]

-----------------------------------------------------------------------------
(* Walking along a chain.                                                   *)

LEMMA LessIsWellFounded ==
    \E R : IsWellFoundedOn(R, Nat) /\ \A x, y \in Nat : x < y => <<x, y>> \in R
<1> DEFINE R == OpToRel(<, Nat)
<1>1. IsWellFoundedOn(R, Nat)
  BY NatLessThanWellFounded
<1>2. \A x, y \in Nat : x < y => <<x, y>> \in R
  BY DEF OpToRel
<1> HIDE DEF R
<1>3. QED
  BY <1>1, <1>2

LEMMA LeastNatural ==
    ASSUME NEW S, S \subseteq Nat, S # {}
    PROVE  \E m \in S : \A x \in S : m <= x
<1>1. PICK R : IsWellFoundedOn(R, Nat) /\ \A x, y \in Nat : x < y => <<x, y>> \in R
  BY LessIsWellFounded
<1>2. PICK m \in S : \A y \in S : ~ (<<y, m>> \in R)
  <2>1. IsWellFoundedOn(R, Nat)
    BY <1>1
  <2>2. \E x \in S : \A y \in S : ~ (<<y, x>> \in R)
    BY <2>1, WFMin
  <2>3. QED
    BY <2>2
<1>3. \A x \in S : ~ (x < m)
  BY <1>1, <1>2
<1>4. QED
  BY <1>3

\* What Chain visits from offset o on, given what it visits from each lower offset.
Visit(f, k, g, o) ==
    IF o \notin DOMAIN f.records THEN <<o>>
    ELSE IF f.records[o].key = k \/ f.records[o].prev = 0 THEN <<o>>
    ELSE <<o>> \o g[f.records[o].prev]

Walk(f, k, n, g) == g = [o \in 0..n |-> Visit(f, k, g, o)]

\* The recursion of Chain is defined: a chain goes downwards.
LEMMA WalkExists ==
    ASSUME NEW f, WellFormed(f), NEW k
    PROVE  \E g : Walk(f, k, f.size, g)
<1> DEFINE Bad == {n \in 0..f.size : ~ \E g : Walk(f, k, n, g)}
<1>1. SUFFICES ASSUME Bad # {} PROVE FALSE
  BY DEF WellFormed
<1>2. PICK m \in Bad : \A n \in Bad : m <= n
  <2>1. Bad \subseteq Nat
    BY DEF WellFormed
  <2>2. QED
    BY <1>1, <2>1, LeastNatural
<1>3. m \in Nat /\ m <= f.size /\ f.size \in Nat /\ ~ \E g : Walk(f, k, m, g)
  BY <1>2 DEF WellFormed
<1>4. PICK g : m # 0 => Walk(f, k, m - 1, g)
  <2>1. m # 0 => m - 1 \notin Bad /\ m - 1 \in 0..f.size
    BY <1>2, <1>3
  <2>2. QED
    BY <2>1
<1> DEFINE h == [o \in 0..m |-> IF o < m THEN g[o] ELSE Visit(f, k, g, m)]
<1>5. ASSUME NEW o \in 0..m
      PROVE  h[o] = Visit(f, k, h, o)
  <2>1. Visit(f, k, h, o) = Visit(f, k, g, o)
    <3>1. ASSUME o \in DOMAIN f.records, f.records[o].prev # 0
          PROVE  h[f.records[o].prev] = g[f.records[o].prev]
      <4>1. f.records[o].prev \in Nat /\ f.records[o].prev < o
        BY <3>1, <1>3 DEF WellFormed
      <4>2. f.records[o].prev \in 0..m /\ f.records[o].prev < m
        BY <1>3, <4>1
      <4>3. QED
        BY <4>2
    <3>2. QED
      BY <3>1 DEF Visit
  <2>2. CASE o = m
    BY <1>3, <2>1, <2>2
  <2>3. CASE o # m
    <3>1. o \in 0..(m - 1) /\ o < m /\ m # 0
      BY <1>3, <2>3
    <3>2. g[o] = Visit(f, k, g, o)
      BY <1>4, <3>1 DEF Walk
    <3>3. QED
      BY <2>1, <3>1, <3>2
  <2>4. QED
    BY <2>2, <2>3
<1>6. Walk(f, k, m, h)
  <2>1. h = [o \in 0..m |-> h[o]]
    OBVIOUS
  <2> HIDE DEF h
  <2>2. QED
    BY <1>5, <2>1 DEF Walk
<1>7. QED
  BY <1>3, <1>6

\* The walk that Chain takes its result from.
WalkOf(f, k) == CHOOSE g : Walk(f, k, f.size, g)

LEMMA WalkOfIs ==
    ASSUME NEW f, WellFormed(f), NEW k
    PROVE  /\ \A o \in 0..f.size : WalkOf(f, k)[o] = Visit(f, k, WalkOf(f, k), o)
           /\ Chain(f, k) = IF f.head[Bucket[k]] = 0 THEN <<>> ELSE WalkOf(f, k)[f.head[Bucket[k]]]
<1>1. Walk(f, k, f.size, WalkOf(f, k))
  BY WalkExists DEF WalkOf
<1>2. \A o \in 0..f.size : WalkOf(f, k)[o] = Visit(f, k, WalkOf(f, k), o)
  BY <1>1 DEF Walk
<1>3. Chain(f, k) = IF f.head[Bucket[k]] = 0 THEN <<>> ELSE WalkOf(f, k)[f.head[Bucket[k]]]
  BY DEF Chain, WalkOf, Walk, Visit
<1>4. QED
  BY <1>2, <1>3

LEMMA OneVisited ==
    ASSUME NEW S, NEW x \in S
    PROVE  <<x>> \in Seq(S) /\ <<x>> # <<>> /\ Last(<<x>>) = x
<1>1. <<x>> \in Seq(S) /\ Len(<<x>>) = 1 /\ <<x>>[1] = x
  OBVIOUS
<1>2. <<x>> # <<>>
  BY <1>1, EmptySeq
<1>3. QED
  BY <1>1, <1>2 DEF Last

LEMMA OneMoreVisited ==
    ASSUME NEW S, NEW x \in S, NEW s \in Seq(S), s # <<>>
    PROVE  <<x>> \o s \in Seq(S) /\ <<x>> \o s # <<>> /\ Last(<<x>> \o s) = Last(s)
<1> DEFINE t == <<x>>
<1>1. t \in Seq(S) /\ Len(t) = 1
  OBVIOUS
<1>2. Len(s) \in Nat \ {0}
  BY EmptySeq
<1> HIDE DEF t
<1>3. /\ t \o s \in Seq(S) /\ Len(t \o s) = 1 + Len(s)
      /\ \A i \in 1..(1 + Len(s)) : (t \o s)[i] = IF i <= 1 THEN t[i] ELSE s[i - 1]
  BY <1>1, ConcatProperties
<1>4. t \o s # <<>>
  BY <1>2, <1>3, EmptySeq
<1>5. (t \o s)[1 + Len(s)] = s[Len(s)]
  BY <1>2, <1>3
<1>6. Last(t \o s) = Last(s)
  BY <1>3, <1>5 DEF Last
<1>7. QED
  BY <1>3, <1>4, <1>6 DEF t

\* Every offset a walk from a record visits is that of a record.
LEMMA WalkVisitsRecords ==
    ASSUME NEW f, WellFormed(f), NEW k
    PROVE  \A o \in DOMAIN f.records :
              WalkOf(f, k)[o] \in Seq(DOMAIN f.records) /\ WalkOf(f, k)[o] # <<>>
<1> DEFINE w == WalkOf(f, k)
           Bad == {o \in DOMAIN f.records : ~ (w[o] \in Seq(DOMAIN f.records) /\ w[o] # <<>>)}
<1>1. SUFFICES ASSUME Bad # {} PROVE FALSE
  OBVIOUS
<1>2. PICK m \in Bad : \A o \in Bad : m <= o
  <2>1. Bad \subseteq Nat
    BY DEF WellFormed
  <2>2. QED
    BY <1>1, <2>1, LeastNatural
<1>3. m \in DOMAIN f.records /\ m \in 0..f.size /\ w[m] = Visit(f, k, w, m)
  <2>1. m \in 0..f.size
    BY <1>2 DEF WellFormed
  <2>2. QED
    BY <1>2, <2>1, WalkOfIs
<1> HIDE DEF w
<1>5. CASE f.records[m].key = k \/ f.records[m].prev = 0
  <2>1. w[m] = <<m>>
    BY <1>3, <1>5 DEF Visit
  <2>2. <<m>> \in Seq(DOMAIN f.records) /\ <<m>> # <<>>
    BY <1>3, OneVisited
  <2>3. w[m] \in Seq(DOMAIN f.records) /\ w[m] # <<>>
    BY <2>1, <2>2
  <2>4. QED
    BY <1>2, <2>3
<1>6. CASE ~ (f.records[m].key = k \/ f.records[m].prev = 0)
  <2>1. w[m] = <<m>> \o w[f.records[m].prev]
    BY <1>3, <1>6 DEF Visit
  <2>2. f.records[m].prev \in DOMAIN f.records /\ f.records[m].prev < m
    BY <1>3, <1>6 DEF WellFormed
  <2>3. f.records[m].prev \notin Bad
    <3>1. f.records[m].prev \in Nat /\ m \in Nat
      BY <1>3, <2>2 DEF WellFormed
    <3>2. QED
      BY <1>2, <2>2, <3>1
  <2>4. w[f.records[m].prev] \in Seq(DOMAIN f.records) /\ w[f.records[m].prev] # <<>>
    BY <2>2, <2>3
  <2>5. /\ <<m>> \o w[f.records[m].prev] \in Seq(DOMAIN f.records)
        /\ <<m>> \o w[f.records[m].prev] # <<>>
    BY <1>3, <2>4, OneMoreVisited
  <2>6. w[m] \in Seq(DOMAIN f.records) /\ w[m] # <<>>
    BY <2>1, <2>5
  <2>7. QED
    BY <1>2, <2>6
<1>7. QED
  BY <1>5, <1>6

\* Get follows links to records only.
LEMMA ChainOfRecords ==
    ASSUME NEW f, WellFormed(f), NEW k \in Keys
    PROVE  \A i \in DOMAIN Chain(f, k) : Chain(f, k)[i] \in DOMAIN f.records
<1> DEFINE o == f.head[Bucket[k]]
<1>1. Bucket[k] \in Buckets
  BY HashMapAssumption DEF Buckets
<1>2. CASE o = 0
  <2>1. Chain(f, k) = <<>>
    BY <1>2, WalkOfIs
  <2>2. QED
    BY <2>1
<1>3. CASE o # 0
  <2>1. o \in DOMAIN f.records
    BY <1>1, <1>3 DEF WellFormed
  <2>2. Chain(f, k) = WalkOf(f, k)[o]
    BY <1>3, WalkOfIs
  <2>3. Chain(f, k) \in Seq(DOMAIN f.records)
    BY <2>1, <2>2, WalkVisitsRecords
  <2> HIDE DEF o
  <2>4. QED
    BY <2>3, LenProperties, ElementOfSeq
<1>4. QED
  BY <1>2, <1>3

-----------------------------------------------------------------------------
(* What Get finds.                                                          *)

\* The value found for key k by the walk from the record at offset o.
At(f, k, o) ==
    LET r == f.records[Last(WalkOf(f, k)[o])]
    IN  IF r.key = k THEN r.value ELSE 0

LEMMA AtIs ==
    ASSUME NEW f, WellFormed(f), NEW k, NEW o \in DOMAIN f.records
    PROVE  At(f, k, o) = IF f.records[o].key = k THEN f.records[o].value
                         ELSE IF f.records[o].prev = 0 THEN 0
                         ELSE At(f, k, f.records[o].prev)
<1> DEFINE w == WalkOf(f, k)
<1>1. w[o] = Visit(f, k, w, o)
  <2>1. o \in 0..f.size
    BY DEF WellFormed
  <2>2. QED
    BY <2>1, WalkOfIs
<1> HIDE DEF w
<1>2. CASE f.records[o].key = k \/ f.records[o].prev = 0
  <2>1. w[o] = <<o>>
    BY <1>1, <1>2 DEF Visit
  <2>2. Last(w[o]) = o
    BY <2>1, OneVisited
  <2>3. QED
    BY <1>2, <2>2 DEF At, w
<1>3. CASE ~ (f.records[o].key = k \/ f.records[o].prev = 0)
  <2>1. w[o] = <<o>> \o w[f.records[o].prev]
    BY <1>1, <1>3 DEF Visit
  <2>2. f.records[o].prev \in DOMAIN f.records
    BY <1>3 DEF WellFormed
  <2>3. w[f.records[o].prev] \in Seq(DOMAIN f.records) /\ w[f.records[o].prev] # <<>>
    BY <2>2, WalkVisitsRecords DEF w
  <2>4. Last(<<o>> \o w[f.records[o].prev]) = Last(w[f.records[o].prev])
    BY <2>3, OneMoreVisited
  <2>5. Last(w[o]) = Last(w[f.records[o].prev])
    BY <2>1, <2>4
  <2>6. QED
    BY <1>3, <2>5 DEF At, w
<1>4. QED
  BY <1>2, <1>3

LEMMA FoundIs ==
    ASSUME NEW f, WellFormed(f), NEW k \in Keys
    PROVE  Found(f, k) = IF f.head[Bucket[k]] = 0 THEN 0 ELSE At(f, k, f.head[Bucket[k]])
<1> DEFINE o == f.head[Bucket[k]]
<1>1. CASE o = 0
  <2>1. Chain(f, k) = <<>>
    BY <1>1, WalkOfIs
  <2>2. QED
    BY <1>1, <2>1 DEF Found
<1>2. CASE o # 0
  <2>1. o \in DOMAIN f.records
    BY <1>2, HashMapAssumption DEF WellFormed, Buckets
  <2>2. Chain(f, k) = WalkOf(f, k)[o]
    BY <1>2, WalkOfIs
  <2>3. Chain(f, k) \in Seq(DOMAIN f.records) /\ Chain(f, k) # <<>>
    BY <2>1, <2>2, WalkVisitsRecords
  <2>4. Last(Chain(f, k)) \in DOMAIN f.records
    <3>1. \A S, s : s \in Seq(S) /\ s # <<>> => Last(s) \in S
      <4>1. SUFFICES ASSUME NEW S, NEW s \in Seq(S), s # <<>> PROVE s[Len(s)] \in S
        BY DEF Last
      <4>2. Len(s) \in 1..Len(s)
        BY <4>1, EmptySeq
      <4>3. QED
        BY <4>2, ElementOfSeq
    <3>2. QED
      BY <2>3, <3>1
  <2>5. Found(f, k) = At(f, k, o)
    BY <2>2, <2>3, <2>4 DEF Found, At
  <2>6. QED
    BY <1>2, <2>5
<1>3. QED
  BY <1>1, <1>2

\* A file that keeps the records of another keeps what is found from any of them.
LEMMA AtAgrees ==
    ASSUME NEW f, WellFormed(f), NEW g, WellFormed(g),
           DOMAIN f.records \subseteq DOMAIN g.records,
           \A o \in DOMAIN f.records : g.records[o] = f.records[o],
           NEW k
    PROVE  \A o \in DOMAIN f.records : At(g, k, o) = At(f, k, o)
<1> DEFINE Bad == {o \in DOMAIN f.records : At(g, k, o) # At(f, k, o)}
<1>1. SUFFICES ASSUME Bad # {} PROVE FALSE
  OBVIOUS
<1>2. PICK m \in Bad : \A o \in Bad : m <= o
  <2>1. Bad \subseteq Nat
    BY DEF WellFormed
  <2>2. QED
    BY <1>1, <2>1, LeastNatural
<1>3. m \in DOMAIN f.records /\ m \in DOMAIN g.records /\ g.records[m] = f.records[m]
  BY <1>2
<1>4. f.records[m].prev # 0 =>
         At(g, k, f.records[m].prev) = At(f, k, f.records[m].prev)
  <2>1. SUFFICES ASSUME f.records[m].prev # 0
                 PROVE  At(g, k, f.records[m].prev) = At(f, k, f.records[m].prev)
    OBVIOUS
  <2>2. f.records[m].prev \in DOMAIN f.records /\ f.records[m].prev < m
    BY <1>3, <2>1 DEF WellFormed
  <2>3. f.records[m].prev \in Nat /\ m \in Nat
    BY <1>3, <2>2 DEF WellFormed
  <2>4. f.records[m].prev \notin Bad
    BY <1>2, <2>2, <2>3
  <2>5. QED
    BY <2>2, <2>4
<1>5. At(f, k, m) = IF f.records[m].key = k THEN f.records[m].value
                    ELSE IF f.records[m].prev = 0 THEN 0 ELSE At(f, k, f.records[m].prev)
  BY <1>3, AtIs
<1>6. At(g, k, m) = IF f.records[m].key = k THEN f.records[m].value
                    ELSE IF f.records[m].prev = 0 THEN 0 ELSE At(g, k, f.records[m].prev)
  BY <1>3, AtIs
<1>7. At(g, k, m) = At(f, k, m)
  BY <1>4, <1>5, <1>6
<1>8. QED
  BY <1>2, <1>7

-----------------------------------------------------------------------------
(* What the writes to a file leave of it.                                   *)

LEMMA EmptyIsWellFormed == WellFormed(Empty)
<1>1. /\ Empty = [head |-> Empty.head, records |-> Empty.records, size |-> Empty.size]
      /\ Empty.size = 0 /\ DOMAIN Empty.records = {}
      /\ Empty.head = [b \in 0..(BucketCount - 1) |-> 0]
  BY DEF Empty
<1>2. QED
  BY <1>1 DEF WellFormed, Buckets

\* A record at the end, not yet linked to.
LEMMA DumpedIs ==
    ASSUME NEW f, WellFormed(f), NEW r, r.key \in Keys, r.value \in Values,
           r.prev = f.head[Bucket[r.key]]
    PROVE  /\ WellFormed(Dumped(f, r))
           /\ Dumped(f, r).head = f.head
           /\ Dumped(f, r).size = f.size + r.value
           /\ DOMAIN Dumped(f, r).records = DOMAIN f.records \cup {f.size + 1}
           /\ Dumped(f, r).records[f.size + 1] = r
           /\ \A o \in DOMAIN f.records : o # f.size + 1 /\ Dumped(f, r).records[o] = f.records[o]
<1> DEFINE g == Dumped(f, r)
           new == [o \in DOMAIN f.records \cup {f.size + 1} |->
                      IF o = f.size + 1 THEN r ELSE f.records[o]]
<1>1. /\ f = [head |-> f.head, records |-> f.records, size |-> f.size]
      /\ f.size \in Nat /\ r.value \in Nat \ {0}
  BY HashMapAssumption DEF WellFormed
<1>2. g = [head |-> f.head, records |-> new, size |-> f.size + r.value]
  <2> HIDE DEF new
  <2>1. g = [f EXCEPT !.records = new, !.size = f.size + r.value]
    BY DEF Dumped, new
  <2>2. QED
    BY <1>1, <2>1
<1>3. \A o \in DOMAIN f.records : o \in Nat /\ o # f.size + 1
  BY <1>1 DEF WellFormed
<1>4. /\ g.head = f.head /\ g.size = f.size + r.value
      /\ DOMAIN g.records = DOMAIN f.records \cup {f.size + 1}
      /\ g.records[f.size + 1] = r
      /\ \A o \in DOMAIN f.records : g.records[o] = f.records[o]
  BY <1>2, <1>3
<1>5. g = [head |-> g.head, records |-> g.records, size |-> g.size]
  BY <1>2
<1> HIDE DEF g
<1>6. g.size \in Nat /\ f.size + 1 <= g.size /\ g.head \in [Buckets -> Nat]
  BY <1>1, <1>4 DEF WellFormed
<1>7. DOMAIN g.records \subseteq 1..g.size
  <2>1. \A o \in DOMAIN f.records : o \in Nat /\ 1 <= o /\ o <= f.size
    BY DEF WellFormed
  <2>2. QED
    BY <1>1, <1>4, <1>6, <2>1
<1>8. Bucket[r.key] \in Buckets
  BY HashMapAssumption DEF Buckets
<1>9. ASSUME NEW o \in DOMAIN g.records
      PROVE  /\ g.records[o].key \in Keys /\ g.records[o].value \in Values
             /\ o + g.records[o].value <= g.size + 1
             /\ g.records[o].prev # 0 =>
                   /\ g.records[o].prev \in DOMAIN g.records /\ g.records[o].prev < o
                   /\ Bucket[g.records[g.records[o].prev].key] = Bucket[g.records[o].key]
  <2>1. CASE o \in DOMAIN f.records
    <3>1. g.records[o] = f.records[o]
      BY <1>4, <2>1
    <3>2. f.records[o].key \in Keys /\ f.records[o].value \in Values
      BY <2>1 DEF WellFormed
    <3>3. o + f.records[o].value <= f.size + 1
      BY <2>1 DEF WellFormed
    <3>4. o + f.records[o].value <= g.size + 1
      <4>1. o \in Nat /\ f.records[o].value \in Nat
        BY <1>3, <2>1, <3>2, HashMapAssumption
      <4>2. QED
        BY <1>1, <1>4, <3>3, <4>1
    <3>5. ASSUME f.records[o].prev # 0
          PROVE  /\ f.records[o].prev \in DOMAIN f.records /\ f.records[o].prev < o
                 /\ Bucket[f.records[f.records[o].prev].key] = Bucket[f.records[o].key]
      BY <2>1, <3>5 DEF WellFormed
    <3>6. QED
      BY <1>4, <3>1, <3>2, <3>4, <3>5
  <2>2. CASE o = f.size + 1
    <3>1. g.records[o] = r
      BY <1>4, <2>2
    <3>2. o + r.value <= g.size + 1
      BY <1>1, <1>4, <2>2
    <3>3. ASSUME r.prev # 0
          PROVE  r.prev \in DOMAIN f.records /\ Bucket[f.records[r.prev].key] = Bucket[r.key]
      BY <1>8, <3>3 DEF WellFormed
    <3>4. ASSUME r.prev # 0 PROVE r.prev < o
      <4>1. r.prev \in Nat /\ r.prev <= f.size
        BY <3>3, <3>4 DEF WellFormed
      <4>2. QED
        BY <1>1, <2>2, <4>1
    <3>5. QED
      BY <1>4, <3>1, <3>2, <3>3, <3>4
  <2>3. QED
    BY <1>4, <2>1, <2>2
<1>10. ASSUME NEW b \in Buckets, g.head[b] # 0
       PROVE  g.head[b] \in DOMAIN g.records /\ Bucket[g.records[g.head[b]].key] = b
  <2>1. f.head[b] \in DOMAIN f.records /\ Bucket[f.records[f.head[b]].key] = b
    BY <1>4, <1>10 DEF WellFormed
  <2>2. QED
    BY <1>4, <2>1
<1>11. WellFormed(g)
  BY <1>5, <1>6, <1>7, <1>9, <1>10 DEF WellFormed
<1>12. QED
  BY <1>3, <1>4, <1>11 DEF g

\* A part of a record at the end.
LEMMA LongerIs ==
    ASSUME NEW f, WellFormed(f), NEW n \in Nat,
           NEW g, g = [f EXCEPT !.size = f.size + n]
    PROVE  WellFormed(g) /\ g.head = f.head /\ g.records = f.records /\ g.size = f.size + n
<1>1. f = [head |-> f.head, records |-> f.records, size |-> f.size] /\ f.size \in Nat
  BY DEF WellFormed
<1>2. g = [head |-> f.head, records |-> f.records, size |-> f.size + n]
  BY <1>1
<1>3. g.head = f.head /\ g.records = f.records /\ g.size = f.size + n
  BY <1>2
<1>4. g = [head |-> g.head, records |-> g.records, size |-> g.size]
  BY <1>2
<1>5. \A o \in DOMAIN f.records :
         /\ o \in 1..(f.size + n)
         /\ o + f.records[o].value <= f.size + n + 1
  <2>1. TAKE o \in DOMAIN f.records
  <2>2. o \in Nat /\ 1 <= o /\ o <= f.size /\ f.records[o].value \in Nat
    BY HashMapAssumption DEF WellFormed
  <2>3. o + f.records[o].value <= f.size + 1
    BY DEF WellFormed
  <2>4. QED
    BY <1>1, <2>2, <2>3
<1>6. QED
  BY <1>1, <1>3, <1>4, <1>5 DEF WellFormed

\* A link to a record of the bucket.
LEMMA LinkedIs ==
    ASSUME NEW f, WellFormed(f), NEW b \in Buckets, NEW o \in DOMAIN f.records,
           Bucket[f.records[o].key] = b,
           NEW h \in [Buckets -> Nat], h[b] = o, \A c \in Buckets : c # b => h[c] = f.head[c],
           NEW g, g = [f EXCEPT !.head = h]
    PROVE  /\ WellFormed(g) /\ g.records = f.records /\ g.size = f.size
           /\ g.head[b] = o
           /\ \A c \in Buckets : c # b => g.head[c] = f.head[c]
<1>1. f = [head |-> f.head, records |-> f.records, size |-> f.size]
  BY DEF WellFormed
<1>2. g = [head |-> h, records |-> f.records, size |-> f.size]
  BY <1>1
<1>3. g.head = h /\ g.records = f.records /\ g.size = f.size
  BY <1>2
<1>4. g = [head |-> g.head, records |-> g.records, size |-> g.size]
  BY <1>2
<1>5. \A c \in Buckets : h[c] # 0 =>
         h[c] \in DOMAIN f.records /\ Bucket[f.records[h[c]].key] = c
  BY DEF WellFormed
<1>6. WellFormed(g)
  BY <1>3, <1>4, <1>5 DEF WellFormed
<1>7. QED
  BY <1>3, <1>6

\* An offset that is not linked to changes nothing of what is found.
LEMMA FoundUnlinked ==
    ASSUME NEW f, WellFormed(f), NEW g, WellFormed(g), g.head = f.head,
           DOMAIN f.records \subseteq DOMAIN g.records,
           \A o \in DOMAIN f.records : g.records[o] = f.records[o],
           NEW k \in Keys
    PROVE  Found(g, k) = Found(f, k)
<1> DEFINE o == f.head[Bucket[k]]
<1>1. /\ Found(f, k) = IF o = 0 THEN 0 ELSE At(f, k, o)
      /\ Found(g, k) = IF o = 0 THEN 0 ELSE At(g, k, o)
  BY FoundIs
<1>2. o # 0 => o \in DOMAIN f.records
  BY HashMapAssumption DEF WellFormed, Buckets
<1>3. \A p \in DOMAIN f.records : At(g, k, p) = At(f, k, p)
  BY AtAgrees
<1>4. QED
  BY <1>1, <1>2, <1>3

\* A link to a record in front of the chain of its bucket changes its key and no other.
LEMMA FoundLinked ==
    ASSUME NEW f, WellFormed(f), NEW g, WellFormed(g), g.records = f.records,
           NEW o \in DOMAIN f.records,
           NEW b \in Buckets, Bucket[f.records[o].key] = b, f.records[o].prev = f.head[b],
           g.head[b] = o, \A c \in Buckets : c # b => g.head[c] = f.head[c],
           NEW k \in Keys
    PROVE  Found(g, k) = IF k = f.records[o].key THEN f.records[o].value ELSE Found(f, k)
<1>3. Bucket[k] \in Buckets /\ o # 0
  BY HashMapAssumption DEF WellFormed, Buckets
<1>4. /\ Found(f, k) = IF f.head[Bucket[k]] = 0 THEN 0 ELSE At(f, k, f.head[Bucket[k]])
      /\ Found(g, k) = IF g.head[Bucket[k]] = 0 THEN 0 ELSE At(g, k, g.head[Bucket[k]])
  BY FoundIs
<1>5. \A p \in DOMAIN f.records : At(g, k, p) = At(f, k, p)
  BY AtAgrees
<1>6. CASE Bucket[k] # b
  <2>1. g.head[Bucket[k]] = f.head[Bucket[k]] /\ k # f.records[o].key
    BY <1>3, <1>6
  <2>2. f.head[Bucket[k]] # 0 => f.head[Bucket[k]] \in DOMAIN f.records
    BY <1>3 DEF WellFormed
  <2>3. QED
    BY <1>4, <1>5, <2>1, <2>2
<1>7. CASE Bucket[k] = b
  <2>1. Found(g, k) = At(g, k, o)
    BY <1>3, <1>4, <1>7
  <2>2. At(g, k, o) = At(f, k, o)
    BY <1>5
  <2>3. At(f, k, o) = IF f.records[o].key = k THEN f.records[o].value
                      ELSE IF f.records[o].prev = 0 THEN 0 ELSE At(f, k, f.records[o].prev)
    BY AtIs
  <2>4. f.records[o].prev = f.head[Bucket[k]]
    BY <1>7
  <2>5. QED
    BY <1>4, <2>1, <2>2, <2>3, <2>4
<1>8. QED
  BY <1>6, <1>7

LEMMA FoundInEmpty == \A k \in Keys : Found(Empty, k) = 0
<1>1. \A k \in Keys : Bucket[k] \in Buckets
  BY HashMapAssumption DEF Buckets
<1>2. \A b \in Buckets : Empty.head[b] = 0
  BY DEF Empty, Buckets
<1>3. QED
  BY <1>1, <1>2, EmptyIsWellFormed, FoundIs

-----------------------------------------------------------------------------
(* The invariant is inductive.                                              *)

LatestInv == latest \in [Names -> [Keys -> Nat]]

MapInv == FilesInv /\ HandleInv /\ LatestInv /\ LastInsertIsFound

LEMMA InitMap == Init => MapInv
<1> SUFFICES ASSUME Init PROVE MapInv
  OBVIOUS
<1>1. FilesInv
  BY EmptyIsWellFormed DEF Init, FilesInv
<1>2. HandleInv
  BY DEF Init, HandleInv
<1>3. LatestInv
  BY DEF Init, LatestInv, Nothing
<1>4. LastInsertIsFound
  BY DEF Init, LastInsertIsFound
<1>5. QED
  BY <1>1, <1>2, <1>3, <1>4 DEF MapInv

\* A step that writes file n.
LEMMA WriteStep ==
    ASSUME FilesInv, NEW n \in Names, NEW g, WellFormed(g), file' = [file EXCEPT ![n] = g]
    PROVE  FilesInv' /\ file'[n] = g /\ \A m \in Names : m # n => file'[m] = file[m]
<1>1. file = [m \in Names |-> file[m]] /\ \A m \in Names : WellFormed(file[m])
  BY DEF FilesInv
<1>2. file' = [m \in Names |-> IF m = n THEN g ELSE file[m]]
  BY <1>1, Zenon
<1>3. file'[n] = g /\ \A m \in Names : m # n => file'[m] = file[m]
  BY <1>2
<1>4. file' = [m \in Names |-> file'[m]]
  BY <1>2
<1>5. \A m \in Names : WellFormed(file'[m])
  BY <1>1, <1>3
<1>6. QED
  BY <1>3, <1>4, <1>5 DEF FilesInv

LEMMA CreateStep ==
    ASSUME MapInv, Create
    PROVE  MapInv'
<1>1. FilesInv' /\ file'["Path.new"] = Empty /\ file'["Path"] = file["Path"]
  BY WriteStep, EmptyIsWellFormed DEF MapInv, Create, NewName, Names
<1>2. HandleInv'
  <2>1. /\ File' = "Path.new" /\ DataPos' = 1 /\ mapped' = 0 /\ pc' = "ready"
        /\ exists' = exists \cup {"Path.new"} /\ exists \subseteq Names
    BY DEF MapInv, HandleInv, Create, Restart, NewName, locals
  <2>2. Empty.size = 0
    BY DEF Empty
  <2>3. QED
    BY <1>1, <2>1, <2>2 DEF HandleInv, Names
<1>3. LatestInv' /\ latest'["Path.new"] = Nothing /\ latest'["Path"] = latest["Path"]
  BY DEF MapInv, LatestInv, Create, NewName, Names, Nothing
<1>4. LastInsertIsFound'
  <2>1. exists' = exists \cup {"Path.new"} /\ exists \subseteq Names
    BY DEF MapInv, HandleInv, Create, NewName
  <2>2. \A k \in Keys : Nothing[k] = 0
    BY DEF Nothing
  <2>3. \A n \in exists' : n # "Path.new" => n = "Path" /\ n \in exists
    BY <2>1 DEF Names
  <2>4. \A n \in exists' : \A k \in Keys : Found(file'[n], k) = latest'[n][k]
    BY <1>1, <1>3, <2>2, <2>3, FoundInEmpty DEF MapInv, LastInsertIsFound
  <2>5. QED
    BY <2>4 DEF LastInsertIsFound
<1>5. QED
  BY <1>1, <1>2, <1>3, <1>4 DEF MapInv

LEMMA OpenStep ==
    ASSUME MapInv, NEW rw \in BOOLEAN, Open(rw)
    PROVE  MapInv'
<1>1. file' = file /\ exists' = exists /\ latest' = latest
  BY DEF Open
<1>2. FilesInv' /\ LatestInv' /\ LastInsertIsFound'
  BY <1>1 DEF MapInv, FilesInv, LatestInv, LastInsertIsFound
<1>3. /\ File' = "Path" /\ "Path" \in exists /\ exists \subseteq Names /\ pc' = "ready"
      /\ mapped' = file["Path"].size /\ DataPos' = file["Path"].size + 1
  BY DEF MapInv, HandleInv, Open, Restart, locals
<1>4. file["Path"].size \in Nat
  BY DEF MapInv, FilesInv, WellFormed, Names
<1>5. HandleInv'
  BY <1>1, <1>3, <1>4 DEF HandleInv, Names
<1>6. QED
  BY <1>2, <1>5 DEF MapInv

LEMMA CloseStep ==
    ASSUME MapInv, Close
    PROVE  MapInv'
<1>1. /\ File \in Names /\ File \in exists /\ exists \subseteq Names /\ pc = "ready"
      /\ DataPos = file[File].size + 1 /\ DataPos \in Nat
  BY DEF MapInv, HandleInv, Close
<1>2. WellFormed(file[File])
  BY <1>1 DEF MapInv, FilesInv
<1>3. FilesInv' /\ file'["Path"] = file[File] /\ file'["Path.new"] = file["Path.new"]
  BY <1>2, WriteStep DEF MapInv, Close, Names
<1>4. /\ LatestInv' /\ latest'["Path"] = latest[File]
      /\ latest'["Path.new"] = latest["Path.new"]
  BY <1>1 DEF MapInv, LatestInv, Close, Names
<1>5. /\ File' = "Path" /\ exists' = (exists \ {File}) \cup {"Path"} /\ pc' = "ready"
      /\ DataPos' = DataPos /\ mapped' = file[File].size
  BY <1>1 DEF Close, locals
<1>6. HandleInv'
  <2>1. file[File].size \in Nat
    BY <1>2 DEF WellFormed
  <2>2. QED
    BY <1>1, <1>3, <1>5, <2>1 DEF HandleInv, Names
<1>7. LastInsertIsFound'
  <2>1. \A n \in exists' : n = "Path" \/ (n = "Path.new" /\ n \in exists)
    BY <1>1, <1>5 DEF Names
  <2>2. \A k \in Keys : Found(file[File], k) = latest[File][k]
    BY <1>1 DEF MapInv, LastInsertIsFound
  <2>3. \A n \in exists' : \A k \in Keys : Found(file'[n], k) = latest'[n][k]
    BY <1>3, <1>4, <2>1, <2>2 DEF MapInv, LastInsertIsFound
  <2>4. QED
    BY <2>3 DEF LastInsertIsFound
<1>8. QED
  BY <1>3, <1>4, <1>6, <1>7 DEF MapInv

\* The process ends: a part of a record may be left at the end of the file.
LEMMA GoneStep ==
    ASSUME HandleInv, Gone, UNCHANGED exists
    PROVE  HandleInv'
<1>1. File' = "none" /\ pc' = "ready" /\ DataPos' = 1 /\ exists' = exists
  BY DEF Gone
<1>2. QED
  BY <1>1 DEF HandleInv

LEMMA CrashStep ==
    ASSUME MapInv, Crash
    PROVE  MapInv'
<1>1. HandleInv'
  BY GoneStep DEF MapInv, Crash
<1>2. file' = file /\ exists' = exists /\ latest' = latest
  BY DEF Crash
<1>3. QED
  BY <1>1, <1>2 DEF MapInv, FilesInv, LatestInv, LastInsertIsFound

LEMMA CrashInAppendStep ==
    ASSUME MapInv, CrashInAppend
    PROVE  MapInv' /\ \A n \in Names : \A k \in Keys : Found(file'[n], k) = Found(file[n], k)
<1>1. File \in Names /\ value \in Nat
  BY HashMapAssumption DEF MapInv, HandleInv, CrashInAppend
<1>2. WellFormed(file[File]) /\ \A n \in Names : WellFormed(file[n])
  BY <1>1 DEF MapInv, FilesInv
<1>3. PICK part \in Nat :
         file' = [file EXCEPT ![File] = [file[File] EXCEPT !.size = file[File].size + part]]
  <2>1. PICK part \in 1..(value - 1) :
           file' = [file EXCEPT ![File].size = @ + part]
    BY DEF CrashInAppend
  <2>2. part \in Nat
    BY <1>1, <2>1
  <2>3. QED
    BY <2>1, <2>2
<1> DEFINE f == file[File]
           g == [f EXCEPT !.size = f.size + part]
<1>4. WellFormed(g) /\ g.head = f.head /\ g.records = f.records
  BY <1>2, LongerIs
<1>5. file' = [file EXCEPT ![File] = g]
  BY <1>3
<1> HIDE DEF g
<1>6. FilesInv' /\ file'[File] = g /\ \A n \in Names : n # File => file'[n] = file[n]
  BY <1>1, <1>4, <1>5, WriteStep DEF MapInv
<1>7. \A k \in Keys : Found(g, k) = Found(f, k)
  BY <1>2, <1>4, FoundUnlinked
<1>8. \A n \in Names : \A k \in Keys : Found(file'[n], k) = Found(file[n], k)
  BY <1>1, <1>6, <1>7
<1>9. exists' = exists /\ latest' = latest /\ exists \subseteq Names
  BY DEF MapInv, HandleInv, CrashInAppend
<1>10. HandleInv'
  BY GoneStep DEF MapInv, CrashInAppend
<1>11. LastInsertIsFound'
  BY <1>8, <1>9 DEF MapInv, LastInsertIsFound
<1>12. LatestInv'
  BY <1>9 DEF MapInv, LatestInv
<1>13. QED
  BY <1>6, <1>8, <1>10, <1>11, <1>12 DEF MapInv

LEMMA InsertStep ==
    ASSUME MapInv, NEW k \in Keys, NEW v \in Values, Insert(k, v)
    PROVE  MapInv'
<1>1. /\ file' = file /\ exists' = exists /\ latest' = latest
      /\ File' = File /\ DataPos' = DataPos /\ mapped' = mapped
      /\ key' = k /\ value' = v /\ prev' = file[File].head[Bucket[k]]
      /\ pc = "ready" /\ pc' = "append" /\ File # "none"
  BY DEF Insert, handle
<1>2. HandleInv'
  BY <1>1 DEF MapInv, HandleInv
<1>3. QED
  BY <1>1, <1>2 DEF MapInv, FilesInv, LatestInv, LastInsertIsFound

LEMMA Append1Step ==
    ASSUME MapInv, Append1
    PROVE  MapInv' /\ \A n \in Names : \A k \in Keys : Found(file'[n], k) = Found(file[n], k)
<1>1. /\ File \in Names /\ key \in Keys /\ value \in Values /\ value \in Nat \ {0}
      /\ prev = file[File].head[Bucket[key]] /\ DataPos = file[File].size + 1
      /\ mapped \in 0..file[File].size /\ exists \subseteq Names /\ File \in exists
      /\ DataPos \in Nat
  BY HashMapAssumption DEF MapInv, HandleInv, Append1
<1> DEFINE f == file[File]
           r == [key |-> key, value |-> value, prev |-> prev]
           g == Dumped(f, r)
<1>2. WellFormed(f) /\ f.size \in Nat
  BY <1>1 DEF MapInv, FilesInv, WellFormed
<1>3. r.key = key /\ r.value = value /\ r.prev = prev
  OBVIOUS
<1>4. file' = [file EXCEPT ![File] = g]
  BY DEF Append1
<1> HIDE DEF r
<1>5. /\ WellFormed(g) /\ g.head = f.head /\ g.size = f.size + value
      /\ DOMAIN g.records = DOMAIN f.records \cup {f.size + 1}
      /\ g.records[f.size + 1] = r
      /\ \A o \in DOMAIN f.records : g.records[o] = f.records[o]
  BY <1>1, <1>2, <1>3, DumpedIs
<1> HIDE DEF g
<1>6. FilesInv' /\ file'[File] = g /\ \A n \in Names : n # File => file'[n] = file[n]
  BY <1>1, <1>4, <1>5, WriteStep DEF MapInv
<1>7. \A k \in Keys : Found(g, k) = Found(f, k)
  <2>1. DOMAIN f.records \subseteq DOMAIN g.records
    BY <1>5
  <2>2. QED
    BY <1>2, <1>5, <2>1, FoundUnlinked
<1>8. \A n \in Names : \A k \in Keys : Found(file'[n], k) = Found(file[n], k)
  BY <1>1, <1>6, <1>7
<1>9. /\ exists' = exists /\ latest' = latest /\ File' = File /\ DataPos' = DataPos
      /\ mapped' = mapped /\ key' = key /\ value' = value /\ prev' = prev /\ pc' = "link"
  BY DEF Append1, handle
<1>10. HandleInv'
  <2>1. mapped' \in 0..g.size
    BY <1>1, <1>2, <1>5, <1>9
  <2>2. DataPos + value = g.size + 1 /\ DataPos \in DOMAIN g.records
    BY <1>1, <1>2, <1>5
  <2>3. g.records[DataPos] = [key |-> key, value |-> value, prev |-> prev]
    BY <1>1, <1>5 DEF r
  <2>4. prev = g.head[Bucket[key]]
    BY <1>1, <1>5
  <2>5. QED
    BY <1>1, <1>6, <1>9, <2>1, <2>2, <2>3, <2>4 DEF HandleInv, Names
<1>11. LastInsertIsFound'
  BY <1>1, <1>8, <1>9 DEF MapInv, LastInsertIsFound
<1>12. LatestInv'
  BY <1>9 DEF MapInv, LatestInv
<1>13. QED
  BY <1>6, <1>8, <1>10, <1>11, <1>12 DEF MapInv

LEMMA LinkStep ==
    ASSUME MapInv, Link
    PROVE  /\ MapInv'
           /\ \A n \in Names : \A k \in Keys :
                 n # File \/ k # key => Found(file'[n], k) = Found(file[n], k)
<1>1. /\ File \in Names /\ key \in Keys /\ value \in Values /\ value \in Nat \ {0}
      /\ prev = file[File].head[Bucket[key]] /\ DataPos + value = file[File].size + 1
      /\ DataPos \in DOMAIN file[File].records
      /\ file[File].records[DataPos] = [key |-> key, value |-> value, prev |-> prev]
      /\ mapped \in 0..file[File].size /\ exists \subseteq Names /\ File \in exists
      /\ DataPos \in Nat
  BY HashMapAssumption DEF MapInv, HandleInv, Link
<1> DEFINE f == file[File]
           b == Bucket[key]
           h == [f.head EXCEPT ![b] = DataPos]
           g == [f EXCEPT !.head = h]
<1>2. WellFormed(f) /\ f.size \in Nat
  BY <1>1 DEF MapInv, FilesInv, WellFormed
<1>3. b \in Buckets
  BY <1>1, HashMapAssumption DEF Buckets
<1>4. f.records[DataPos].key = key /\ f.records[DataPos].value = value
      /\ f.records[DataPos].prev = f.head[b]
  BY <1>1
<1>5. file' = [file EXCEPT ![File] = g]
  BY DEF Link
<1>6. /\ WellFormed(g) /\ g.records = f.records /\ g.size = f.size
      /\ g.head[b] = DataPos /\ \A c \in Buckets : c # b => g.head[c] = f.head[c]
  <2>1. DataPos \in DOMAIN f.records /\ Bucket[f.records[DataPos].key] = b
    BY <1>1, <1>4
  <2>2. h \in [Buckets -> Nat] /\ h[b] = DataPos /\ \A c \in Buckets : c # b => h[c] = f.head[c]
    BY <1>1, <1>2, <1>3 DEF WellFormed
  <2> HIDE DEF f, b, h
  <2>3. QED
    BY <1>2, <1>3, <2>1, <2>2, LinkedIs
<1>7. \A k \in Keys : Found(g, k) = IF k = key THEN value ELSE Found(f, k)
  <2>1. Bucket[f.records[DataPos].key] = b /\ f.records[DataPos].prev = f.head[b]
    BY <1>4
  <2>2. DataPos \in DOMAIN f.records
    BY <1>1
  <2> HIDE DEF f, g, b
  <2>3. \A k \in Keys : Found(g, k) = IF k = f.records[DataPos].key
                                      THEN f.records[DataPos].value ELSE Found(f, k)
    BY <1>2, <1>3, <1>6, <2>1, <2>2, FoundLinked
  <2>4. QED
    BY <1>4, <2>3
<1> HIDE DEF g
<1>8. FilesInv' /\ file'[File] = g /\ \A n \in Names : n # File => file'[n] = file[n]
  BY <1>1, <1>5, <1>6, WriteStep DEF MapInv
<1>9. \A n \in Names : \A k \in Keys :
         n # File \/ k # key => Found(file'[n], k) = Found(file[n], k)
  BY <1>7, <1>8
<1>10. /\ exists' = exists /\ latest' = [latest EXCEPT ![File][key] = value]
       /\ File' = File /\ DataPos' = DataPos + value /\ mapped' = mapped /\ pc' = "ready"
  BY DEF Link
<1>11. HandleInv'
  BY <1>1, <1>2, <1>6, <1>8, <1>10 DEF HandleInv, Names
<1>12. LatestInv'
  BY <1>1, <1>10 DEF MapInv, LatestInv
<1>13. LastInsertIsFound'
  <2>1. /\ latest'[File][key] = value
        /\ \A k \in Keys : k # key => latest'[File][k] = latest[File][k]
        /\ \A n \in Names : n # File => latest'[n] = latest[n]
    BY <1>1, <1>10 DEF MapInv, LatestInv
  <2>2. Found(file'[File], key) = value
    BY <1>1, <1>7, <1>8
  <2>3. \A n \in exists' : \A k \in Keys : Found(file'[n], k) = latest'[n][k]
    BY <1>1, <1>9, <1>10, <2>1, <2>2 DEF MapInv, LastInsertIsFound
  <2>4. QED
    BY <2>3 DEF LastInsertIsFound
<1>14. QED
  BY <1>8, <1>9, <1>11, <1>12, <1>13 DEF MapInv

\* Reading maps the file again and moves the iterator.
LEMMA ReadStep ==
    ASSUME MapInv, Get \/ GetAll \/ Next1 \/ NextAstray \/ IteratorEnds \/ UNCHANGED vars
    PROVE  MapInv'
<1>1. file' = file /\ exists' = exists /\ latest' = latest
  BY DEF Get, GetAll, Next1, NextAstray, IteratorEnds, Rest, vars
<1>2. /\ File' = File /\ DataPos' = DataPos /\ key' = key /\ value' = value /\ prev' = prev
  BY DEF Get, GetAll, Next1, NextAstray, IteratorEnds, Rest, vars, handle, locals
<1>3. CASE Get
  <2>1. pc \in {"ready", "iterating"} /\ pc' = pc /\ mapped' = Remapped /\ File # "none"
    BY <1>3 DEF Get, locals
  <2>2. /\ File \in Names /\ DataPos = file[File].size + 1
        /\ mapped \in 0..file[File].size
    BY <2>1 DEF MapInv, HandleInv
  <2>3. file[File].size \in Nat
    BY <2>2 DEF MapInv, FilesInv, WellFormed
  <2>4. mapped' \in 0..file[File].size
    BY <2>1, <2>2, <2>3 DEF Remapped
  <2>5. HandleInv'
    BY <1>1, <1>2, <2>1, <2>4 DEF MapInv, HandleInv
  <2>6. QED
    BY <1>1, <2>5 DEF MapInv, FilesInv, LatestInv, LastInsertIsFound
<1>4. CASE GetAll \/ Next1 \/ NextAstray \/ IteratorEnds \/ UNCHANGED vars
  <2>1. /\ mapped' = mapped
        /\ pc' = pc \/ (pc \notin {"append", "link"} /\ pc' \notin {"append", "link"} /\ File # "none")
    BY <1>4 DEF GetAll, Next1, NextAstray, IteratorEnds, Rest, vars, handle, locals, MapInv,
                HandleInv
  <2>2. HandleInv'
    BY <1>1, <1>2, <2>1 DEF MapInv, HandleInv
  <2>3. QED
    BY <1>1, <2>2 DEF MapInv, FilesInv, LatestInv, LastInsertIsFound
<1>5. QED
  BY <1>3, <1>4

LEMMA MapStep ==
    ASSUME MapInv, [Next]_vars
    PROVE  MapInv'
<1>1. CASE Create
  BY <1>1, CreateStep
<1>2. CASE \E rw \in BOOLEAN : Open(rw)
  BY <1>2, OpenStep
<1>3. CASE Close
  BY <1>3, CloseStep
<1>4. CASE Crash
  BY <1>4, CrashStep
<1>5. CASE CrashInAppend
  BY <1>5, CrashInAppendStep
<1>6. CASE \E k \in Keys, v \in Values : Insert(k, v)
  BY <1>6, InsertStep
<1>7. CASE Append1
  BY <1>7, Append1Step
<1>8. CASE Link
  BY <1>8, LinkStep
<1>9. CASE Get \/ GetAll \/ Next1 \/ NextAstray \/ IteratorEnds \/ UNCHANGED vars
  BY <1>9, ReadStep
<1>10. QED
  BY <1>1, <1>2, <1>3, <1>4, <1>5, <1>6, <1>7, <1>8, <1>9 DEF Next

-----------------------------------------------------------------------------
(* The theorems.                                                            *)

\* The files on disk are well formed, DataPos is where the next record goes, and Get finds
\* in a file what was last linked in it.
THEOREM Invariance == Spec => []MapInv
<1>1. Init => MapInv
  BY InitMap
<1>2. MapInv /\ [Next]_vars => MapInv'
  BY MapStep
<1>3. QED
  BY <1>1, <1>2, PTL DEF Spec

\* Get returns the value last inserted under its key, and nothing for other keys, in a map
\* that is being written, was closed, or was left by a crash at any point of an insertion
\* and possibly appended to afterwards.
THEOREM LastInsertAlwaysFound == Spec => []LastInsertIsFound
<1>1. MapInv => LastInsertIsFound
  BY DEF MapInv
<1>2. QED
  BY <1>1, Invariance, PTL

\* Get never follows a link out of what it has mapped.
THEOREM GetStaysInMap == Spec => []ReadsAreMapped
<1>1. MapInv => ReadsAreMapped
  <2>1. SUFFICES ASSUME MapInv, pc = "ready", File # "none", NEW k \in Keys,
                        NEW i \in DOMAIN Chain(file[File], k)
                 PROVE  LET o == Chain(file[File], k)[i]
                        IN  /\ o \in DOMAIN file[File].records
                            /\ o + file[File].records[o].value - 1 <= Remapped
    BY DEF ReadsAreMapped
  <2> DEFINE f == file[File]
             o == Chain(f, k)[i]
  <2>2. File \in Names /\ DataPos = f.size + 1 /\ mapped \in 0..f.size
    BY <2>1 DEF MapInv, HandleInv
  <2>3. WellFormed(f) /\ f.size \in Nat
    BY <2>1, <2>2 DEF MapInv, FilesInv, WellFormed
  <2>4. o \in DOMAIN f.records
    BY <2>1, <2>3, ChainOfRecords
  <2>5. Remapped = f.size
    BY <2>2, <2>3 DEF Remapped
  <2> HIDE DEF f, o
  <2>6. f.records[o].value \in Nat /\ o \in Nat /\ o + f.records[o].value <= f.size + 1
    <3>1. f.records[o].value \in Values /\ o \in 1..f.size
      BY <2>3, <2>4 DEF WellFormed
    <3>2. o + f.records[o].value <= f.size + 1
      BY <2>3, <2>4 DEF WellFormed
    <3>3. f.records[o].value \in Nat
      BY <3>1, HashMapAssumption
    <3>4. o \in Nat
      BY <2>3, <3>1
    <3>5. QED
      BY <3>2, <3>3, <3>4
  <2>7. o + f.records[o].value - 1 <= Remapped
    BY <2>3, <2>5, <2>6
  <2>8. QED
    BY <2>4, <2>7 DEF f, o
<1>2. QED
  BY <1>1, Invariance, PTL

\* What is found in the file Path changes only as a whole, when a new map is closed, or for
\* the one key whose insertion links its record: never in a creation that is not closed, in
\* the append of an insertion, or in a crash.
THEOREM PathChangesAsAWhole == Spec => PathIsReplacedWhole
<1>1. ASSUME MapInv, [Next]_vars, NEW k \in Keys,
             Found(file'["Path"], k) # Found(file["Path"], k)
      PROVE  \/ File = "Path.new" /\ File' = "Path"
             \/ File = "Path" /\ pc = "link" /\ k = key
  <2>1. CASE Create
    <3>1. file'["Path"] = file["Path"]
      BY <1>1, <2>1, WriteStep, EmptyIsWellFormed DEF MapInv, Create, NewName, Names
    <3>2. QED
      BY <1>1, <3>1
  <2>2. CASE Close
    <3>1. File \in Names /\ File' = "Path"
      BY <1>1, <2>2 DEF MapInv, HandleInv, Close
    <3>2. ASSUME File = "Path" PROVE FALSE
      <4>1. file'["Path"] = file["Path"]
        BY <1>1, <2>2, <3>2, WriteStep DEF MapInv, FilesInv, Close, Names
      <4>2. QED
        BY <1>1, <4>1
    <3>3. QED
      BY <3>1, <3>2 DEF Names
  <2>3. CASE CrashInAppend \/ Append1
    BY <1>1, <2>3, CrashInAppendStep, Append1Step DEF Names
  <2>4. CASE Link
    <3>1. "Path" # File \/ k # key => Found(file'["Path"], k) = Found(file["Path"], k)
      BY <1>1, <2>4, LinkStep DEF Names
    <3>2. QED
      BY <1>1, <2>4, <3>1 DEF Link
  <2>5. CASE \/ \E rw \in BOOLEAN : Open(rw)
             \/ Crash
             \/ \E n \in Keys, v \in Values : Insert(n, v)
             \/ Get \/ GetAll \/ Next1 \/ NextAstray \/ IteratorEnds \/ UNCHANGED vars
    <3>1. file' = file
      BY <2>5 DEF Open, Crash, Insert, Get, GetAll, Next1, NextAstray, IteratorEnds, Rest, vars
    <3>2. QED
      BY <1>1, <3>1
  <2>6. QED
    BY <1>1, <2>1, <2>2, <2>3, <2>4, <2>5 DEF Next
<1>2. MapInv /\ [Next]_vars =>
         [\A k \in Keys :
             Found(file'["Path"], k) # Found(file["Path"], k) =>
                \/ File = "Path.new" /\ File' = "Path"
                \/ File = "Path" /\ pc = "link" /\ k = key]_vars
  BY <1>1
<1>3. QED
  BY <1>2, Invariance, PTL DEF Spec, PathIsReplacedWhole

-----------------------------------------------------------------------------
(* The iterator.                                                            *)

\* The value that the rest of an iteration will yield first for key k, 0 for none.
Left(k) ==
    IF Bucket[k] < CurrentBucket THEN 0
    ELSE IF Bucket[k] = CurrentBucket /\ Offset # 0 THEN At(file[File], k, Offset)
    ELSE Found(file[File], k)

\* The positions at which key k was yielded.
Of(k) == {i \in DOMAIN yielded : yielded[i][1] = k}

\* A key that was yielded was yielded with its latest value first; any other key is found
\* from where the iterator stands as it is from the front of its chain.
IterInv ==
    pc = "iterating" =>
        /\ CurrentBucket \in 0..BucketCount
        /\ yielded \in Seq(Keys \X Values)
        /\ Offset # 0 =>
              /\ Offset \in DOMAIN file[File].records
              /\ Bucket[file[File].records[Offset].key] = CurrentBucket
        /\ \A k \in Keys :
              IF Of(k) = {} THEN Left(k) = Found(file[File], k)
              ELSE /\ Found(file[File], k) # 0
                   /\ yielded[First(Of(k))][2] = Found(file[File], k)

LEMMA FirstIs ==
    ASSUME NEW S, S \subseteq Nat, S # {}
    PROVE  First(S) \in S /\ \A x \in S : First(S) <= x
BY LeastNatural DEF First

\* The record that Next1 yields is in the bucket where the iterator stands, or in the first
\* filled one behind it.
LEMMA NextRecord ==
    ASSUME MapInv, IterInv, Next1
    PROVE  /\ WellFormed(file[File])
           /\ NextBucket \in Buckets /\ CurrentBucket <= NextBucket /\ CurrentBucket \in Nat
           /\ NextAt \in DOMAIN file[File].records
           /\ Bucket[file[File].records[NextAt].key] = NextBucket
           /\ \A k \in Keys : Bucket[k] = NextBucket => Left(k) = At(file[File], k, NextAt)
           /\ \A k \in Keys : Bucket[k] # NextBucket =>
                 Left(k) = IF Bucket[k] < NextBucket THEN 0 ELSE Found(file[File], k)
<1> DEFINE f == file[File]
<1>1. pc = "iterating" /\ File \in Names
  BY DEF Next1, MapInv, HandleInv
<1>2. WellFormed(f)
  BY <1>1 DEF MapInv, FilesInv
<1>3. /\ CurrentBucket \in 0..BucketCount /\ BucketCount \in Nat
      /\ Offset # 0 => Offset \in DOMAIN f.records /\ Bucket[f.records[Offset].key] = CurrentBucket
  BY <1>1, HashMapAssumption DEF IterInv
<1>4. \A k \in Keys : /\ Bucket[k] \in Buckets
                      /\ Found(f, k) = IF f.head[Bucket[k]] = 0 THEN 0
                                       ELSE At(f, k, f.head[Bucket[k]])
  <2>1. \A k \in Keys : Bucket[k] \in Buckets
    BY HashMapAssumption DEF Buckets
  <2>2. QED
    BY <1>2, <2>1, FoundIs
<1>5. CASE Offset # 0
  <2>1. NextBucket = CurrentBucket /\ NextAt = Offset
    BY <1>5 DEF NextBucket, NextAt
  <2>2. f.records[Offset].key \in Keys
    BY <1>2, <1>3, <1>5 DEF WellFormed
  <2>3. NextBucket \in Buckets
    BY <1>3, <1>4, <1>5, <2>1, <2>2
  <2>4. \A k \in Keys : /\ Bucket[k] = CurrentBucket => Left(k) = At(f, k, Offset)
                        /\ Bucket[k] # CurrentBucket =>
                              Left(k) = IF Bucket[k] < CurrentBucket THEN 0 ELSE Found(f, k)
    BY <1>3, <1>5 DEF Left
  <2>5. QED
    BY <1>2, <1>3, <1>5, <2>1, <2>3, <2>4
<1>6. CASE Offset = 0
  <2>1. Filled(CurrentBucket) # {} /\ Filled(CurrentBucket) \subseteq Nat
    <3>1. Filled(CurrentBucket) # {}
      BY <1>6 DEF Next1, More
    <3>2. \A b \in CurrentBucket..(BucketCount - 1) : b \in Nat
      BY <1>3
    <3>3. Filled(CurrentBucket) \subseteq CurrentBucket..(BucketCount - 1)
      BY DEF Filled
    <3>4. QED
      BY <3>1, <3>2, <3>3
  <2>2. /\ NextBucket \in Filled(CurrentBucket)
        /\ \A b \in Filled(CurrentBucket) : NextBucket <= b
    BY <1>6, <2>1, FirstIs DEF NextBucket
  <2>3. NextBucket \in CurrentBucket..(BucketCount - 1) /\ f.head[NextBucket] # 0
    BY <2>2 DEF Filled
  <2>4. NextBucket \in Buckets /\ CurrentBucket <= NextBucket /\ CurrentBucket \in Nat
    BY <1>3, <2>3 DEF Buckets
  <2>5. NextAt = f.head[NextBucket]
    BY <1>6 DEF NextAt
  <2>6. NextAt \in DOMAIN f.records /\ Bucket[f.records[NextAt].key] = NextBucket
    BY <1>2, <2>3, <2>4, <2>5 DEF WellFormed
  <2>7. ASSUME NEW k \in Keys, Bucket[k] = NextBucket
        PROVE  Left(k) = At(f, k, NextAt)
    <3>1. Left(k) = Found(f, k)
      BY <1>6, <2>4, <2>7 DEF Left, Buckets
    <3>2. QED
      BY <1>4, <2>3, <2>5, <2>7, <3>1
  <2>8. ASSUME NEW k \in Keys, Bucket[k] # NextBucket
        PROVE  Left(k) = IF Bucket[k] < NextBucket THEN 0 ELSE Found(f, k)
    <3>1. Bucket[k] \in Nat /\ Bucket[k] <= BucketCount - 1
      BY <1>3, <1>4 DEF Buckets
    <3>2. NextBucket \in Nat
      BY <2>4 DEF Buckets
    <3>3. CASE Bucket[k] < CurrentBucket
      BY <2>4, <3>1, <3>2, <3>3 DEF Left
    <3>4. CASE ~ (Bucket[k] < CurrentBucket)
      <4>1. Left(k) = Found(f, k)
        BY <1>6, <3>4 DEF Left
      <4>2. ASSUME Bucket[k] < NextBucket
            PROVE  Found(f, k) = 0
        <5>1. Bucket[k] \notin Filled(CurrentBucket)
          BY <2>2, <3>1, <3>2, <4>2
        <5>2. Bucket[k] \in CurrentBucket..(BucketCount - 1)
          BY <1>3, <3>1, <3>4
        <5>3. f.head[Bucket[k]] = 0
          BY <5>1, <5>2 DEF Filled
        <5>4. QED
          BY <1>4, <5>3
      <4>3. QED
        BY <4>1, <4>2
    <3>5. QED
      BY <3>3, <3>4
  <2>9. QED
    BY <1>2, <2>4, <2>6, <2>7, <2>8
<1>7. QED
  BY <1>5, <1>6

\* One more pair at the end of what was yielded.
LEMMA YieldedIs ==
    ASSUME NEW s \in Seq(Keys \X Values), NEW y \in Keys \X Values
    PROVE  /\ Append(s, y) \in Seq(Keys \X Values)
           /\ DOMAIN Append(s, y) = DOMAIN s \cup {Len(s) + 1}
           /\ Append(s, y)[Len(s) + 1] = y
           /\ \A i \in DOMAIN s : i \in Nat /\ i < Len(s) + 1 /\ Append(s, y)[i] = s[i]
<1>1. /\ Append(s, y) \in Seq(Keys \X Values) /\ Len(Append(s, y)) = Len(s) + 1
      /\ \A i \in 1..Len(s) : Append(s, y)[i] = s[i]
      /\ Append(s, y)[Len(s) + 1] = y
  BY AppendProperties
<1>2. Len(s) \in Nat /\ DOMAIN s = 1..Len(s)
  BY LenProperties
<1>3. DOMAIN Append(s, y) = 1..(Len(s) + 1)
  BY <1>1, LenProperties
<1>4. DOMAIN Append(s, y) = DOMAIN s \cup {Len(s) + 1}
  BY <1>2, <1>3
<1>5. \A i \in DOMAIN s : i \in Nat /\ i < Len(s) + 1
  BY <1>2
<1>6. QED
  BY <1>1, <1>2, <1>4, <1>5

\* What is first yielded for a key stays so.
LEMMA FirstStays ==
    ASSUME NEW k, yielded \in Seq(Keys \X Values), NEW y \in Keys \X Values,
           yielded' = Append(yielded, y)
    PROVE  /\ Of(k) # {} =>
                 Of(k)' # {} /\ yielded'[First(Of(k)')] = yielded[First(Of(k))]
           /\ Of(k) = {} /\ y[1] # k => Of(k)' = {}
           /\ Of(k) = {} /\ y[1] = k => Of(k)' # {} /\ yielded'[First(Of(k)')] = y
<1> DEFINE n == Len(yielded) + 1
<1>1. n \in Nat
  BY LenProperties
<1>2. /\ DOMAIN yielded' = DOMAIN yielded \cup {n} /\ yielded'[n] = y
      /\ \A i \in DOMAIN yielded : i \in Nat /\ i < n /\ yielded'[i] = yielded[i]
  BY YieldedIs
<1> HIDE DEF n
<1>3. Of(k)' = {i \in DOMAIN yielded' : yielded'[i][1] = k}
  BY DEF Of
<1>4. Of(k)' = IF y[1] = k THEN Of(k) \cup {n} ELSE Of(k)
  BY <1>2, <1>3 DEF Of
<1>5. Of(k) \subseteq Nat /\ \A i \in Of(k) : i < n /\ yielded'[i] = yielded[i]
  BY <1>2 DEF Of
<1>6. ASSUME Of(k) # {}
      PROVE  Of(k)' # {} /\ yielded'[First(Of(k)')] = yielded[First(Of(k))]
  <2>1. Of(k)' \subseteq Nat /\ Of(k)' # {}
    BY <1>1, <1>4, <1>5, <1>6
  <2>2. First(Of(k)) \in Of(k) /\ \A x \in Of(k) : First(Of(k)) <= x
    BY <1>5, <1>6, FirstIs
  <2>3. \A S : S \subseteq Nat /\ S # {} => First(S) \in S /\ \A x \in S : First(S) <= x
    BY FirstIs
  <2>4. First(Of(k)') \in Of(k)' /\ \A x \in Of(k)' : First(Of(k)') <= x
    BY <2>1, <2>3
  <2>5. First(Of(k)') \in Of(k)
    <3>1. First(Of(k)') <= First(Of(k)) /\ First(Of(k)) < n
      BY <1>4, <1>5, <2>2, <2>4
    <3>2. First(Of(k)') # n
      BY <1>1, <1>5, <2>2, <3>1
    <3>3. QED
      BY <1>4, <2>4, <3>2
  <2>6. First(Of(k)') = First(Of(k))
    <3>1. First(Of(k)') <= First(Of(k)) /\ First(Of(k)) <= First(Of(k)')
      BY <1>4, <2>2, <2>4, <2>5
    <3>2. First(Of(k)) \in Nat /\ First(Of(k)') \in Nat
      BY <1>5, <2>2, <2>5
    <3>3. QED
      BY <3>1, <3>2
  <2>7. QED
    BY <1>5, <2>1, <2>2, <2>6
<1>7. ASSUME Of(k) = {}, y[1] = k
      PROVE  Of(k)' # {} /\ yielded'[First(Of(k)')] = y
  <2>1. Of(k)' = {n}
    BY <1>4, <1>7
  <2>2. \A S : S \subseteq Nat /\ S # {} => First(S) \in S
    BY FirstIs
  <2>3. First(Of(k)') = n
    BY <1>1, <2>1, <2>2
  <2>4. QED
    BY <1>2, <2>1, <2>3
<1>8. QED
  BY <1>4, <1>6, <1>7

LEMMA NextStep ==
    ASSUME MapInv, IterInv, Next1
    PROVE  IterInv'
<1> DEFINE f == file[File]
           r == f.records[NextAt]
<1>1. /\ WellFormed(f)
      /\ NextBucket \in Buckets /\ CurrentBucket <= NextBucket /\ CurrentBucket \in Nat
      /\ NextAt \in DOMAIN f.records /\ Bucket[r.key] = NextBucket
      /\ \A k \in Keys : Bucket[k] = NextBucket => Left(k) = At(f, k, NextAt)
      /\ \A k \in Keys : Bucket[k] # NextBucket =>
            Left(k) = IF Bucket[k] < NextBucket THEN 0 ELSE Found(f, k)
  BY NextRecord
<1>2. /\ pc = "iterating" /\ pc' = "iterating" /\ file' = file /\ File' = File
      /\ yielded' = Append(yielded, <<r.key, r.value>>)
      /\ Offset' = r.prev
      /\ CurrentBucket' = IF r.prev = 0 THEN NextBucket + 1 ELSE NextBucket
  BY DEF Next1, NextBucket, NextAt, NextOf, handle, locals
<1>3. /\ r.key \in Keys /\ r.value \in Values /\ r.value # 0
      /\ r.prev # 0 => /\ r.prev \in DOMAIN f.records
                       /\ Bucket[f.records[r.prev].key] = Bucket[r.key]
  BY <1>1, HashMapAssumption DEF WellFormed
<1>4. \A k \in Keys : At(f, k, NextAt) = IF r.key = k THEN r.value
                                         ELSE IF r.prev = 0 THEN 0 ELSE At(f, k, r.prev)
  BY <1>1, AtIs
<1> DEFINE y == <<r.key, r.value>>
<1>5. /\ yielded \in Seq(Keys \X Values) /\ y \in Keys \X Values /\ y[1] = r.key /\ y[2] = r.value
      /\ yielded' = Append(yielded, y)
  BY <1>2, <1>3 DEF IterInv
<1>6. BucketCount \in Nat /\ NextBucket \in Nat /\ NextBucket + 1 <= BucketCount
  BY <1>1, HashMapAssumption DEF Buckets
<1>7. CurrentBucket' \in 0..BucketCount
  BY <1>2, <1>6
<1> HIDE DEF f, r, y
<1>8. yielded' \in Seq(Keys \X Values)
  BY <1>5, YieldedIs
<1>9. file'[File'] = f
  BY <1>2 DEF f
<1>10. Offset' # 0 =>
          /\ Offset' \in DOMAIN f.records
          /\ Bucket[f.records[Offset'].key] = CurrentBucket'
  BY <1>1, <1>2, <1>3
<1>11. ASSUME NEW k \in Keys
       PROVE  IF Of(k)' = {} THEN Left(k)' = Found(f, k)
              ELSE Found(f, k) # 0 /\ yielded'[First(Of(k)')][2] = Found(f, k)
  <2>1. IF Of(k) = {} THEN Left(k) = Found(f, k)
        ELSE Found(f, k) # 0 /\ yielded[First(Of(k))][2] = Found(f, k)
    BY <1>2 DEF IterInv, f
  <2>2. /\ Of(k) # {} => Of(k)' # {} /\ yielded'[First(Of(k)')] = yielded[First(Of(k))]
        /\ Of(k) = {} /\ y[1] # k => Of(k)' = {}
        /\ Of(k) = {} /\ y[1] = k => Of(k)' # {} /\ yielded'[First(Of(k)')] = y
    BY <1>5, FirstStays
  <2>3. CASE Of(k) # {}
    BY <2>1, <2>2, <2>3
  <2>4. CASE Of(k) = {} /\ r.key = k
    <3>1. Left(k) = r.value
      BY <1>1, <1>4, <2>4
    <3>2. Found(f, k) = r.value
      BY <2>1, <2>4, <3>1
    <3>3. QED
      BY <1>3, <1>5, <2>2, <2>4, <3>2
  <2>5. CASE Of(k) = {} /\ r.key # k
    <3>1. Of(k)' = {} /\ Left(k) = Found(f, k)
      BY <1>5, <2>1, <2>2, <2>5
    <3>2. Left(k)' = IF Bucket[k] < CurrentBucket' THEN 0
                     ELSE IF Bucket[k] = CurrentBucket' /\ Offset' # 0 THEN At(f, k, Offset')
                     ELSE Found(f, k)
      BY <1>9 DEF Left
    <3>3. Bucket[k] \in Nat
      BY HashMapAssumption
    <3>4. CASE Bucket[k] = NextBucket
      <4>1. Left(k) = IF r.prev = 0 THEN 0 ELSE At(f, k, r.prev)
        BY <1>1, <1>4, <2>5, <3>4
      <4>2. r.prev = 0 => Bucket[k] < CurrentBucket'
        BY <1>2, <1>6, <3>4
      <4>3. r.prev # 0 => ~ (Bucket[k] < CurrentBucket') /\ Bucket[k] = CurrentBucket'
        BY <1>2, <1>6, <3>4
      <4>4. Left(k)' = Left(k)
        BY <1>2, <3>2, <4>1, <4>2, <4>3
      <4>5. QED
        BY <3>1, <4>4
    <3>5. CASE Bucket[k] # NextBucket
      <4>1. Left(k) = IF Bucket[k] < NextBucket THEN 0 ELSE Found(f, k)
        BY <1>1, <3>5
      <4>2. Bucket[k] < NextBucket => Bucket[k] < CurrentBucket'
        BY <1>2, <1>6, <3>3
      <4>3. ~ (Bucket[k] < NextBucket) =>
               ~ (Bucket[k] < CurrentBucket') /\ ~ (Bucket[k] = CurrentBucket' /\ Offset' # 0)
        BY <1>2, <1>6, <3>3, <3>5
      <4>4. Left(k)' = Left(k)
        BY <3>2, <4>1, <4>2, <4>3
      <4>5. QED
        BY <3>1, <4>4
    <3>6. QED
      BY <3>4, <3>5
  <2>6. QED
    BY <2>3, <2>4, <2>5
<1>12. QED
  BY <1>7, <1>8, <1>9, <1>10, <1>11 DEF IterInv

\* An iteration starts with everything left, and no step but Next1, or a Get, happens during
\* it without ending it.
LEMMA IterStep ==
    ASSUME MapInv, IterInv, [Next]_vars
    PROVE  IterInv'
<1>1. CASE GetAll
  <2>1. /\ file' = file /\ File' = File
        /\ CurrentBucket' = 0 /\ Offset' = 0 /\ yielded' = <<>>
    BY <1>1 DEF GetAll, handle
  <2>2. yielded' \in Seq(Keys \X Values) /\ \A k \in Keys : Of(k)' = {}
    BY <2>1 DEF Of
  <2>3. \A k \in Keys : Left(k)' = Found(file'[File'], k)
    <3>1. \A k \in Keys : Bucket[k] \in Nat
      BY HashMapAssumption
    <3>2. QED
      BY <2>1, <3>1 DEF Left
  <2>4. CurrentBucket' \in 0..BucketCount
    BY <2>1, HashMapAssumption
  <2>5. QED
    BY <2>1, <2>2, <2>3, <2>4 DEF IterInv
<1>2. CASE Next1
  BY <1>2, NextStep
<1>3. CASE UNCHANGED vars
  BY <1>3 DEF IterInv, Left, Of, vars, handle, locals, iterator
<1>6. CASE Get
  BY <1>6 DEF Get, IterInv, Left, Of, locals
<1>4. CASE \/ Create \/ \E rw \in BOOLEAN : Open(rw)
           \/ Close \/ Crash \/ CrashInAppend
           \/ \E k \in Keys, v \in Values : Insert(k, v)
           \/ Append1 \/ Link \/ NextAstray \/ IteratorEnds
  <2>1. pc' # "iterating"
    BY <1>4 DEF MapInv, HandleInv, Create, Open, Restart, Close, Crash, CrashInAppend, Gone,
                Insert, Append1, Link, NextAstray, IteratorEnds, Rest, locals
  <2>2. QED
    BY <2>1 DEF IterInv
<1>5. QED
  BY <1>1, <1>2, <1>3, <1>4, <1>6 DEF Next

\* An iteration over a map, also one made after insertions, that reaches its end without
\* going astray behind the mapping returned every key that was inserted, its latest value
\* first, and no other key, whatever the buckets and the lengths of the chains.
THEOREM IterationFindsEveryKey == Spec => []IterationFindsAll
<1>1. Init => IterInv
  BY DEF Init, IterInv
<1>2. MapInv /\ IterInv /\ [Next]_vars => IterInv'
  BY IterStep
<1>3. MapInv /\ IterInv => IterationFindsAll
  <2>1. SUFFICES ASSUME MapInv, IterInv, pc = "iterating", Offset = 0,
                        Filled(CurrentBucket) = {}, NEW k \in Keys
                 PROVE  IF latest[File][k] = 0 THEN Of(k) = {}
                        ELSE Of(k) # {} /\ yielded[First(Of(k))][2] = latest[File][k]
    BY DEF IterationFindsAll, More, Of
  <2>2. File \in Names /\ File \in exists
    BY <2>1 DEF MapInv, HandleInv
  <2>3. WellFormed(file[File]) /\ Found(file[File], k) = latest[File][k]
    <3>1. FilesInv /\ LastInsertIsFound
      BY <2>1 DEF MapInv
    <3>2. WellFormed(file[File])
      BY <2>2, <3>1 DEF FilesInv
    <3>3. Found(file[File], k) = latest[File][k]
      BY <2>2, <3>1 DEF LastInsertIsFound
    <3>4. QED
      BY <3>2, <3>3
  <2>4. Left(k) = 0
    <3>1. Bucket[k] \in Nat /\ Bucket[k] <= BucketCount - 1 /\ BucketCount \in Nat
      BY HashMapAssumption
    <3>2. CurrentBucket \in Nat
      BY <2>1, <3>1 DEF IterInv
    <3>3. ASSUME ~ (Bucket[k] < CurrentBucket)
          PROVE  Found(file[File], k) = 0
      <4>1. Bucket[k] \in CurrentBucket..(BucketCount - 1)
        BY <3>1, <3>2, <3>3
      <4>2. file[File].head[Bucket[k]] = 0
        BY <2>1, <4>1 DEF Filled
      <4>3. QED
        BY <2>3, <4>2, FoundIs
    <3>4. QED
      BY <2>1, <3>3 DEF Left
  <2>5. IF Of(k) = {} THEN Left(k) = Found(file[File], k)
        ELSE /\ Found(file[File], k) # 0
             /\ yielded[First(Of(k))][2] = Found(file[File], k)
    BY <2>1 DEF IterInv
  <2>6. QED
    BY <2>3, <2>4, <2>5
<1>4. QED
  BY <1>1, <1>2, <1>3, Invariance, PTL DEF Spec
=============================================================================
