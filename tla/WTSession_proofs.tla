--------------------------- MODULE WTSession_proofs ---------------------------
(***************************************************************************)
(* Proofs about WTTransaction and WTSession.  First the transactions alone, *)
(* for every number of handles, transactions and failures, when handles     *)
(* are used like the frames of a stack.  Then the session: its transactions *)
(* keep their invariants, what they do to the table is what                 *)
(* TransactionalStore promises, and the WT_SESSION lives as long as it is   *)
(* needed.                                                                  *)
(***************************************************************************)
EXTENDS WTSession, FiniteSetTheorems, SequenceTheorems, WellFoundedInduction, TLAPS

-----------------------------------------------------------------------------
(* The transactions.                                                        *)

Handle == [impl : Impls, committed : BOOLEAN]
ImplRecord == [failed : Nat, committed : BOOLEAN, deleted : BOOLEAN]

Undecided == {k \in DOMAIN handles : ~handles[k].committed}

(***************************************************************************)
(* The inductive invariant.                                                *)
(***************************************************************************)

\* The undecided handles are those of the current Impl, and the handles of an
\* older Impl were made before them.
ImplsInv ==
    /\ transaction = Len(impls) /\ Len(outcomes) = Len(impls)
    /\ \A k \in Undecided : handles[k].impl = transaction
    /\ \A j, k \in DOMAIN handles : j < k => handles[j].impl <= handles[k].impl

\* A handle that has committed has a younger one on the same Impl only while an
\* older one is still undecided: what it counted down was not the last.
NestingInv ==
    \A j, k \in DOMAIN handles :
        j < k /\ handles[j].impl = handles[k].impl /\ handles[j].committed
            => \E i \in Undecided : i < j

\* An Impl with live handles has run its Commit exactly if it is not the one of an open
\* transaction.
CommitInv ==
    \A k \in DOMAIN handles :
        impls[handles[k].impl].committed <=> ~(handles[k].impl = transaction /\ active > 0)

IInv ==
    /\ TypeOK /\ ImplsInv /\ NestingInv /\ CommitInv
    /\ ImplDiesWithLastHandle /\ CounterIsPending

-----------------------------------------------------------------------------
(* What the three changes of the handles do to those that are undecided.    *)

LEMMA UndecidedIsCounted ==
    ASSUME TypeOK
    PROVE  /\ IsFiniteSet(Undecided) /\ Cardinality(Undecided) \in Nat
           /\ Cardinality(Undecided) = 0 <=> Undecided = {}
           /\ DOMAIN handles = 1..Len(handles) /\ Len(handles) \in Nat
           /\ handles # << >> => Len(handles) \in DOMAIN handles
<1>1. /\ DOMAIN handles = 1..Len(handles) /\ Len(handles) \in Nat
      /\ handles # << >> => Len(handles) \in DOMAIN handles
  <2>1. handles \in Seq([impl : Impls, committed : BOOLEAN])
    BY DEF TypeOK
  <2>2. handles # << >> => Len(handles) \in Nat \ {0}
    BY <2>1, EmptySeq
  <2>3. QED
    BY <2>1, <2>2, LenProperties
<1>2. Undecided \subseteq 1..Len(handles) /\ IsFiniteSet(1..Len(handles))
  BY <1>1, FS_Interval DEF Undecided
<1>3. IsFiniteSet(Undecided)
  BY <1>2, FS_Subset
<1>4. QED
  BY <1>1, <1>3, FS_CardinalityType, FS_EmptySet

\* A new handle is the youngest, and undecided.
LEMMA NewHandle ==
    ASSUME TypeOK, NEW i \in Nat,
           handles' = Append(handles, [impl |-> i, committed |-> FALSE])
    PROVE  /\ DOMAIN handles' = 1..(Len(handles) + 1)
           /\ \A k \in DOMAIN handles : handles'[k] = handles[k]
           /\ handles'[Len(handles) + 1] = [impl |-> i, committed |-> FALSE]
           /\ Undecided' = Undecided \cup {Len(handles) + 1}
           /\ Cardinality(Undecided') = Cardinality(Undecided) + 1
<1>1. /\ handles \in Seq([impl : Nat, committed : BOOLEAN])
      /\ [impl |-> i, committed |-> FALSE] \in [impl : Nat, committed : BOOLEAN]
  <2>1. [impl : Impls, committed : BOOLEAN] \subseteq [impl : Nat, committed : BOOLEAN]
    BY DEF Impls
  <2>2. QED
    BY <2>1, SeqMonotonic DEF TypeOK
<1>2. /\ DOMAIN handles' = 1..(Len(handles) + 1) /\ DOMAIN handles = 1..Len(handles)
      /\ Len(handles) \in Nat
      /\ \A k \in DOMAIN handles : handles'[k] = handles[k]
      /\ handles'[Len(handles) + 1] = [impl |-> i, committed |-> FALSE]
  BY <1>1
<1>3. Undecided' = Undecided \cup {Len(handles) + 1} /\ Len(handles) + 1 \notin Undecided
  BY <1>2 DEF Undecided
<1>4. Cardinality(Undecided') = Cardinality(Undecided) + 1
  BY <1>3, UndecidedIsCounted, FS_AddElement
<1>5. QED
  BY <1>2, <1>3, <1>4

\* The youngest handle commits.
LEMMA HandleCommits ==
    ASSUME TypeOK, NEW n \in DOMAIN handles, ~handles[n].committed,
           handles' = [handles EXCEPT ![n].committed = TRUE]
    PROVE  /\ DOMAIN handles' = DOMAIN handles
           /\ \A k \in DOMAIN handles : handles'[k].impl = handles[k].impl
           /\ \A k \in DOMAIN handles : handles'[k].committed <=> handles[k].committed \/ k = n
           /\ Undecided' = Undecided \ {n} /\ n \in Undecided
           /\ Cardinality(Undecided') = Cardinality(Undecided) - 1
<1>1. handles \in [DOMAIN handles -> [impl : Impls, committed : BOOLEAN]]
  BY LenProperties DEF TypeOK
<1>2. /\ DOMAIN handles' = DOMAIN handles
      /\ \A k \in DOMAIN handles : handles'[k].impl = handles[k].impl
      /\ \A k \in DOMAIN handles : handles'[k].committed <=> handles[k].committed \/ k = n
  BY <1>1
<1>3. Undecided' = Undecided \ {n} /\ n \in Undecided
  BY <1>2 DEF Undecided
<1>4. Cardinality(Undecided') = Cardinality(Undecided) - 1
  BY <1>3, UndecidedIsCounted, FS_RemoveElement
<1>5. QED
  BY <1>2, <1>3, <1>4

\* The youngest handle dies.
LEMMA HandleDies ==
    ASSUME TypeOK, handles # << >>, handles' = Without(Len(handles))
    PROVE  /\ DOMAIN handles' = 1..(Len(handles) - 1) /\ Len(handles) \in DOMAIN handles
           /\ handles' \in Seq([impl : Impls, committed : BOOLEAN])
           /\ \A k \in DOMAIN handles' : handles'[k] = handles[k] /\ k \in DOMAIN handles
           /\ Undecided' = Undecided \ {Len(handles)}
           /\ Cardinality(Undecided') =
                 Cardinality(Undecided) - (IF handles[Len(handles)].committed THEN 0 ELSE 1)
<1> DEFINE n == Len(handles)
           H == [impl : Impls, committed : BOOLEAN]
<1>1. handles \in Seq(H) /\ n \in Nat \ {0} /\ DOMAIN handles = 1..n
  <2>1. handles \in Seq(H)
    BY DEF TypeOK
  <2>2. QED
    BY <2>1, LenProperties, EmptySeq
<1>2. SubSeq(handles, n + 1, n) = << >>
  BY <1>1, SubSeqEmpty
<1>3. /\ SubSeq(handles, 1, n - 1) \in Seq(H) /\ Len(SubSeq(handles, 1, n - 1)) = n - 1
      /\ \A k \in 1..(n - 1) : SubSeq(handles, 1, n - 1)[k] = handles[k]
  <2>1. \A k \in 1..(n - 1) : handles[k] \in H
    <3>1. handles \in [1..n -> H]
      BY <1>1, LenProperties
    <3>2. QED
      BY <1>1, <3>1
  <2>2. QED
    BY <1>1, <2>1, SubSeqProperties
<1>4. handles' = SubSeq(handles, 1, n - 1)
  BY <1>2, <1>3, ConcatEmptySeq DEF Without
<1>5. /\ DOMAIN handles' = 1..(n - 1) /\ n \in DOMAIN handles
      /\ \A k \in DOMAIN handles' : handles'[k] = handles[k] /\ k \in DOMAIN handles
  BY <1>1, <1>3, <1>4
<1>6. Undecided' = Undecided \ {n}
  BY <1>1, <1>5 DEF Undecided
<1>7. n \in Undecided <=> ~handles[n].committed
  BY <1>5 DEF Undecided
<1>8. Cardinality(Undecided') = Cardinality(Undecided) - (IF handles[n].committed THEN 0 ELSE 1)
  <2>1. IsFiniteSet(Undecided) /\ Cardinality(Undecided) \in Nat
    BY UndecidedIsCounted
  <2>2. Cardinality(Undecided \ {n}) =
           IF n \in Undecided THEN Cardinality(Undecided) - 1 ELSE Cardinality(Undecided)
    BY <2>1, FS_RemoveElement
  <2>3. QED
    BY <1>6, <1>7, <2>1, <2>2
<1>9. QED
  BY <1>3, <1>4, <1>5, <1>6, <1>8

-----------------------------------------------------------------------------
(* Consequences of the invariant.                                           *)

\* The handles that are alive refer to Impls that are not deleted, and the counter of
\* the session is zero exactly when all of them have committed.
LEMMA InvFacts ==
    ASSUME IInv
    PROVE  /\ aborted = FALSE
           /\ (active = 0 => engine = FALSE) /\ (active > 0 => engine = TRUE)
           /\ active = Cardinality(Undecided) /\ active \in Nat /\ (active = 0 \/ active > 0)
           /\ (active = 0 <=> Undecided = {})
           /\ transaction \in Nat /\ transaction = Len(impls) /\ Impls = 1..transaction
           /\ DOMAIN impls = Impls /\ Len(outcomes) = transaction
           /\ DOMAIN handles = 1..Len(handles) /\ Len(handles) \in Nat
           /\ \A k \in DOMAIN handles :
                 /\ handles[k] \in [impl : Impls, committed : BOOLEAN]
                 /\ handles[k].impl \in Impls /\ handles[k].committed \in BOOLEAN
                 /\ ~impls[handles[k].impl].deleted
           /\ \A i \in Impls : impls[i] \in ImplRecord
           /\ (active > 0 => transaction \in Impls)
<1>1. /\ aborted = FALSE /\ active = Cardinality(Undecided)
      /\ (active = 0 => engine = FALSE) /\ (active > 0 => engine = TRUE)
  <2>1. engine \in BOOLEAN /\ aborted \in BOOLEAN
    BY DEF IInv, TypeOK
  <2>2. ~aborted /\ (engine <=> active > 0)
    BY DEF IInv, CounterIsPending
  <2>3. active = Cardinality(Undecided)
    BY DEF IInv, CounterIsPending, Undecided
  <2>4. QED
    BY <2>1, <2>2, <2>3
<1>2. /\ active \in Nat /\ (active = 0 <=> Undecided = {})
      /\ DOMAIN handles = 1..Len(handles) /\ Len(handles) \in Nat
  BY <1>1, UndecidedIsCounted DEF IInv
<1>3. /\ transaction \in Nat /\ transaction = Len(impls) /\ Impls = 1..transaction
      /\ DOMAIN impls = Impls /\ impls \in [Impls -> ImplRecord]
      /\ Len(outcomes) = transaction
  <2>1. impls \in Seq(ImplRecord)
    BY DEF IInv, TypeOK, ImplRecord
  <2>2. QED
    BY <2>1, LenProperties DEF IInv, ImplsInv, Impls
<1>4. \A k \in DOMAIN handles : handles[k] \in [impl : Impls, committed : BOOLEAN]
  <2>1. handles \in [1..Len(handles) -> [impl : Impls, committed : BOOLEAN]]
    BY LenProperties DEF IInv, TypeOK
  <2>2. QED
    BY <1>2, <2>1
<1>5. \A k \in DOMAIN handles :
         handles[k].impl \in Impls /\ handles[k].committed \in BOOLEAN
  BY <1>4
<1>6. \A k \in DOMAIN handles : ~impls[handles[k].impl].deleted
  BY <1>5 DEF IInv, ImplDiesWithLastHandle
<1>7. active > 0 => transaction \in Impls
  BY <1>1, <1>2, <1>3, <1>5 DEF IInv, ImplsInv, Undecided
<1>8. QED
  BY <1>1, <1>2, <1>3, <1>4, <1>5, <1>6, <1>7

\* When no handle is undecided but perhaps the youngest, no other handle is on its Impl.
LEMMA LastIsAlone ==
    ASSUME IInv, handles # << >>, Undecided \subseteq {Len(handles)}
    PROVE  \A k \in DOMAIN handles :
               handles[k].impl = handles[Len(handles)].impl => k = Len(handles)
<1> DEFINE n == Len(handles)
<1>1. n \in DOMAIN handles /\ DOMAIN handles = 1..n /\ n \in Nat
  BY UndecidedIsCounted DEF IInv
<1>2. SUFFICES ASSUME NEW k \in DOMAIN handles, handles[k].impl = handles[n].impl, k # n
               PROVE  FALSE
  OBVIOUS
<1>3. k < n /\ handles[k].committed
  BY <1>1, <1>2, InvFacts DEF Undecided
<1>4. PICK i \in Undecided : i < k
  BY <1>1, <1>2, <1>3 DEF IInv, NestingInv
<1>5. QED
  BY <1>1, <1>3, <1>4

\* Another undecided handle is on the Impl of the youngest.
LEMMA OthersShareTheImpl ==
    ASSUME IInv, handles # << >>, NEW j \in Undecided
    PROVE  handles[j].impl = transaction /\ handles[Len(handles)].impl = transaction
<1> DEFINE n == Len(handles)
<1>1. n \in DOMAIN handles /\ DOMAIN handles = 1..n /\ n \in Nat /\ j \in DOMAIN handles
  BY UndecidedIsCounted DEF IInv, Undecided
<1>2. handles[j].impl = transaction
  BY DEF IInv, ImplsInv
<1>3. handles[n].impl <= transaction /\ handles[n].impl \in Nat /\ transaction \in Nat
  BY <1>1, InvFacts
<1>4. handles[j].impl <= handles[n].impl
  BY <1>1, <1>2, <1>3 DEF IInv, ImplsInv
<1>5. QED
  BY <1>2, <1>3, <1>4

-----------------------------------------------------------------------------
(* Each action keeps the invariant.                                         *)

\* What Begin and Copy do: a new handle on Impl i, which is the current one of an open
\* transaction, or a new one.
LEMMA JoinStep ==
    ASSUME IInv, TypeOK', NEW i \in Nat,
           handles' = Append(handles, [impl |-> i, committed |-> FALSE]),
           active' = active + 1, engine' = TRUE, aborted' = FALSE,
           transaction' = i, Len(impls') = i, Len(outcomes') = i,
           IF active > 0 THEN i = transaction ELSE i = transaction + 1,
           \A j \in Impls : impls'[j] = impls[j],
           ~impls'[i].committed, ~impls'[i].deleted
    PROVE  IInv'
<1> DEFINE n == Len(handles)
<1>1. /\ DOMAIN handles' = 1..(n + 1) /\ DOMAIN handles = 1..n /\ n \in Nat
      /\ \A k \in 1..n : handles'[k] = handles[k]
      /\ handles'[n + 1] = [impl |-> i, committed |-> FALSE]
      /\ handles'[n + 1].impl = i /\ ~handles'[n + 1].committed
      /\ Undecided' = Undecided \cup {n + 1}
      /\ Cardinality(Undecided') = Cardinality(Undecided) + 1
  BY NewHandle, InvFacts DEF IInv
<1>2. CounterIsPending'
  <2>1. active' = Cardinality(Undecided') /\ active' > 0
    BY <1>1, InvFacts
  <2>2. QED
    BY <2>1 DEF CounterIsPending, Undecided
<1>3. /\ Impls' = 1..i /\ Impls = 1..transaction /\ transaction \in Nat
      /\ transaction <= i /\ i \in Impls'
      /\ (active > 0 => transaction \in Impls)
  BY InvFacts DEF Impls
<1>4. \A k \in 1..n : handles[k].impl \in Impls /\ handles[k].impl <= i
  BY <1>1, <1>3, InvFacts
<1>5. \A k \in Undecided' : handles'[k].impl = i
  <2>1. CASE active > 0
    BY <1>1, <2>1, InvFacts DEF IInv, ImplsInv, Undecided
  <2>2. CASE active = 0
    BY <1>1, <2>2, InvFacts
  <2>3. active = 0 \/ active > 0
    BY InvFacts
  <2>4. QED
    BY <2>1, <2>2, <2>3
<1>6. ImplsInv'
  <2>1. ASSUME NEW j \in DOMAIN handles', NEW k \in DOMAIN handles', j < k
        PROVE  handles'[j].impl <= handles'[k].impl
    <3>1. CASE k = n + 1
      BY <1>1, <1>4, <2>1, <3>1
    <3>2. CASE k # n + 1
      BY <1>1, <2>1, <3>2 DEF IInv, ImplsInv
    <3>3. QED
      BY <3>1, <3>2
  <2>2. QED
    BY <1>5, <2>1 DEF ImplsInv
<1>7. NestingInv'
  <2>1. SUFFICES ASSUME NEW j \in DOMAIN handles', NEW k \in DOMAIN handles', j < k,
                        handles'[j].impl = handles'[k].impl, handles'[j].committed
                 PROVE  \E u \in Undecided' : u < j
    BY DEF NestingInv
  <2>2. j \in 1..n /\ handles[j].committed /\ handles[j].impl = handles'[k].impl
    BY <1>1, <2>1
  <2>3. CASE k # n + 1
    <3>1. k \in 1..n
      BY <1>1, <2>3
    <3>2. \E u \in Undecided : u < j
      BY <1>1, <2>1, <2>2, <3>1 DEF IInv, NestingInv
    <3>3. QED
      BY <1>1, <3>2
  <2>4. CASE k = n + 1
    <3>1. handles[j].impl = i
      BY <1>1, <2>2, <2>4
    <3>2. active > 0 /\ i = transaction
      BY <1>3, <1>4, <2>2, <3>1, InvFacts
    <3>3. PICK u \in Undecided : TRUE
      BY <3>2, InvFacts
    <3>4. u \in 1..n /\ handles[u].impl = i /\ u # j
      BY <1>1, <2>2, <3>2, <3>3 DEF IInv, ImplsInv, Undecided
    <3>5. CASE u < j
      BY <1>1, <3>5
    <3>6. CASE j < u
      <4>1. \E v \in Undecided : v < j
        BY <1>1, <2>2, <3>1, <3>4, <3>6 DEF IInv, NestingInv
      <4>2. QED
        BY <1>1, <4>1
    <3>7. QED
      BY <2>2, <3>4, <3>5, <3>6
  <2>5. QED
    BY <2>3, <2>4
<1>8. CommitInv'
  <2>1. active' > 0
    BY InvFacts
  <2>2. ASSUME NEW k \in 1..n
        PROVE  impls'[handles'[k].impl].committed <=> handles'[k].impl # i
    <3>1. handles'[k].impl = handles[k].impl /\ handles[k].impl \in Impls
          /\ impls'[handles[k].impl] = impls[handles[k].impl]
      BY <1>1, <1>4
    <3>2. CASE handles[k].impl = i
      BY <3>1, <3>2
    <3>3. CASE handles[k].impl # i
      BY <1>1, <1>3, <3>1, <3>3, InvFacts DEF IInv, CommitInv
    <3>4. QED
      BY <3>2, <3>3
  <2>3. ASSUME NEW k \in DOMAIN handles'
        PROVE  impls'[handles'[k].impl].committed <=> handles'[k].impl # i
    BY <1>1, <2>2
  <2>4. QED
    BY <2>1, <2>3 DEF CommitInv
<1>9. ImplDiesWithLastHandle'
  <2>1. SUFFICES ASSUME NEW j \in Impls'
                 PROVE  impls'[j].deleted <=> \A k \in DOMAIN handles' : handles'[k].impl # j
    BY DEF ImplDiesWithLastHandle
  <2>2. CASE j = i
    BY <1>1, <2>2
  <2>3. CASE j # i
    <3>1. j \in Impls
      BY <1>3, <2>3, InvFacts
    <3>2. (\A k \in DOMAIN handles' : handles'[k].impl # j)
             <=> \A k \in DOMAIN handles : handles[k].impl # j
      BY <1>1, <2>3
    <3>3. QED
      BY <3>1, <3>2 DEF IInv, ImplDiesWithLastHandle
  <2>4. QED
    BY <2>2, <2>3
<1>10. QED
  BY <1>2, <1>6, <1>7, <1>8, <1>9 DEF IInv

\* A new handle of the open transaction.
LEMMA JoinOpenStep ==
    ASSUME IInv, active > 0, active' = active + 1, transaction \in Impls,
           UNCHANGED <<impls, transaction, engine, aborted, outcomes>>,
           handles' = Append(handles, [impl |-> transaction, committed |-> FALSE]),
           ~impls[transaction].committed, ~impls[transaction].deleted
    PROVE  IInv'
<1> DEFINE H == [impl : Impls, committed : BOOLEAN]
<1>1. /\ transaction \in Nat /\ transaction = Len(impls) /\ transaction = Len(outcomes)
      /\ active \in Nat /\ engine = TRUE /\ aborted = FALSE
  BY InvFacts
<1>2. handles \in Seq(H) /\ [impl |-> transaction, committed |-> FALSE] \in H
  BY DEF IInv, TypeOK
<1>3. handles' \in Seq(H)
  BY <1>2, AppendProperties
<1>4. Impls' = Impls
  BY DEF Impls
<1>5. TypeOK'
  <2>1. active' \in Nat
    BY <1>1
  <2>2. TypeOK
    BY DEF IInv
  <2>3. QED
    BY <1>3, <1>4, <2>1, <2>2 DEF TypeOK
<1>6. QED
  BY <1>1, <1>5, JoinStep

LEMMA BeginStep ==
    ASSUME IInv, Begin
    PROVE  IInv'
<1> DEFINE new == [failed |-> 0, committed |-> FALSE, deleted |-> FALSE]
           Ends == {"open", "committed", "rolled back"}
<1>1. /\ impls \in Seq(ImplRecord) /\ transaction = Len(impls) /\ transaction \in Nat
      /\ Impls = 1..transaction
  BY InvFacts DEF IInv, TypeOK, ImplRecord
<1>2. outcomes \in Seq(Ends)
  BY DEF IInv, TypeOK
<1>3. Len(outcomes) = transaction
  BY InvFacts
<1>4. handles \in Seq([impl : Impls, committed : BOOLEAN])
  BY DEF IInv, TypeOK
<1>5. active' = active + 1 /\ active \in Nat
  BY InvFacts DEF Begin
<1>6. CASE active = 0
  <2>1. engine' = TRUE /\ aborted' = FALSE
    <3>1. engine = FALSE
      BY <1>6, InvFacts
    <3>2. QED
      BY <1>6, <3>1 DEF Begin
  <2>2. /\ impls' = Append(impls, new) /\ new \in ImplRecord
    BY <1>6 DEF Begin, ImplRecord
  <2>3. transaction' = transaction + 1
    BY <1>1, <1>6 DEF Begin
  <2>4. outcomes' = Append(outcomes, "open")
    BY <1>6 DEF Begin
  <2>5. handles' = Append(handles, [impl |-> transaction', committed |-> FALSE])
    BY DEF Begin
  <2>6. /\ impls' \in Seq(ImplRecord) /\ Len(impls') = transaction'
        /\ \A j \in Impls : impls'[j] = impls[j]
        /\ impls'[transaction'] = new
    <3>1. /\ impls' \in Seq(ImplRecord) /\ Len(impls') = transaction + 1
          /\ \A j \in Impls : impls'[j] = impls[j]
          /\ impls'[transaction + 1] = new
      BY <1>1, <2>2
    <3>2. QED
      BY <2>3, <3>1
  <2>7. outcomes' \in Seq(Ends) /\ Len(outcomes') = transaction'
    <3>1. outcomes' \in Seq(Ends) /\ Len(outcomes') = Len(outcomes) + 1
      <4>1. "open" \in Ends
        OBVIOUS
      <4>2. QED
        BY <1>2, <2>4, <4>1, AppendProperties
    <3>2. QED
      BY <1>3, <2>3, <3>1
  <2>8. Impls \subseteq Impls' /\ transaction' \in Impls' /\ transaction' \in Nat
    BY <1>1, <2>3, <2>6 DEF Impls
  <2>9. handles' \in Seq([impl : Impls', committed : BOOLEAN])
    <3>1. [impl : Impls, committed : BOOLEAN] \subseteq [impl : Impls', committed : BOOLEAN]
      BY <2>8
    <3>2. handles \in Seq([impl : Impls', committed : BOOLEAN])
      BY <1>4, <3>1, SeqMonotonic
    <3>3. [impl |-> transaction', committed |-> FALSE] \in [impl : Impls', committed : BOOLEAN]
      BY <2>8
    <3>4. QED
      BY <2>5, <3>2, <3>3, AppendProperties
  <2>10. TypeOK'
    <3>1. active' \in Nat
      BY <1>5
    <3>2. transaction' \in 0..Len(impls')
      BY <2>6, <2>8
    <3>3. QED
      BY <2>1, <2>6, <2>7, <2>9, <3>1, <3>2 DEF TypeOK, ImplRecord
  <2>11. ~(active > 0) /\ ~impls'[transaction'].committed /\ ~impls'[transaction'].deleted
    BY <1>6, <2>6
  <2>12. QED
    BY <1>5, <2>1, <2>3, <2>5, <2>6, <2>7, <2>8, <2>10, <2>11, JoinStep
<1>7. CASE active > 0
  <2>1. PICK k \in Undecided : TRUE
    BY <1>7, InvFacts
  <2>2. k \in DOMAIN handles /\ handles[k].impl = transaction /\ transaction \in Impls
    BY <1>7, InvFacts DEF IInv, ImplsInv, Undecided
  <2>3. ~impls[transaction].committed /\ ~impls[transaction].deleted
    BY <1>7, <2>2, InvFacts DEF IInv, CommitInv
  <2>4. active # 0
    BY <1>5, <1>7
  <2>5. /\ UNCHANGED <<impls, transaction, engine, aborted, outcomes>>
        /\ handles' = Append(handles, [impl |-> transaction, committed |-> FALSE])
    BY <2>4 DEF Begin
  <2>6. QED
    BY <1>5, <1>7, <2>2, <2>3, <2>5, JoinOpenStep
<1>8. QED
  BY <1>6, <1>7, InvFacts

LEMMA CopyStep ==
    ASSUME IInv, Scoped, NEW k \in 1..MaxHandles, Copy(k)
    PROVE  IInv'
<1>1. k \in Undecided /\ handles[k].impl = transaction /\ k \in DOMAIN handles
  BY DEF Copy, InScope, Undecided, IInv, ImplsInv
<1>2. active > 0 /\ active \in Nat /\ transaction \in Impls
  BY <1>1, InvFacts
<1>3. /\ UNCHANGED <<impls, transaction, engine, aborted, outcomes>>
      /\ handles' = Append(handles, [impl |-> transaction, committed |-> FALSE])
      /\ active' = active + 1
  BY <1>1 DEF Copy
<1>4. ~impls[transaction].committed /\ ~impls[transaction].deleted
  BY <1>1, <1>2, InvFacts DEF IInv, CommitInv
<1>5. QED
  BY <1>2, <1>3, <1>4, JoinOpenStep

LEMMA CommitStep ==
    ASSUME IInv, Scoped, NEW n \in 1..MaxHandles, Commit(n)
    PROVE  IInv'
<1>1. /\ n = Len(handles) /\ n \in Undecided /\ n \in DOMAIN handles
      /\ ~handles[n].committed
      /\ handles' = [handles EXCEPT ![n].committed = TRUE]
      /\ transaction' = transaction
  <2>1. InScope(n) /\ ~handles[n].committed /\ transaction' = transaction
        /\ handles' = [handles EXCEPT ![n].committed = TRUE]
    BY DEF Commit
  <2>2. n = Len(handles) /\ n \in DOMAIN handles
    BY <2>1 DEF InScope
  <2>3. QED
    BY <2>1, <2>2 DEF Undecided
<1>2. /\ handles[n].impl = transaction /\ active > 0 /\ active \in Nat
      /\ transaction \in Impls /\ transaction \in Nat /\ DOMAIN handles = 1..n
      /\ engine = TRUE /\ aborted = FALSE
  BY <1>1, InvFacts DEF IInv, ImplsInv
<1>3. /\ DOMAIN handles' = DOMAIN handles
      /\ \A k \in DOMAIN handles : handles'[k].impl = handles[k].impl
      /\ \A k \in DOMAIN handles : handles'[k].committed <=> handles[k].committed \/ k = n
      /\ Undecided' = Undecided \ {n}
      /\ Cardinality(Undecided') = Cardinality(Undecided) - 1
  BY <1>1, HandleCommits DEF IInv
<1>4. /\ active' = active - 1
      /\ impls' = [impls EXCEPT ![transaction].committed = (active = 1)]
  BY <1>2 DEF Commit
<1>5. /\ Len(outcomes') = Len(outcomes) /\ outcomes' \in Seq({"open", "committed", "rolled back"})
      /\ aborted' = FALSE
      /\ active = 1 => engine' = FALSE
      /\ active # 1 => engine' = TRUE
  <2>1. outcomes \in Seq({"open", "committed", "rolled back"})
    BY DEF IInv, TypeOK
  <2>2. CASE active = 1
    <3>1. PICK result \in {"committed", "rolled back"} : Finish(transaction, result)
      BY <1>2, <2>2 DEF Commit
    <3>2. engine' = FALSE /\ aborted' = FALSE
      BY <1>2, <3>1 DEF Finish
    <3>3. outcomes' = [outcomes EXCEPT ![transaction] = result]
      BY <3>1 DEF Finish
    <3>4. transaction \in 1..Len(outcomes)
      BY <1>2, InvFacts
    <3>5. result \in {"open", "committed", "rolled back"}
      OBVIOUS
    <3>6. /\ Len(outcomes') = Len(outcomes)
          /\ outcomes' \in Seq({"open", "committed", "rolled back"})
      <4> DEFINE Ends == {"open", "committed", "rolled back"}
      <4>1. outcomes \in Seq(Ends) /\ result \in Ends
        BY <2>1
      <4> HIDE DEF Ends
      <4>2. outcomes' \in Seq(Ends) /\ Len(outcomes') = Len(outcomes)
        BY <3>3, <3>4, <4>1, ExceptSeq
      <4>3. QED
        BY <4>2 DEF Ends
    <3>7. QED
      BY <2>2, <3>2, <3>6
  <2>3. CASE active # 1
    <3>1. UNCHANGED <<engine, outcomes, aborted>>
      BY <1>2, <2>3 DEF Commit
    <3>2. QED
      BY <1>2, <2>1, <2>3, <3>1
  <2>4. QED
    BY <2>2, <2>3
<1>6. /\ impls' \in Seq(ImplRecord) /\ Len(impls') = Len(impls) /\ Impls' = Impls
      /\ \A i \in Impls : impls'[i].deleted = impls[i].deleted
      /\ \A i \in Impls : i # transaction => impls'[i] = impls[i]
      /\ impls'[transaction].committed <=> active = 1
  <2>1. impls \in Seq(ImplRecord) /\ transaction \in 1..Len(impls) /\ impls[transaction] \in ImplRecord
    BY <1>2, InvFacts DEF IInv, TypeOK, ImplRecord, Impls
  <2>2. [impls[transaction] EXCEPT !.committed = (active = 1)] \in ImplRecord
    BY <2>1 DEF ImplRecord
  <2>3. impls' = [impls EXCEPT ![transaction] = [impls[transaction] EXCEPT !.committed = (active = 1)]]
    BY <1>4
  <2>4. /\ impls' \in Seq(ImplRecord) /\ Len(impls') = Len(impls)
        /\ \A i \in 1..Len(impls) :
              impls'[i] = IF i = transaction
                          THEN [impls[transaction] EXCEPT !.committed = (active = 1)]
                          ELSE impls[i]
    BY <2>1, <2>2, <2>3, ExceptSeq
  <2>5. QED
    BY <1>2, <2>1, <2>4 DEF Impls, ImplRecord
<1>7. TypeOK'
  <2>1. handles' \in Seq([impl : Impls', committed : BOOLEAN])
    <3>1. handles \in Seq([impl : Impls, committed : BOOLEAN]) /\ handles[n] \in [impl : Impls, committed : BOOLEAN]
      BY <1>1, InvFacts DEF IInv, TypeOK
    <3>2. [handles[n] EXCEPT !.committed = TRUE] \in [impl : Impls, committed : BOOLEAN]
      BY <3>1
    <3>3. handles' = [handles EXCEPT ![n] = [handles[n] EXCEPT !.committed = TRUE]]
      BY <1>1
    <3>4. n \in 1..Len(handles)
      BY <1>1, <1>2
    <3>5. handles' \in Seq([impl : Impls, committed : BOOLEAN])
      BY <3>1, <3>2, <3>3, <3>4, ExceptSeq
    <3>6. QED
      BY <1>6, <3>5
  <2>2. transaction' \in 0..Len(impls')
    BY <1>1, <1>6, InvFacts
  <2>2a. active' \in Nat
    BY <1>2, <1>4
  <2>3. engine' \in BOOLEAN
    BY <1>5
  <2>4. QED
    BY <1>5, <1>6, <2>1, <2>2, <2>2a, <2>3 DEF TypeOK, ImplRecord
<1>8. ImplsInv'
  <2>1. transaction' = Len(impls') /\ Len(outcomes') = Len(impls')
    BY <1>1, <1>5, <1>6, InvFacts
  <2>2. \A k \in Undecided' : handles'[k].impl = transaction'
    <3>1. \A k \in Undecided : k \in DOMAIN handles /\ handles[k].impl = transaction
      BY DEF IInv, ImplsInv, Undecided
    <3>2. QED
      BY <1>1, <1>3, <3>1
  <2>3. \A j, k \in DOMAIN handles' : j < k => handles'[j].impl <= handles'[k].impl
    <3>1. \A j, k \in DOMAIN handles : j < k => handles[j].impl <= handles[k].impl
      BY DEF IInv, ImplsInv
    <3>2. QED
      BY <1>3, <3>1
  <2>4. QED
    BY <2>1, <2>2, <2>3 DEF ImplsInv
<1>9. NestingInv'
  <2>1. SUFFICES ASSUME NEW j \in DOMAIN handles, NEW k \in DOMAIN handles, j < k,
                        handles[j].impl = handles[k].impl, handles'[j].committed
                 PROVE  \E u \in Undecided' : u < j
    BY <1>3 DEF NestingInv
  <2>2. j < n /\ j \in Nat
    BY <1>2, <2>1
  <2>3. handles[j].committed
    BY <1>2, <1>3, <2>1, <2>2
  <2>4. PICK u \in Undecided : u < j
    BY <2>1, <2>3 DEF IInv, NestingInv
  <2>5. u # n
    BY <1>2, <2>2, <2>4
  <2>6. QED
    BY <1>3, <2>4, <2>5
<1>10. CounterIsPending'
  <2>1. active' = Cardinality(Undecided')
    BY <1>3, <1>4, InvFacts
  <2>2. engine' <=> active' > 0
    <3>1. CASE active = 1
      <4>1. ~(active' > 0)
        BY <1>4, <3>1
      <4>2. engine' = FALSE
        BY <1>5, <3>1
      <4>3. QED
        BY <4>1, <4>2
    <3>2. CASE active # 1
      <4>1. active' > 0
        BY <1>2, <1>4, <3>2
      <4>2. QED
        <5>1. engine' = TRUE
          BY <1>5, <3>2
        <5>2. QED
          BY <4>1, <5>1
    <3>3. QED
      BY <3>1, <3>2
  <2>3. QED
    BY <1>5, <2>1, <2>2 DEF CounterIsPending, Undecided
<1>11. CommitInv'
  <2>1. ASSUME NEW k \in DOMAIN handles, handles[k].impl = transaction
        PROVE  impls'[handles[k].impl].committed <=> ~(active' > 0)
    BY <1>2, <1>4, <1>6, <2>1
  <2>2. ASSUME NEW k \in DOMAIN handles, handles[k].impl # transaction
        PROVE  impls'[handles[k].impl].committed
    BY <1>6, <2>2, InvFacts DEF IInv, CommitInv
  <2>3. QED
    BY <1>1, <1>3, <2>1, <2>2 DEF CommitInv
<1>12. ImplDiesWithLastHandle'
  BY <1>3, <1>6 DEF ImplDiesWithLastHandle, IInv
<1>13. QED
  BY <1>7, <1>8, <1>9, <1>10, <1>11, <1>12 DEF IInv

LEMMA DestroyStep ==
    ASSUME IInv, Scoped, NEW n \in 1..MaxHandles, Destroy(n)
    PROVE  IInv'
<1> DEFINE i == handles[n].impl
           rollback == active' = 0 /\ ~impls[i].committed
           rest == [impls[i] EXCEPT !.failed = @ + (IF handles[n].committed THEN 0 ELSE 1),
                                    !.deleted = @ \/ active' = 0]
<1>1. /\ n = Len(handles) /\ n \in DOMAIN handles /\ handles' = Without(n)
      /\ transaction' = transaction
  <2>1. InScope(n) /\ transaction' = transaction /\ handles' = Without(n)
    BY DEF Destroy
  <2>2. QED
    BY <2>1 DEF InScope
<1>2. /\ active' = active - (IF handles[n].committed THEN 0 ELSE 1)
      /\ impls' = [impls EXCEPT ![i] = rest]
      /\ engine' = (engine /\ ~rollback)
      /\ aborted' = (rollback /\ ~engine)
      /\ outcomes' = IF rollback THEN [outcomes EXCEPT ![i] = "rolled back"] ELSE outcomes
  BY DEF Destroy
<1>2a. /\ handles[n].committed => active' = active
       /\ ~handles[n].committed => active' = active - 1
       /\ active \in Nat
  <2>1. active \in Nat
    BY InvFacts
  <2>2. active' = active - (IF handles[n].committed THEN 0 ELSE 1)
    BY <1>2
  <2>3. QED
    BY <2>1, <2>2
<1>3. handles # << >>
  BY <1>1
<1>4. /\ DOMAIN handles = 1..n /\ n \in Nat
      /\ i \in Impls /\ handles[n].committed \in BOOLEAN
      /\ transaction \in Nat /\ Impls = 1..transaction
  BY <1>1, InvFacts
<1>5. /\ DOMAIN handles' = 1..(n - 1)
      /\ handles' \in Seq([impl : Impls, committed : BOOLEAN])
      /\ \A k \in DOMAIN handles' : handles'[k] = handles[k] /\ k \in DOMAIN handles /\ k # n
      /\ Undecided' = Undecided \ {n}
      /\ Cardinality(Undecided') =
            Cardinality(Undecided) - (IF handles[n].committed THEN 0 ELSE 1)
  BY <1>1, <1>3, <1>4, HandleDies DEF IInv
<1>6. /\ impls' \in Seq(ImplRecord) /\ Len(impls') = Len(impls) /\ Impls' = Impls
      /\ \A j \in Impls : impls'[j].committed = impls[j].committed
      /\ \A j \in Impls : j # i => impls'[j] = impls[j]
      /\ impls'[i].deleted <=> impls[i].deleted \/ active' = 0
  <2>1. impls \in Seq(ImplRecord) /\ i \in 1..Len(impls) /\ impls[i] \in ImplRecord
    BY <1>4, InvFacts DEF IInv, TypeOK, ImplRecord, Impls
  <2>2. /\ rest \in ImplRecord /\ rest.committed = impls[i].committed
        /\ rest.deleted <=> impls[i].deleted \/ active' = 0
    <3>1. impls[i].failed \in Nat /\ impls[i].deleted \in BOOLEAN
      BY <2>1 DEF ImplRecord
    <3>2. impls[i].failed + (IF handles[n].committed THEN 0 ELSE 1) \in Nat
      BY <3>1
    <3>3. (impls[i].deleted \/ active' = 0) \in BOOLEAN
      OBVIOUS
    <3>4. QED
      <4> DEFINE f == impls[i].failed + (IF handles[n].committed THEN 0 ELSE 1)
                 d == impls[i].deleted \/ active' = 0
                 r == impls[i]
      <4>1. r \in ImplRecord /\ f \in Nat /\ d \in BOOLEAN
        BY <2>1, <3>2, <3>3
      <4>2. rest = [r EXCEPT !.failed = f, !.deleted = d]
        OBVIOUS
      <4> HIDE DEF f, d, rest, r
      <4>3. rest \in ImplRecord /\ rest.committed = r.committed /\ rest.deleted = d
        <5>1. rest \in ImplRecord
          BY <4>1, <4>2 DEF ImplRecord
        <5>2. rest.committed = r.committed
          BY <4>1, <4>2 DEF ImplRecord
        <5>3. rest.deleted = d
          BY <4>1, <4>2 DEF ImplRecord
        <5>4. QED
          BY <5>1, <5>2, <5>3
      <4>4. QED
        BY <4>3 DEF d, r
  <2> HIDE DEF rest
  <2>3. /\ impls' \in Seq(ImplRecord) /\ Len(impls') = Len(impls)
        /\ \A j \in 1..Len(impls) : impls'[j] = IF j = i THEN rest ELSE impls[j]
    <3> HIDE DEF i
    <3>1. impls' = [impls EXCEPT ![i] = rest]
      BY <1>2
    <3>2. QED
      BY <2>1, <2>2, <3>1, ExceptSeq
  <2>4. QED
    BY <2>1, <2>2, <2>3 DEF Impls
<1> HIDE DEF rest
<1>7. /\ Len(outcomes') = Len(outcomes)
      /\ outcomes' \in Seq({"open", "committed", "rolled back"})
  <2> DEFINE Ends == {"open", "committed", "rolled back"}
  <2>1. outcomes \in Seq(Ends) /\ "rolled back" \in Ends
    BY DEF IInv, TypeOK
  <2>2. i \in 1..Len(outcomes)
    BY <1>4, InvFacts
  <2> HIDE DEF i
  <2> HIDE DEF Ends
  <2>3. CASE rollback
    <3>1. outcomes' = [outcomes EXCEPT ![i] = "rolled back"]
      BY <1>2, <2>3
    <3>2. Len(outcomes') = Len(outcomes) /\ outcomes' \in Seq(Ends)
      BY <2>1, <2>2, <3>1, ExceptSeq
    <3>3. QED
      BY <3>2 DEF Ends
  <2>4. CASE ~rollback
    <3>1. outcomes' = outcomes
      BY <1>2, <2>4
    <3>2. QED
      BY <2>1, <3>1 DEF Ends
  <2>5. QED
    BY <2>3, <2>4
<1>8. /\ active' = Cardinality(Undecided') /\ active' \in Nat
      /\ active' = 0 <=> Undecided' = {}
  <2>1. active' = Cardinality(Undecided')
    BY <1>2, <1>5, InvFacts
  <2>2. IsFiniteSet(Undecided') /\ Undecided' \subseteq Undecided
    BY <1>5, UndecidedIsCounted, FS_Subset DEF IInv
  <2>3. QED
    BY <2>1, <2>2, FS_CardinalityType, FS_EmptySet
<1>9. /\ rollback <=> active' = 0 /\ ~handles[n].committed
      /\ ~handles[n].committed => i = transaction /\ active > 0
      /\ active' > 0 => active > 0
  <2>1. ~handles[n].committed => n \in Undecided
    BY <1>1 DEF Undecided
  <2>2. ~handles[n].committed => i = transaction /\ active > 0
    BY <2>1, InvFacts DEF IInv, ImplsInv
  <2>3. active' > 0 => active > 0
    <3>1. CASE handles[n].committed
      BY <1>2a, <3>1
    <3>2. CASE ~handles[n].committed
      BY <2>2, <3>2
    <3>3. QED
      BY <3>1, <3>2
  <2>4. CASE active' = 0
    <3>1. handles[n].committed => ~(active > 0)
      BY <1>2a, <2>4
    <3>2. impls[i].committed <=> ~(i = transaction /\ active > 0)
      BY <1>1 DEF IInv, CommitInv
    <3>3. QED
      BY <2>2, <2>3, <2>4, <3>1, <3>2
  <2>5. CASE active' # 0
    BY <2>2, <2>3, <2>5
  <2>6. QED
    BY <2>4, <2>5
<1>10. /\ aborted' = FALSE
       /\ active' = 0 => engine' = FALSE
       /\ active' > 0 => engine' = TRUE
  <2>1. /\ active > 0 => engine = TRUE
        /\ active = 0 => engine = FALSE
    BY InvFacts
  <2>2. aborted' = FALSE
    BY <1>2, <1>9, <2>1
  <2>3. active' > 0 => engine' = TRUE
    <3>1. active' > 0 => ~rollback
      BY <1>8
    <3>2. QED
      BY <1>2, <1>9, <2>1, <3>1
  <2>4. active' = 0 => engine' = FALSE
    <3>1. active' = 0 /\ handles[n].committed => active = 0
      BY <1>2a
    <3>2. QED
      BY <1>2, <1>9, <2>1, <3>1
  <2>5. QED
    BY <2>2, <2>3, <2>4
<1> HIDE DEF rollback
<1>11. TypeOK'
  <2>1. transaction' \in 0..Len(impls')
    BY <1>1, <1>6, InvFacts
  <2>2. handles' \in Seq([impl : Impls', committed : BOOLEAN])
    BY <1>5, <1>6
  <2>3. engine' \in BOOLEAN
    <3>1. active' = 0 \/ active' > 0
      BY <1>8
    <3>2. QED
      BY <1>10, <3>1
  <2>4. QED
    BY <1>6, <1>7, <1>8, <1>10, <2>1, <2>2, <2>3 DEF TypeOK, ImplRecord
<1>12. ImplsInv'
  <2>1. transaction' = Len(impls') /\ Len(outcomes') = Len(impls')
    BY <1>1, <1>6, <1>7, InvFacts
  <2>2. \A k \in Undecided' : handles'[k].impl = transaction'
    <3>1. \A k \in Undecided : handles[k].impl = transaction
      BY DEF IInv, ImplsInv
    <3>2. \A k \in Undecided' : k \in DOMAIN handles' /\ k \in Undecided
      BY <1>5 DEF Undecided
    <3>3. QED
      BY <1>1, <1>5, <3>1, <3>2
  <2>3. \A j, k \in DOMAIN handles' : j < k => handles'[j].impl <= handles'[k].impl
    <3>1. \A j, k \in DOMAIN handles : j < k => handles[j].impl <= handles[k].impl
      BY DEF IInv, ImplsInv
    <3>2. QED
      BY <1>5, <3>1
  <2>4. QED
    BY <2>1, <2>2, <2>3 DEF ImplsInv
<1>13. NestingInv'
  <2>1. SUFFICES ASSUME NEW j \in DOMAIN handles', NEW k \in DOMAIN handles', j < k,
                        handles'[j].impl = handles'[k].impl, handles'[j].committed
                 PROVE  \E u \in Undecided' : u < j
    BY DEF NestingInv
  <2>2. PICK u \in Undecided : u < j
    BY <1>5, <2>1 DEF IInv, NestingInv
  <2>3. u # n
    BY <1>4, <1>5, <2>1, <2>2
  <2>4. QED
    BY <1>5, <2>2, <2>3
<1>14. CounterIsPending'
  <2>1. engine' <=> active' > 0
    <3>1. CASE active' = 0
      <4>1. ~(active' > 0)
        BY <3>1
      <4>2. QED
        BY <1>10, <3>1, <4>1
    <3>2. CASE active' > 0
      BY <1>10, <3>2
    <3>3. QED
      BY <1>8, <3>1, <3>2
  <2>2. QED
    BY <1>8, <1>10, <2>1 DEF CounterIsPending, Undecided
<1>15. CASE active' = 0
  <2>1. \A k \in DOMAIN handles' : handles[k].impl # i
    <3>1. Undecided \subseteq {Len(handles)}
      BY <1>1, <1>5, <1>8, <1>15
    <3>2. QED
      BY <1>1, <1>3, <1>5, <3>1, LastIsAlone
  <2>2. CommitInv'
    <3>1. SUFFICES ASSUME NEW k \in DOMAIN handles'
                   PROVE  impls'[handles'[k].impl].committed
      BY <1>15 DEF CommitInv
    <3>2. k \in DOMAIN handles /\ handles'[k].impl = handles[k].impl /\ handles[k].impl \in Impls
      BY <1>5, InvFacts
    <3>3. ~(handles[k].impl = transaction /\ active > 0)
      <4>1. active > 0 => i = transaction
        <5>1. active > 0 => ~handles[n].committed
          BY <1>2a, <1>15
        <5>2. QED
          BY <1>9, <5>1
      <4>2. QED
        BY <2>1, <4>1
    <3>4. impls[handles[k].impl].committed
      BY <3>2, <3>3 DEF IInv, CommitInv
    <3>5. QED
      BY <1>6, <3>2, <3>4
  <2>3. ImplDiesWithLastHandle'
    <3>1. SUFFICES ASSUME NEW j \in Impls
                   PROVE  impls'[j].deleted <=> \A k \in DOMAIN handles' : handles'[k].impl # j
      BY <1>6 DEF ImplDiesWithLastHandle
    <3>2. CASE j = i
      BY <1>5, <1>6, <1>15, <2>1, <3>2
    <3>3. CASE j # i
      <4>1. (\A k \in DOMAIN handles' : handles'[k].impl # j)
               <=> \A k \in DOMAIN handles : handles[k].impl # j
        <5>1. \A k \in DOMAIN handles : handles[k].impl = j => k \in DOMAIN handles'
          <6>1. \A k \in DOMAIN handles : k # n => k \in DOMAIN handles'
            BY <1>4, <1>5
          <6>2. QED
            BY <3>3, <6>1
        <5>2. \A k \in DOMAIN handles' : k \in DOMAIN handles /\ handles'[k] = handles[k]
          BY <1>5
        <5> HIDE DEF i
        <5>3. QED
          BY <5>1, <5>2
      <4>2. QED
        BY <1>6, <3>3, <4>1 DEF IInv, ImplDiesWithLastHandle
    <3>4. QED
      BY <3>2, <3>3
  <2>4. QED
    BY <1>11, <1>12, <1>13, <1>14, <2>2, <2>3 DEF IInv
<1>16. CASE active' > 0
  <2>1. PICK j \in Undecided' : TRUE
    BY <1>8, <1>16
  <2>2. j \in DOMAIN handles' /\ handles'[j].impl = i /\ i = transaction
    BY <1>1, <1>3, <1>5, <2>1, OthersShareTheImpl DEF Undecided
  <2>3. CommitInv'
    <3>1. SUFFICES ASSUME NEW k \in DOMAIN handles'
                   PROVE  impls'[handles'[k].impl].committed <=> handles'[k].impl # transaction
      BY <1>1, <1>16 DEF CommitInv
    <3>2. k \in DOMAIN handles /\ handles'[k].impl = handles[k].impl /\ handles[k].impl \in Impls
      BY <1>5, InvFacts
    <3>3. impls[handles[k].impl].committed <=> handles[k].impl # transaction
      BY <1>9, <1>16, <3>2 DEF IInv, CommitInv
    <3>4. QED
      BY <1>6, <3>2, <3>3
  <2>4. ImplDiesWithLastHandle'
    <3>1. SUFFICES ASSUME NEW l \in Impls
                   PROVE  impls'[l].deleted <=> \A k \in DOMAIN handles' : handles'[k].impl # l
      BY <1>6 DEF ImplDiesWithLastHandle
    <3>2. impls'[l].deleted <=> impls[l].deleted
      <4>1. active' # 0
        BY <1>16
      <4>2. QED
        BY <1>6, <4>1
    <3>3. (\A k \in DOMAIN handles' : handles'[k].impl # l)
             <=> \A k \in DOMAIN handles : handles[k].impl # l
      <4>1. \A k \in DOMAIN handles : handles[k].impl = l
                => \E m \in DOMAIN handles' : handles'[m].impl = l
        <5>1. \A k \in DOMAIN handles : k # n => k \in DOMAIN handles'
          BY <1>4, <1>5
        <5>2. \A k \in DOMAIN handles' : handles'[k] = handles[k]
          BY <1>5
        <5>3. QED
          BY <2>2, <5>1, <5>2
      <4>2. \A k \in DOMAIN handles' : k \in DOMAIN handles /\ handles'[k] = handles[k]
        BY <1>5
      <4>3. QED
        BY <4>1, <4>2
    <3>4. QED
      BY <3>2, <3>3 DEF IInv, ImplDiesWithLastHandle
  <2>5. QED
    BY <1>11, <1>12, <1>13, <1>14, <2>3, <2>4 DEF IInv
<1>17. QED
  BY <1>8, <1>15, <1>16

-----------------------------------------------------------------------------
(* The theorems.                                                            *)

LEMMA InitInv ==
    ASSUME Init
    PROVE  IInv
<1>2. handles = << >> /\ impls = << >> /\ outcomes = << >>
  BY DEF Init
<1>3. DOMAIN handles = {} /\ Undecided = {} /\ Impls = {} /\ Len(impls) = 0 /\ Len(outcomes) = 0
  BY <1>2, EmptySeq DEF Undecided, Impls
<1>4. TypeOK
  <2>1. /\ handles \in Seq([impl : Impls, committed : BOOLEAN])
        /\ impls \in Seq([failed : Nat, committed : BOOLEAN, deleted : BOOLEAN])
        /\ outcomes \in Seq({"open", "committed", "rolled back"})
    BY <1>2, EmptySeq
  <2>2. active \in Nat /\ engine \in BOOLEAN /\ aborted \in BOOLEAN
    BY DEF Init
  <2>2a. transaction \in 0..Len(impls)
    BY <1>3 DEF Init
  <2>3. QED
    BY <2>1, <2>2, <2>2a DEF TypeOK
<1>5. CounterIsPending
  <2>1. active = 0 /\ engine = FALSE /\ aborted = FALSE
    BY DEF Init
  <2>2. active = Cardinality({k \in DOMAIN handles : ~handles[k].committed})
    BY <1>3, <2>1, FS_EmptySet DEF Undecided
  <2>3. ~(active > 0)
    BY <2>1
  <2>4. QED
    BY <2>1, <2>2, <2>3 DEF CounterIsPending
<1>6. ImplsInv /\ NestingInv /\ CommitInv /\ ImplDiesWithLastHandle
  BY <1>3 DEF Init, ImplsInv, NestingInv, CommitInv, ImplDiesWithLastHandle
<1>7. QED
  BY <1>4, <1>5, <1>6 DEF IInv

LEMMA NextInv ==
    ASSUME Scoped, IInv, [Next]_vars
    PROVE  IInv'
<1>1. CASE Begin
  BY <1>1, BeginStep
<1>2. ASSUME NEW k \in 1..MaxHandles, Copy(k) PROVE IInv'
  BY <1>2, CopyStep
<1>3. ASSUME NEW k \in 1..MaxHandles, Commit(k) PROVE IInv'
  BY <1>3, CommitStep
<1>4. ASSUME NEW k \in 1..MaxHandles, Destroy(k) PROVE IInv'
  BY <1>4, DestroyStep
<1>5. CASE UNCHANGED vars
  BY <1>5 DEF vars, IInv, TypeOK, ImplsInv, NestingInv, CommitInv, ImplDiesWithLastHandle,
              CounterIsPending, Undecided, Impls
<1>6. QED
  BY <1>1, <1>2, <1>3, <1>4, <1>5 DEF Next

\* In every program that nests the scopes of its handles, the inductive invariant holds.
THEOREM Invariance ==
    ASSUME Scoped
    PROVE  Spec => []IInv
<1>1. IInv /\ [Next]_vars => IInv'
  BY NextInv
<1>2. QED
  BY <1>1, InitInv, PTL DEF Spec

\* Every variable has its type.
THEOREM TypeCorrect ==
    ASSUME Scoped
    PROVE  Spec => []TypeOK
BY Invariance, PTL DEF IInv

\* The counter that all Impls of the session share is the number of undecided handles,
\* the engine has a transaction exactly while there is one, and the program never aborts
\* in begin_transaction or rollback_transaction, however many handles there are and
\* whatever the engine answers to the commits.
THEOREM CounterCounts ==
    ASSUME Scoped
    PROVE  Spec => []CounterIsPending
BY Invariance, PTL DEF IInv

\* The handle that deletes an Impl is the last one on it, and it does delete it.
THEOREM NoImplOutlived ==
    ASSUME Scoped
    PROVE  Spec => []ImplDiesWithLastHandle
BY Invariance, PTL DEF IInv

-----------------------------------------------------------------------------
(* The refinement: handles that share an Impl are one nested transaction.   *)

Refused == transaction # 0 /\ impls[transaction].failed > 0

\* A handle that has committed dies without a trace, one that has not decides to roll
\* back.
LEMMA DestroyDecides ==
    ASSUME IInv, Scoped, NEW n \in 1..MaxHandles, Destroy(n)
    PROVE  /\ handles[n].committed => UNCHANGED <<active, outcomes, Refused>>
           /\ ~handles[n].committed => Nested!Decide(FALSE)
<1> DEFINE i == handles[n].impl
           failed == IF handles[n].committed THEN 0 ELSE 1
           rollback == active' = 0 /\ ~impls[i].committed
<1>1. /\ n \in DOMAIN handles /\ transaction' = transaction
      /\ active' = active - failed
      /\ outcomes' = IF rollback THEN [outcomes EXCEPT ![i] = "rolled back"] ELSE outcomes
      /\ impls' = [impls EXCEPT ![i].failed = @ + failed, ![i].deleted = @ \/ active' = 0]
  BY DEF Destroy, InScope
<1>2. i \in Impls /\ transaction # 0 /\ transaction \in Impls /\ Len(outcomes) = transaction
  <2>1. i \in 1..transaction /\ Impls = 1..transaction /\ transaction \in Nat
        /\ Len(outcomes) = transaction
    BY <1>1, InvFacts
  <2>2. QED
    BY <2>1
<1>3. \A j \in Impls : impls'[j].failed = IF j = i THEN impls[j].failed + failed ELSE impls[j].failed
  <2>1. impls \in [Impls -> [failed : Nat, committed : BOOLEAN, deleted : BOOLEAN]]
    BY LenProperties DEF IInv, TypeOK, Impls
  <2> DEFINE d == active' = 0
  <2>2. impls' = [impls EXCEPT ![i].failed = @ + failed, ![i].deleted = @ \/ d]
    BY <1>1
  <2> HIDE DEF failed, d, i
  <2>3. QED
    BY <1>2, <2>1, <2>2
<1>4. impls[transaction].failed \in Nat
  BY <1>2, InvFacts DEF ImplRecord
<1>5. impls[i].committed <=> ~(i = transaction /\ active > 0)
  BY <1>1 DEF IInv, CommitInv
<1>6. CASE handles[n].committed
  <2>1. active' = active
    <3>1. active \in Nat /\ active' = active - 0
      BY <1>1, <1>6, InvFacts
    <3>2. QED
      BY <3>1
  <2>2. outcomes' = outcomes
    <3>1. active' = 0 => ~(active > 0)
      BY <2>1
    <3>2. QED
      BY <1>1, <1>5, <3>1
  <2>3. impls'[transaction].failed = impls[transaction].failed
    <3>1. failed = 0
      BY <1>6
    <3>2. QED
      BY <1>2, <1>3, <1>4, <3>1
  <2>4. QED
    BY <1>1, <1>6, <2>1, <2>2, <2>3 DEF Refused
<1>7. CASE ~handles[n].committed
  <2>1. i = transaction /\ active > 0 /\ active \in Nat
    BY <1>1, <1>7, InvFacts DEF IInv, ImplsInv, Undecided
  <2>2. failed = 1
    BY <1>7
  <2>3. active' = active - 1
    BY <1>1, <2>2
  <2>4. Refused'
    <3>1. impls'[transaction].failed = impls[transaction].failed + 1
      BY <1>2, <1>3, <2>1, <2>2
    <3>2. impls'[transaction].failed > 0
      BY <1>4, <3>1
    <3>3. QED
      BY <1>1, <1>2, <3>2 DEF Refused
  <2>5. rollback <=> active = 1
    <3>1. active' = 0 <=> active = 1
      BY <2>1, <2>3
    <3>2. QED
      BY <1>5, <2>1, <3>1
  <2>6. outcomes' = IF active = 1 THEN [outcomes EXCEPT ![Len(outcomes)] = "rolled back"] ELSE outcomes
    <3> HIDE DEF rollback
    <3>1. outcomes' = IF active = 1 THEN [outcomes EXCEPT ![i] = "rolled back"] ELSE outcomes
      BY <1>1, <2>5
    <3>2. QED
      BY <1>2, <2>1, <3>1
  <2>7. Refused' = (Refused \/ ~FALSE)
    BY <2>4 DEF Refused
  <2>8. Nested!Decide(FALSE)
    <3>1. IF active = 1
            THEN \E result \in {"rolled back"} \cup (IF Refused' THEN {} ELSE {"committed"}) :
                     outcomes' = [outcomes EXCEPT ![Len(outcomes)] = result]
            ELSE outcomes' = outcomes
      BY <2>6
    <3>2. QED
      BY <2>1, <2>3, <2>7, <3>1 DEF Nested!Decide, Refused
  <2>9. QED
    BY <1>7, <2>8
<1>8. QED
  BY <1>6, <1>7

LEMMA BeginJoins ==
    ASSUME IInv, Begin
    PROVE  Nested!Join
<1> USE DEF Refused
<1>1. active' = active + 1 /\ active \in Nat
  BY InvFacts DEF Begin
<1>2. CASE active = 0
  <2>1. outcomes' = Append(outcomes, "open")
    BY <1>2 DEF Begin
  <2>2. Refused' = FALSE
    <3> DEFINE new == [failed |-> 0, committed |-> FALSE, deleted |-> FALSE]
    <3>1. /\ impls' = Append(impls, new) /\ transaction' = Len(impls) + 1
      BY <1>2 DEF Begin
    <3>2. impls \in Seq(ImplRecord)
      BY DEF IInv, TypeOK, ImplRecord
    <3>3. new \in ImplRecord
      BY DEF ImplRecord
    <3>4. impls'[transaction'] = new
      BY <3>1, <3>2, <3>3
    <3>5. QED
      BY <3>4
  <2>3. QED
    BY <1>1, <1>2, <2>1, <2>2 DEF Nested!Join
<1>3. CASE active # 0
  <2>1. UNCHANGED <<impls, transaction, outcomes>>
    BY <1>3 DEF Begin
  <2>2. QED
    BY <1>1, <1>3, <2>1 DEF Nested!Join
<1>4. QED
  BY <1>2, <1>3

LEMMA CopyJoins ==
    ASSUME Scoped, IInv, NEW k \in 1..MaxHandles, Copy(k)
    PROVE  Nested!Join /\ engine' = engine
<1> USE DEF Refused
<1>1. /\ k \in Undecided /\ active' = active + 1
      /\ UNCHANGED <<impls, transaction, engine, outcomes>>
  BY DEF Copy, InScope, Undecided
<1>2. active # 0
  BY <1>1, InvFacts
<1>3. QED
  BY <1>1, <1>2 DEF Nested!Join

LEMMA CommitDecides ==
    ASSUME Scoped, IInv, NEW k \in 1..MaxHandles, Commit(k)
    PROVE  Nested!Decide(TRUE)
<1> USE DEF Refused
<1>1. k \in Undecided /\ transaction' = transaction
  BY DEF Commit, InScope, Undecided
<1>2. handles[k].impl = transaction /\ transaction \in Impls /\ transaction # 0
      /\ Len(outcomes) = transaction
  <2>1. handles[k].impl = transaction
    BY <1>1 DEF IInv, ImplsInv
  <2>2. active > 0
    BY <1>1, InvFacts
  <2>3. QED
    BY <2>1, <2>2, InvFacts
<1>3. active > 0 /\ active \in Nat
  BY <1>1, InvFacts
<1>4. /\ active' = active - 1
      /\ impls' = [impls EXCEPT ![transaction].committed = (active = 1)]
      /\ active = 1 => \E result \in {"committed", "rolled back"} : Finish(transaction, result)
      /\ active # 1 => outcomes' = outcomes
  BY <1>2, <1>3 DEF Commit
<1>5. impls'[transaction].failed = impls[transaction].failed
  <2>1. impls \in [Impls -> [failed : Nat, committed : BOOLEAN, deleted : BOOLEAN]]
    BY LenProperties DEF IInv, TypeOK, Impls
  <2> DEFINE d == active = 1
  <2>2. impls' = [impls EXCEPT ![transaction].committed = d]
    BY <1>4
  <2> HIDE DEF d
  <2>3. QED
    BY <1>2, <2>1, <2>2
<1>6. Refused' = (Refused \/ ~TRUE)
  BY <1>1, <1>5
<1>7. IF active = 1
        THEN \E result \in {"rolled back"} \cup (IF Refused' THEN {} ELSE {"committed"}) :
                 outcomes' = [outcomes EXCEPT ![Len(outcomes)] = result]
        ELSE outcomes' = outcomes
  <2>1. CASE active = 1
    <3>1. PICK result \in {"committed", "rolled back"} : Finish(transaction, result)
      BY <1>4, <2>1
    <3>2. outcomes' = [outcomes EXCEPT ![Len(outcomes)] = result]
      BY <1>2, <3>1 DEF Finish
    <3>3. result \in {"rolled back"} \cup (IF Refused THEN {} ELSE {"committed"})
      BY <1>2, <3>1 DEF Finish
    <3>4. QED
      BY <1>6, <2>1, <3>2, <3>3
  <2>2. CASE active # 1
    BY <1>4, <2>2
  <2>3. QED
    BY <2>1, <2>2
<1>8. QED
  BY <1>3, <1>4, <1>6, <1>7 DEF Nested!Decide

LEMMA NestedStep ==
    ASSUME Scoped, IInv, [Next]_vars
    PROVE  [Nested!Next]_(Nested!vars)
<1>1. CASE Begin
  BY <1>1, BeginJoins DEF Nested!Next
<1>2. ASSUME NEW k \in 1..MaxHandles, Copy(k)
      PROVE  Nested!Next
  BY <1>2, CopyJoins DEF Nested!Next
<1>3. ASSUME NEW k \in 1..MaxHandles, Commit(k)
      PROVE  Nested!Next
  BY <1>3, CommitDecides DEF Nested!Next
<1>4. ASSUME NEW k \in 1..MaxHandles, Destroy(k)
      PROVE  [Nested!Next]_(Nested!vars)
  <2>1. CASE handles[k].committed
    BY <1>4, <2>1, DestroyDecides DEF Nested!vars, Refused
  <2>2. CASE ~handles[k].committed
    BY <1>4, <2>2, DestroyDecides DEF Nested!Next
  <2>3. QED
    BY <2>1, <2>2
<1>5. CASE UNCHANGED vars
  BY <1>5 DEF vars, Nested!vars
<1>6. QED
  BY <1>1, <1>2, <1>3, <1>4, <1>5 DEF Next

\* Whatever the handles of a session do, and in whatever order they do it, the engine
\* sees what NestedTransaction promises: one transaction for the handles alive together,
\* which ends when the last has decided and is committed only if all of them committed.
THEOREM NestedIsImplemented ==
    ASSUME Scoped
    PROVE  Spec => ImplementsNested
<1>1. Init => Nested!Init
  BY DEF Init, Nested!Init
<1>2. IInv /\ [Next]_vars => [Nested!Next]_(Nested!vars)
  BY NestedStep
<1>3. QED
  BY <1>1, <1>2, Invariance, PTL DEF Spec, ImplementsNested, Nested!Spec

-----------------------------------------------------------------------------
(* The session.                                                             *)

\* A step of the session is one of its transactions' steps, or leaves them alone: the
\* session is destroyed when no handle is undecided, so the destructor does not abort.
LEMMA SessionStepIsStep ==
    ASSUME IInv, [SessionNext]_sessionVars
    PROVE  [Next]_vars
<1>1. CASE CopySession
  BY <1>1 DEF CopySession
<1>2. CASE DestroySession
  <2>1. sessions = 1 => active = 0
    <3>1. sessions = 1 => handles = << >>
      BY <1>2 DEF DestroySession
    <3>2. handles = << >> => Undecided = {}
      BY DEF Undecided
    <3>3. QED
      BY <3>1, <3>2, InvFacts
  <2>2. aborted' = FALSE
    <3>1. ~(sessions = 1 /\ active > 0)
      BY <2>1
    <3>2. aborted' = (sessions = 1 /\ active > 0)
      BY <1>2 DEF DestroySession
    <3>3. QED
      BY <3>1, <3>2
  <2>3. QED
    BY <1>2, <2>2, InvFacts DEF DestroySession, vars
<1>3. CASE Table
  BY <1>3 DEF Table, Insert, Set, AppendRecord, RemoveRecord, Write
<1>4. CASE Iterator
  BY <1>4 DEF Iterator, OpenIterator, IteratorNext, DestroyIterator
<1>5. CASE BeginTransaction
  BY <1>5 DEF BeginTransaction, Next
<1>6. ASSUME NEW k \in 1..MaxHandles, UseTransaction(k)
      PROVE  Next
  BY <1>6 DEF UseTransaction, Next
<1>7. CASE UNCHANGED sessionVars
  BY <1>7 DEF sessionVars
<1>8. QED
  BY <1>1, <1>2, <1>3, <1>4, <1>5, <1>6, <1>7 DEF SessionNext, Session

\* The inductive invariant of the transactions holds in every session whose program nests
\* the scopes of its handles.
THEOREM SessionInvariance ==
    ASSUME Scoped
    PROVE  SessionSpec => []IInv
<1>1. SessionInit => IInv
  BY InitInv DEF SessionInit
<1>2. IInv /\ [SessionNext]_sessionVars => IInv'
  BY SessionStepIsStep, NextInv
<1>3. QED
  BY <1>1, <1>2, PTL DEF SessionSpec

\* The session's counter of undecided handles, and with it the engine's transaction, is
\* right whatever sessions, cursors and writes there are besides.
THEOREM SessionCounterCounts ==
    ASSUME Scoped
    PROVE  SessionSpec => []CounterIsPending
BY SessionInvariance, PTL DEF IInv

\* No handle of a session uses a deleted Impl, and none leaves its Impl behind.
THEOREM SessionNoImplOutlived ==
    ASSUME Scoped
    PROVE  SessionSpec => []ImplDiesWithLastHandle
BY SessionInvariance, PTL DEF IInv

-----------------------------------------------------------------------------
(* The refinement of the transactional store.                               *)

\* The handle that ends the engine's transaction decides about the table: what it leaves
\* is what the engine committed.
LEMMA EndTransactionDecides ==
    ASSUME IInv, IInv', EndTransaction, active > 0, active' \in Nat
    PROVE  IF active' > 0
             THEN UNCHANGED <<table, durable>>
             ELSE /\ durable' = IF outcomes'[Len(outcomes)] = "committed" THEN table ELSE durable
                  /\ table' = durable'
<1>1. engine /\ (engine' <=> active' > 0) /\ transaction = Len(outcomes)
  <2>1. engine /\ transaction = Len(outcomes)
    BY InvFacts
  <2>2. engine' <=> active' > 0
    BY DEF IInv, CounterIsPending
  <2>3. QED
    BY <2>1, <2>2
<1>2. CASE active' > 0
  BY <1>1, <1>2 DEF EndTransaction, dataVars
<1>3. CASE ~(active' > 0)
  BY <1>1, <1>3 DEF EndTransaction
<1>4. QED
  BY <1>2, <1>3

LEMMA StoreStep ==
    ASSUME Scoped, IInv, IInv', [SessionNext]_sessionVars
    PROVE  [Store!StoreNext]_(Store!storeVars)
<1> DEFINE unchanged == UNCHANGED <<active, transaction, impls, outcomes, table, durable>>
<1>1. unchanged => UNCHANGED Store!storeVars
  BY DEF Store!storeVars, Store!vars
<1>2. CASE Session
  BY <1>1, <1>2 DEF Session, CopySession, DestroySession, vars, dataVars
<1>3. ASSUME NEW k \in Keys, NEW v \in Values \cup {Absent}, Write(k, v)
      PROVE  Store!StoreNext
  <2>1. engine <=> active > 0
    BY DEF IInv, CounterIsPending
  <2>2. Store!Write(k, v)
    BY <1>3, <2>1 DEF Write, Store!Write, Store!vars, vars
  <2>3. QED
    BY <2>2 DEF Store!StoreNext
<1>4. CASE Table
  BY <1>3, <1>4 DEF Table, Insert, Set, AppendRecord, RemoveRecord, Present
<1>5. CASE Iterator
  BY <1>1, <1>5 DEF Iterator, OpenIterator, IteratorNext, DestroyIterator, vars
<1>6. CASE BeginTransaction
  <2>1. Nested!Join
    BY <1>6, BeginJoins DEF BeginTransaction
  <2>2. Store!StoreJoin
    BY <1>6, <2>1 DEF BeginTransaction, dataVars, Store!StoreJoin, Store!Join, Nested!Join
  <2>3. QED
    BY <2>2 DEF Store!StoreNext
<1>7. ASSUME NEW k \in 1..MaxHandles, UseTransaction(k)
      PROVE  [Store!StoreNext]_(Store!storeVars)
  <2>1. EndTransaction
    BY <1>7 DEF UseTransaction
  <2>2. CASE Copy(k)
    <3>1. Nested!Join /\ engine' = engine
      BY <2>2, CopyJoins
    <3>2. Store!StoreJoin
      BY <2>1, <3>1 DEF EndTransaction, dataVars, Store!StoreJoin, Store!Join, Nested!Join
    <3>3. QED
      BY <3>2 DEF Store!StoreNext
  <2>3. ASSUME NEW commit \in BOOLEAN, Nested!Decide(commit)
        PROVE  Store!StoreNext
    <3>1. active > 0 /\ active' \in Nat
      BY <2>3 DEF Nested!Decide, IInv, TypeOK
    <3>2. Store!Decide(commit)
      BY <2>3 DEF Store!Decide, Nested!Decide
    <3>3. Store!StoreDecide
      BY <2>1, <3>1, <3>2, EndTransactionDecides DEF Store!StoreDecide
    <3>4. QED
      BY <3>3 DEF Store!StoreNext
  <2>4. CASE Commit(k)
    BY <2>3, <2>4, CommitDecides
  <2>5. CASE Destroy(k)
    <3>1. CASE ~handles[k].committed
      BY <2>3, <2>5, <3>1, DestroyDecides
    <3>2. CASE handles[k].committed
      <4>1. UNCHANGED <<active, outcomes, Refused>>
        BY <2>5, <3>2, DestroyDecides
      <4>2. engine' <=> engine
        BY <4>1 DEF IInv, CounterIsPending
      <4>3. UNCHANGED <<table, durable>>
        BY <2>1, <4>2 DEF EndTransaction, dataVars
      <4>4. QED
        BY <4>1, <4>3 DEF Store!storeVars, Store!vars, Refused
    <3>3. QED
      BY <3>1, <3>2
  <2>6. QED
    BY <1>7, <2>2, <2>4, <2>5 DEF UseTransaction
<1>8. CASE UNCHANGED sessionVars
  BY <1>1, <1>8 DEF sessionVars, vars, dataVars
<1>9. QED
  BY <1>2, <1>4, <1>5, <1>6, <1>7, <1>8 DEF SessionNext

\* What the program writes while handles are undecided becomes durable together, when the
\* last one has decided, and only if all of them committed; an iterator, a copy of the
\* session or the end of another handle changes nothing about it.
THEOREM StoreIsImplemented ==
    ASSUME Scoped
    PROVE  SessionSpec => ImplementsStore
<1>1. SessionInit => Store!StoreInit
  BY DEF SessionInit, Init, Store!StoreInit, Store!Init
<1>2. IInv /\ IInv' /\ [SessionNext]_sessionVars => [Store!StoreNext]_(Store!storeVars)
  BY StoreStep
<1>3. QED
  BY <1>1, <1>2, SessionInvariance, PTL DEF SessionSpec, ImplementsStore, Store!StoreSpec

-----------------------------------------------------------------------------
(* Keys and neighbours.                                                     *)

LEMMA LessIsWellFounded ==
    \E R : IsWellFoundedOn(R, Nat) /\ \A x, y \in Nat : x < y => <<x, y>> \in R
<1> DEFINE R == OpToRel(<, Nat)
<1>1. IsWellFoundedOn(R, Nat)
  BY NatLessThanWellFounded
<1>2. \A x, y \in Nat : x < y => <<x, y>> \in R
  BY DEF OpToRel
<1> HIDE DEF R
<1>3. QED
  BY <1>1, <1>2

LEMMA LeastNatural ==
    ASSUME NEW S, S \subseteq Nat, S # {}
    PROVE  \E m \in S : \A x \in S : m <= x
<1>1. PICK R : IsWellFoundedOn(R, Nat) /\ \A x, y \in Nat : x < y => <<x, y>> \in R
  BY LessIsWellFounded
<1>2. PICK m \in S : \A y \in S : ~ (<<y, m>> \in R)
  <2>1. IsWellFoundedOn(R, Nat)
    BY <1>1
  <2>2. \E x \in S : \A y \in S : ~ (<<y, x>> \in R)
    BY <2>1, WFMin
  <2>3. QED
    BY <2>2
<1>3. \A x \in S : ~ (x < m)
  BY <1>1, <1>2
<1>4. QED
  BY <1>3

\* The least and the greatest of a set of keys.
LEMMA KeyExtremes ==
    ASSUME NEW S, S \subseteq Keys, S # {}
    PROVE  /\ Min(S) \in S /\ \A x \in S : Min(S) <= x
           /\ Max(S) \in S /\ \A x \in S : x <= Max(S)
<1>1. MaxKey \in Nat /\ S \subseteq 1..MaxKey
  BY SessionAssumption DEF Keys
<1>2. \E m \in S : \A x \in S : m <= x
  <2>1. S \subseteq Nat
    BY <1>1
  <2>2. QED
    BY <2>1, LeastNatural
<1>3. \E m \in S : \A x \in S : m >= x
  <2> DEFINE T == {MaxKey - x : x \in S}
  <2>1. T \subseteq Nat /\ T # {}
    <3>1. \A x \in S : x \in Nat /\ x <= MaxKey
      BY <1>1
    <3>2. \A x \in S : MaxKey - x \in Nat
      BY <1>1, <3>1
    <3>3. QED
      BY <3>2
  <2>2. PICK t \in T : \A y \in T : t <= y
    <3> HIDE DEF T
    <3>1. QED
      BY <2>1, LeastNatural
  <2>3. PICK m \in S : t = MaxKey - m
    OBVIOUS
  <2>4. ASSUME NEW x \in S PROVE m >= x
    <3>1. t <= MaxKey - x
      BY <2>2
    <3>2. m \in Nat /\ x \in Nat
      BY <1>1
    <3>3. QED
      BY <1>1, <2>3, <3>1, <3>2
  <2>5. QED
    BY <2>4
<1>4. Min(S) \in S /\ \A x \in S : Min(S) <= x
  BY <1>2 DEF Min
<1>5. Max(S) \in S /\ \A x \in S : Max(S) >= x
  BY <1>3 DEF Max
<1>6. QED
  BY <1>1, <1>4, <1>5

LEMMA Neighbours ==
    ASSUME NEW p \in 0..MaxKey
    PROVE  /\ NextOf(p) = Nowhere => \A q \in Present : q <= p
           /\ NextOf(p) # Nowhere =>
                 /\ NextOf(p) \in Present /\ NextOf(p) > p
                 /\ \A q \in Present : q > p => NextOf(p) <= q
           /\ PrevOf(p) = Nowhere => \/ p # Nowhere /\ \A q \in Present : q >= p
                                     \/ Present = {}
           /\ PrevOf(p) # Nowhere =>
                 /\ PrevOf(p) \in Present /\ (p = Nowhere \/ PrevOf(p) < p)
                 /\ \A q \in Present : p = Nowhere \/ q < p => q <= PrevOf(p)
           /\ Present \subseteq Keys /\ Keys = 1..MaxKey /\ MaxKey \in Nat
<1> DEFINE after == {k \in Present : k > p}
           before == {k \in Present : p = Nowhere \/ k < p}
<1>1. Present \subseteq Keys /\ Keys = 1..MaxKey /\ MaxKey \in Nat
  BY SessionAssumption DEF Keys, Present
<1>2. NextOf(p) = IF after = {} THEN Nowhere ELSE Min(after)
  BY DEF NextOf
<1>3. PrevOf(p) = IF before = {} THEN Nowhere ELSE Max(before)
  BY DEF PrevOf
<1>4. after # {} => Min(after) \in after /\ \A x \in after : Min(after) <= x
  <2>1. after \subseteq Keys
    BY <1>1
  <2> HIDE DEF after
  <2>2. QED
    BY <2>1, KeyExtremes
<1>5. before # {} => Max(before) \in before /\ \A x \in before : x <= Max(before)
  <2>1. before \subseteq Keys
    BY <1>1
  <2> HIDE DEF before
  <2>2. QED
    BY <2>1, KeyExtremes
<1>6. /\ NextOf(p) = Nowhere => \A q \in Present : q <= p
      /\ NextOf(p) # Nowhere =>
            /\ NextOf(p) \in Present /\ NextOf(p) > p
            /\ \A q \in Present : q > p => NextOf(p) <= q
  <2>1. CASE after = {}
    <3>1. \A q \in Present : q <= p
      BY <1>1, <2>1
    <3>2. QED
      BY <1>2, <2>1, <3>1
  <2>2. CASE after # {}
    <3>1. Min(after) \in Present /\ Min(after) > p /\ \A q \in Present : q > p => Min(after) <= q
      BY <1>4, <2>2
    <3>2. Min(after) # Nowhere
      BY <1>1, <3>1 DEF Nowhere
    <3>3. QED
      BY <1>2, <2>2, <3>1, <3>2
  <2>3. QED
    BY <2>1, <2>2
<1>7. /\ PrevOf(p) = Nowhere => \/ p # Nowhere /\ \A q \in Present : q >= p
                                \/ Present = {}
      /\ PrevOf(p) # Nowhere =>
            /\ PrevOf(p) \in Present /\ (p = Nowhere \/ PrevOf(p) < p)
            /\ \A q \in Present : p = Nowhere \/ q < p => q <= PrevOf(p)
  <2>1. CASE before = {}
    <3>1. (p # Nowhere /\ \A q \in Present : q >= p) \/ Present = {}
      BY <1>1, <2>1
    <3>2. QED
      BY <1>3, <2>1, <3>1
  <2>2. CASE before # {}
    <3>1. /\ Max(before) \in Present /\ (p = Nowhere \/ Max(before) < p)
          /\ \A q \in Present : p = Nowhere \/ q < p => q <= Max(before)
      BY <1>5, <2>2
    <3>2. Max(before) # Nowhere
      BY <1>1, <3>1 DEF Nowhere
    <3>3. QED
      BY <1>3, <2>2, <3>1, <3>2
  <2>3. QED
    BY <2>1, <2>2
<1>8. QED
  BY <1>1, <1>6, <1>7

-----------------------------------------------------------------------------
(* One iterator.                                                            *)

IteratorType == [direction : {-1, 0, 1}, key : 0..MaxKey, first : BOOLEAN,
                 position : 0..MaxKey, seen : Seq(Keys), steady : SUBSET Keys,
                 ended : BOOLEAN, crossed : BOOLEAN]

\* What IterationIsExact says of one iterator.
Exact(it) ==
    /\ \A a, b \in DOMAIN it.seen :
          a < b => IF it.direction < 0 THEN it.seen[a] > it.seen[b] ELSE it.seen[a] < it.seen[b]
    /\ ToSet(it.seen) \subseteq Asked(it)
    /\ it.direction = 0 /\ it.key # Nowhere /\ it.seen # << >> => it.seen[1] = it.key
    /\ it.ended /\ ~it.crossed =>
          IF it.direction = 0 /\ it.key # Nowhere /\ it.seen = << >>
            THEN it.key \notin it.steady
            ELSE it.steady \cap Asked(it) \subseteq ToSet(it.seen)

\* The keys an iterator that has returned one has not left behind.
Ahead(it, k) == IF it.direction < 0 THEN k < it.position ELSE k > it.position

\* Where an iterator stands: it has returned every steady key it was asked for that is
\* not ahead.
Stands(it) ==
    /\ it.crossed => it.seen = << >>
    /\ it.first => it.key # Nowhere /\ it.seen = << >> /\ ~it.ended
    /\ ~it.crossed /\ ~it.ended /\ ~it.first /\ it.seen = << >> =>
          it.key = Nowhere /\ it.position = Nowhere
    /\ ~it.crossed /\ ~it.ended /\ it.seen # << >> =>
          /\ it.position = it.seen[Len(it.seen)]
          /\ \A k \in it.steady \cap Asked(it) : Ahead(it, k) \/ k \in ToSet(it.seen)

GoodIterator(it) == it \in IteratorType /\ Stands(it) /\ Exact(it)

\* An iterator loses keys from its history when they leave the table.
LEMMA RemovalIsGood ==
    ASSUME NEW it, GoodIterator(it), NEW k
    PROVE  LET j == [it EXCEPT !.steady = @ \ {k}] IN
           GoodIterator(j) /\ j.crossed = it.crossed /\ j.steady = it.steady \ {k}
<1> DEFINE j == [it EXCEPT !.steady = @ \ {k}]
<1>1. /\ j \in IteratorType /\ j.steady = it.steady \ {k}
      /\ j.direction = it.direction /\ j.key = it.key /\ j.first = it.first
      /\ j.position = it.position /\ j.seen = it.seen
      /\ j.ended = it.ended /\ j.crossed = it.crossed
  BY DEF GoodIterator, IteratorType
<1> HIDE DEF j
<1>2. Asked(j) = Asked(it) /\ \A q : Ahead(j, q) = Ahead(it, q)
  BY <1>1 DEF Asked, Ahead
<1>3. Stands(j)
  BY <1>1, <1>2 DEF GoodIterator, Stands
<1>4. Exact(j)
  BY <1>1, <1>2 DEF GoodIterator, Exact
<1>5. QED
  BY <1>1, <1>3, <1>4 DEF GoodIterator, j

\* The end of a transaction ends what is known of an iterator.
LEMMA CrossingIsGood ==
    ASSUME NEW it, GoodIterator(it)
    PROVE  LET j == [it EXCEPT !.crossed = TRUE, !.position = Nowhere, !.seen = << >>, !.steady = {}]
           IN  GoodIterator(j) /\ j.crossed
<1> DEFINE j == [it EXCEPT !.crossed = TRUE, !.position = Nowhere, !.seen = << >>, !.steady = {}]
<1>1. /\ j \in IteratorType /\ j.seen = << >> /\ j.crossed = TRUE
      /\ j.first = it.first /\ j.key = it.key /\ j.ended = it.ended
  <2> DEFINE t == TRUE
             p == Nowhere
             e == << >>
             n == {}
  <2>1. t \in BOOLEAN /\ p \in 0..MaxKey /\ e \in Seq(Keys) /\ n \in SUBSET Keys
    BY SessionAssumption, EmptySeq DEF Nowhere
  <2>2. j = [it EXCEPT !.crossed = t, !.position = p, !.seen = e, !.steady = n]
    OBVIOUS
  <2>3. it \in IteratorType
    BY DEF GoodIterator
  <2> HIDE DEF t, p, e, n, j
  <2>4. j \in IteratorType
    BY <2>1, <2>2, <2>3 DEF IteratorType
  <2>5. j.seen = e /\ j.crossed = t /\ j.first = it.first /\ j.key = it.key /\ j.ended = it.ended
    BY <2>2, <2>3 DEF IteratorType
  <2>6. QED
    BY <2>4, <2>5 DEF t, e
<1> HIDE DEF j
<1>2. DOMAIN j.seen = {} /\ ToSet(j.seen) = {}
  BY <1>1 DEF ToSet
<1>3. Stands(j) /\ Exact(j)
  BY <1>1, <1>2 DEF GoodIterator, Stands, Exact
<1>4. QED
  BY <1>1, <1>3 DEF GoodIterator, j

\* A new one has returned nothing.
LEMMA NewIsGood ==
    ASSUME NEW d \in {-1, 0, 1}, NEW key \in Keys \cup {Nowhere}
    PROVE  GoodIterator([direction |-> d, key |-> key, first |-> key # Nowhere,
                         position |-> Nowhere, seen |-> << >>, steady |-> Present,
                         ended |-> FALSE, crossed |-> FALSE])
<1> DEFINE j == [direction |-> d, key |-> key, first |-> key # Nowhere,
                 position |-> Nowhere, seen |-> << >>, steady |-> Present,
                 ended |-> FALSE, crossed |-> FALSE]
<1>1. MaxKey \in Nat /\ Keys = 1..MaxKey /\ Present \subseteq Keys
  BY SessionAssumption DEF Keys, Present
<1>2. key \in 0..MaxKey /\ Nowhere \in 0..MaxKey /\ << >> \in Seq(Keys)
  BY <1>1, EmptySeq DEF Nowhere
<1>3. j \in IteratorType
  BY <1>1, <1>2 DEF IteratorType
<1>4. /\ j.seen = << >> /\ j.ended = FALSE /\ j.crossed = FALSE /\ j.position = Nowhere
      /\ j.key = key /\ (j.first <=> key # Nowhere)
  OBVIOUS
<1> HIDE DEF j
<1>5. DOMAIN j.seen = {} /\ ToSet(j.seen) = {}
  BY <1>4 DEF ToSet
<1>6. Stands(j) /\ Exact(j)
  BY <1>4, <1>5 DEF Stands, Exact
<1>7. QED
  BY <1>3, <1>6 DEF GoodIterator, j

-----------------------------------------------------------------------------
(* One step of an iterator.                                                 *)

\* The key that Next goes to: of those it was asked for and that lie ahead, the nearest.
Chosen(it, k) ==
    IF k = Nowhere
      THEN IF it.direction = 0 /\ it.key # Nowhere /\ it.seen = << >>
             THEN it.key \notin Present
             ELSE \A q \in Present \cap Asked(it) : it.seen # << >> /\ ~Ahead(it, q)
      ELSE /\ k \in Present \cap Asked(it)
           /\ it.seen # << >> => Ahead(it, k)
           /\ it.direction = 0 /\ it.key # Nowhere /\ it.seen = << >> => k = it.key
           /\ \A q \in Present \cap Asked(it) :
                 it.seen = << >> \/ Ahead(it, q) => IF it.direction < 0 THEN q <= k ELSE k <= q

\* Wherever search_near ends, the first search leaves the wrong side.
LEMMA FirstKeyIsChosen ==
    ASSUME NEW it, GoodIterator(it), it.first, NEW k \in FirstKeys(it)
    PROVE  Chosen(it, k)
<1> DEFINE key == it.key
<1>1. /\ Present \subseteq Keys /\ Keys = 1..MaxKey /\ MaxKey \in Nat
      /\ key \in Keys /\ it.seen = << >> /\ it.direction \in {-1, 0, 1}
  BY SessionAssumption DEF GoodIterator, Stands, IteratorType, Nowhere, Keys, Present
<1>2. \A q \in Keys : q \in Asked(it) <=> IF it.direction < 0 THEN q <= key ELSE q >= key
  BY <1>1 DEF Asked, Nowhere
<1>3. \A q \in Keys : q # Nowhere
  BY <1>1 DEF Nowhere
<1>4. CASE it.direction = 0
  <2>1. k = IF key \in Present THEN key ELSE Nowhere
    BY <1>4 DEF FirstKeys
  <2>2. CASE key \in Present
    <3>1. k = key /\ k # Nowhere /\ k \in Present /\ ~(it.direction < 0)
      BY <1>1, <1>3, <1>4, <2>1, <2>2
    <3>2. k \in Asked(it) /\ \A q \in Present \cap Asked(it) : k <= q
      BY <1>1, <1>2, <3>1
    <3>3. QED
      BY <1>1, <3>1, <3>2 DEF Chosen
  <2>3. CASE key \notin Present
    BY <1>1, <1>3, <1>4, <2>1, <2>3 DEF Chosen
  <2>4. QED
    BY <2>2, <2>3
<1>5. CASE it.direction # 0
  <2>1. PICK near \in SearchNear(key) :
             k = CASE it.direction < 0 /\ near > key                     -> PrevOf(near)
                   [] it.direction > 0 /\ near < key /\ near # Nowhere -> NextOf(near)
                   [] OTHER                                                -> near
    BY <1>5 DEF FirstKeys
  <2>2. /\ it.direction < 0 /\ near > key => k = PrevOf(near)
        /\ it.direction > 0 /\ near < key /\ near # Nowhere => k = NextOf(near)
        /\ it.direction < 0 /\ ~(near > key) => k = near
        /\ it.direction > 0 /\ ~(near < key /\ near # Nowhere) => k = near
    <3>1. ~(it.direction < 0 /\ it.direction > 0)
      BY <1>1
    <3>2. QED
      BY <2>1, <3>1
  <2>3. SUFFICES IF k = Nowhere
                   THEN \A q \in Present : q \notin Asked(it)
                   ELSE /\ k \in Present \cap Asked(it)
                        /\ \A q \in Present \cap Asked(it) : IF it.direction < 0 THEN q <= k ELSE k <= q
    BY <1>1, <1>5 DEF Chosen
  <2>4. it.direction < 0 \/ it.direction > 0
    BY <1>1, <1>5
  <2>5. CASE key \in Present
    <3>1. near = key
      BY <2>1, <2>5 DEF SearchNear
    <3>2. k = key
      BY <1>1, <1>5, <2>2, <3>1
    <3>3. QED
      <4>1. k # Nowhere /\ k \in Present /\ k \in Asked(it)
        BY <1>1, <1>2, <1>3, <2>5, <3>2
      <4>2. \A q \in Present \cap Asked(it) : IF it.direction < 0 THEN q <= k ELSE k <= q
        BY <1>1, <1>2, <3>2
      <4>3. QED
        BY <4>1, <4>2
  <2>6. CASE Present = {}
    <3>1. near = Nowhere
      BY <1>1, <2>1, <2>6 DEF SearchNear
    <3>2. k = Nowhere
      BY <1>1, <1>5, <2>2, <3>1 DEF Nowhere
    <3>3. QED
      BY <2>6, <3>2
  <2>7. CASE key \notin Present /\ Present # {}
    <3>1. near \in {PrevOf(key), NextOf(key)} \ {Nowhere}
      BY <2>1, <2>7 DEF SearchNear
    <3>2. key \in 0..MaxKey /\ key # Nowhere
      BY <1>1, <1>3
    <3>3. CASE near = PrevOf(key)
      <4>1. near \in Present /\ near < key /\ \A q \in Present : q < key => q <= near
        BY <3>1, <3>2, <3>3, Neighbours
      <4>2. near \in 0..MaxKey /\ near # Nowhere
        BY <1>1, <1>3, <4>1
      <4>3. CASE it.direction < 0
        <5>1. k = near
          BY <1>1, <2>2, <4>1, <4>3
        <5>2. k \in Present /\ k <= key /\ k # Nowhere
          BY <1>1, <1>3, <4>1, <5>1
        <5>3. \A q \in Present \cap Asked(it) : q <= k
          BY <1>1, <1>2, <2>7, <4>1, <4>3, <5>1
        <5>4. QED
          BY <1>1, <1>2, <4>3, <5>2, <5>3
      <4>4. CASE it.direction > 0
        <5>1. k = NextOf(near) /\ ~(it.direction < 0)
          BY <1>1, <2>2, <4>1, <4>2, <4>4
        <5>2. CASE k = Nowhere
          <6>1. \A q \in Present : q <= near
            BY <4>2, <5>1, <5>2, Neighbours
          <6>2. QED
            BY <1>1, <1>2, <4>1, <5>1, <5>2, <6>1
        <5>3. CASE k # Nowhere
          <6>1. k \in Present /\ k > near /\ \A q \in Present : q > near => k <= q
            BY <4>2, <5>1, <5>3, Neighbours
          <6>2. k >= key
            BY <1>1, <4>1, <6>1
          <6>3. \A q \in Present \cap Asked(it) : k <= q
            BY <1>1, <1>2, <4>1, <5>1, <6>1
          <6>4. QED
            BY <1>1, <1>2, <5>1, <5>3, <6>1, <6>2, <6>3
        <5>4. QED
          BY <5>2, <5>3
      <4>5. QED
        BY <2>4, <4>3, <4>4
    <3>4. CASE near = NextOf(key)
      <4>1. near \in Present /\ near > key /\ \A q \in Present : q > key => near <= q
        BY <3>1, <3>2, <3>4, Neighbours
      <4>2. near \in 0..MaxKey /\ near # Nowhere
        BY <1>1, <1>3, <4>1
      <4>3. CASE it.direction > 0
        <5>1. k = near /\ ~(it.direction < 0)
          BY <1>1, <2>2, <4>1, <4>3
        <5>2. k \in Present /\ k >= key /\ k # Nowhere
          BY <1>1, <1>3, <4>1, <5>1
        <5>3. \A q \in Present \cap Asked(it) : k <= q
          BY <1>1, <1>2, <2>7, <4>1, <5>1
        <5>4. QED
          BY <1>1, <1>2, <5>1, <5>2, <5>3
      <4>4. CASE it.direction < 0
        <5>1. k = PrevOf(near)
          BY <2>2, <4>1, <4>4
        <5>2. CASE k = Nowhere
          <6>1. \A q \in Present : q >= near
            BY <2>7, <4>2, <5>1, <5>2, Neighbours
          <6>2. QED
            BY <1>1, <1>2, <4>1, <4>4, <5>2, <6>1
        <5>3. CASE k # Nowhere
          <6>1. k \in Present /\ k < near /\ \A q \in Present : q < near => q <= k
            BY <4>2, <5>1, <5>3, Neighbours
          <6>2. k <= key
            BY <1>1, <4>1, <6>1
          <6>3. \A q \in Present \cap Asked(it) : q <= k
            BY <1>1, <1>2, <4>1, <4>4, <6>1
          <6>4. QED
            BY <1>1, <1>2, <4>4, <5>3, <6>1, <6>2, <6>3
        <5>4. QED
          BY <5>2, <5>3
      <4>5. QED
        BY <2>4, <4>3, <4>4
    <3>5. QED
      BY <3>1, <3>3, <3>4
  <2>8. QED
    BY <2>5, <2>6, <2>7
<1>6. QED
  BY <1>4, <1>5

LEMMA FollowingKeyIsChosen ==
    ASSUME NEW it, GoodIterator(it), ~it.first, ~it.ended, ~it.crossed, NEW k,
           k = IF it.direction < 0 THEN PrevOf(it.position) ELSE NextOf(it.position)
    PROVE  Chosen(it, k)
<1> DEFINE p == it.position
<1>1. /\ Present \subseteq Keys /\ Keys = 1..MaxKey /\ MaxKey \in Nat
      /\ p \in 0..MaxKey /\ it.direction \in {-1, 0, 1} /\ it.key \in 0..MaxKey
  BY SessionAssumption DEF GoodIterator, IteratorType, Keys, Present
<1>2. \A q \in Keys : q # Nowhere
  BY <1>1 DEF Nowhere
<1>3. \A q \in Keys : q \in Asked(it) <=>
          it.key = Nowhere \/ IF it.direction < 0 THEN q <= it.key ELSE q >= it.key
  BY <1>1 DEF Asked
<1>4. CASE it.seen = << >>
  <2>1. it.key = Nowhere /\ p = Nowhere
    BY <1>4 DEF GoodIterator, Stands
  <2>2. Present \cap Asked(it) = Present
    BY <1>1, <1>3, <2>1
  <2>3. CASE it.direction < 0
    <3>1. k = PrevOf(p)
      BY <2>3
    <3>2. k = Nowhere => Present = {}
      BY <1>1, <2>1, <3>1, Neighbours
    <3>3. k # Nowhere => k \in Present /\ \A q \in Present : q <= k
      BY <1>1, <2>1, <3>1, Neighbours
    <3>4. QED
      BY <1>4, <2>1, <2>2, <2>3, <3>2, <3>3 DEF Chosen
  <2>4. CASE ~(it.direction < 0)
    <3>1. k = NextOf(p)
      BY <2>4
    <3>2. \A q \in Present : q > p /\ ~(q <= p)
      BY <1>1, <2>1 DEF Nowhere
    <3>3. k = Nowhere => Present = {}
      BY <1>1, <3>1, <3>2, Neighbours
    <3>4. k # Nowhere => k \in Present /\ \A q \in Present : k <= q
      BY <1>1, <3>1, <3>2, Neighbours
    <3>5. QED
      BY <1>4, <2>1, <2>2, <2>4, <3>3, <3>4 DEF Chosen
  <2>5. QED
    BY <2>3, <2>4
<1>5. CASE it.seen # << >>
  <2>1. p \in Keys /\ p \in Asked(it)
    <3>1. it.seen \in Seq(Keys) /\ p = it.seen[Len(it.seen)]
      BY <1>5 DEF GoodIterator, IteratorType, Stands
    <3>2. Len(it.seen) \in DOMAIN it.seen /\ it.seen[Len(it.seen)] \in Keys
      BY <1>5, <3>1, EmptySeq, LenProperties
    <3>3. p \in ToSet(it.seen)
      BY <3>1, <3>2 DEF ToSet
    <3>4. QED
      BY <3>1, <3>2, <3>3 DEF GoodIterator, Exact
  <2>2. p # Nowhere
    BY <1>2, <2>1
  <2>3. CASE it.direction < 0
    <3>1. k = PrevOf(p)
      BY <2>3
    <3>2. \A q \in Present : Ahead(it, q) <=> q < p
      BY <2>3 DEF Ahead
    <3>3. CASE k = Nowhere
      <4>1. \A q \in Present : q >= p
        BY <1>1, <3>1, <3>3, Neighbours
      <4>2. \A q \in Present : ~Ahead(it, q)
        BY <1>1, <3>2, <4>1
      <4>3. QED
        BY <1>5, <3>3, <4>2 DEF Chosen
    <3>4. CASE k # Nowhere
      <4>1. k \in Present /\ k < p /\ \A q \in Present : q < p => q <= k
        BY <1>1, <2>2, <3>1, <3>4, Neighbours
      <4>2. k \in Asked(it)
        BY <1>1, <1>3, <2>1, <2>3, <4>1
      <4>3. QED
        BY <1>5, <2>3, <3>2, <3>4, <4>1, <4>2 DEF Chosen
    <3>5. QED
      BY <3>3, <3>4
  <2>4. CASE ~(it.direction < 0)
    <3>1. k = NextOf(p)
      BY <2>4
    <3>2. \A q \in Present : Ahead(it, q) <=> q > p
      BY <2>4 DEF Ahead
    <3>3. CASE k = Nowhere
      <4>1. \A q \in Present : q <= p
        BY <1>1, <3>1, <3>3, Neighbours
      <4>2. \A q \in Present : ~Ahead(it, q)
        BY <1>1, <3>2, <4>1
      <4>3. QED
        BY <1>5, <3>3, <4>2 DEF Chosen
    <3>4. CASE k # Nowhere
      <4>1. k \in Present /\ k > p /\ \A q \in Present : q > p => k <= q
        BY <1>1, <3>1, <3>4, Neighbours
      <4>2. k \in Asked(it)
        BY <1>1, <1>3, <2>1, <2>4, <4>1
      <4>3. QED
        BY <1>5, <2>4, <3>2, <3>4, <4>1, <4>2 DEF Chosen
    <3>5. QED
      BY <3>3, <3>4
  <2>5. QED
    BY <2>3, <2>4
<1>6. QED
  BY <1>4, <1>5


\* Next keeps what is known of the iterator.
LEMMA AdvanceIsGood ==
    ASSUME NEW it, GoodIterator(it), ~it.ended, ~it.crossed, it.steady \subseteq Present,
           NEW k, Chosen(it, k)
    PROVE  LET j == [it EXCEPT !.first = FALSE, !.position = k, !.ended = (k = Nowhere),
                               !.seen = IF k = Nowhere THEN @ ELSE Append(@, k)]
           IN  GoodIterator(j) /\ ~j.crossed /\ j.steady = it.steady
<1> DEFINE e == k = Nowhere
           f == FALSE
           s == IF k = Nowhere THEN it.seen ELSE Append(it.seen, k)
           j == [it EXCEPT !.first = f, !.position = k, !.ended = e, !.seen = s]
           n == Len(it.seen)
<1>1. /\ Present \subseteq Keys /\ Keys = 1..MaxKey /\ MaxKey \in Nat
      /\ it.direction \in {-1, 0, 1} /\ it.seen \in Seq(Keys) /\ it \in IteratorType
      /\ n \in Nat /\ DOMAIN it.seen = 1..n
      /\ \A q \in DOMAIN it.seen : it.seen[q] \in Keys
  <2>1. it \in IteratorType /\ it.seen \in Seq(Keys) /\ it.direction \in {-1, 0, 1}
    BY DEF GoodIterator, IteratorType
  <2>2. it.seen \in [1..n -> Keys] /\ n \in Nat
    BY <2>1, LenProperties
  <2>3. QED
    BY <2>1, <2>2, SessionAssumption DEF Keys, Present
<1>2. k = Nowhere \/ (k \in Keys /\ k \in Present /\ k # Nowhere)
  BY <1>1 DEF Chosen
<1>3. e \in BOOLEAN /\ f \in BOOLEAN /\ k \in 0..MaxKey /\ s \in Seq(Keys)
  <2>1. CASE k = Nowhere
    BY <1>1, <2>1 DEF Nowhere
  <2>2. CASE k # Nowhere
    BY <1>1, <1>2, <2>2, AppendProperties
  <2>3. QED
    BY <2>1, <2>2
<1>4. /\ j \in IteratorType
      /\ j.direction = it.direction /\ j.key = it.key /\ j.steady = it.steady
      /\ j.first = f /\ j.crossed = it.crossed /\ j.position = k /\ j.ended = e /\ j.seen = s
  <2> HIDE DEF e, f, s
  <2>1. j \in IteratorType
    BY <1>1, <1>3 DEF IteratorType
  <2>2. j.direction = it.direction /\ j.key = it.key /\ j.steady = it.steady
        /\ j.crossed = it.crossed
    BY <1>1 DEF IteratorType
  <2>3. j.first = f /\ j.position = k /\ j.ended = e /\ j.seen = s
    BY <1>1 DEF IteratorType
  <2>4. QED
    BY <2>1, <2>2, <2>3
<1>5. j = [it EXCEPT !.first = FALSE, !.position = k, !.ended = (k = Nowhere),
                     !.seen = IF k = Nowhere THEN @ ELSE Append(@, k)]
  OBVIOUS
<1> HIDE DEF j
<1>6. Asked(j) = Asked(it) /\ ToSet(it.seen) \subseteq Asked(it)
  BY <1>4 DEF Asked, GoodIterator, Exact
<1>7. CASE k = Nowhere
  <2>1. j.seen = it.seen /\ j.ended = TRUE /\ j.first = FALSE
    BY <1>4, <1>7
  <2>2. Stands(j)
    BY <1>4, <2>1 DEF Stands
  <2>3. IF it.direction = 0 /\ it.key # Nowhere /\ it.seen = << >>
          THEN it.key \notin it.steady
          ELSE it.steady \cap Asked(it) \subseteq ToSet(it.seen)
    <3>1. CASE it.direction = 0 /\ it.key # Nowhere /\ it.seen = << >>
      BY <1>7, <3>1 DEF Chosen
    <3>2. CASE ~(it.direction = 0 /\ it.key # Nowhere /\ it.seen = << >>)
      <4>1. ASSUME NEW q \in it.steady \cap Asked(it) PROVE q \in ToSet(it.seen)
        <5>1. it.seen # << >> /\ ~Ahead(it, q)
          BY <1>7, <3>2, <4>1 DEF Chosen
        <5>2. QED
          BY <4>1, <5>1 DEF GoodIterator, Stands
      <4>2. QED
        BY <3>2, <4>1
    <3>3. QED
      BY <3>1, <3>2
  <2>4. Exact(j)
    BY <1>4, <1>6, <2>1, <2>3 DEF Exact, GoodIterator
  <2>5. QED
    BY <1>4, <1>5, <2>2, <2>4 DEF GoodIterator
<1>8. CASE k # Nowhere
  <2>1. /\ j.seen = Append(it.seen, k) /\ j.ended = FALSE /\ j.first = FALSE
        /\ k \in Keys /\ k \in Present
    BY <1>2, <1>4, <1>8
  <2>2. /\ DOMAIN j.seen = 1..(n + 1) /\ Len(j.seen) = n + 1 /\ j.seen # << >>
        /\ \A a \in 1..n : j.seen[a] = it.seen[a]
        /\ j.seen[n + 1] = k
    <3>1. /\ Len(j.seen) = n + 1 /\ j.seen \in Seq(Keys)
          /\ \A a \in 1..n : j.seen[a] = it.seen[a]
          /\ j.seen[n + 1] = k
      BY <1>1, <2>1, AppendProperties
    <3>2. DOMAIN j.seen = 1..(n + 1)
      BY <1>1, <3>1, LenProperties
    <3>3. n + 1 \in DOMAIN j.seen
      BY <1>1, <3>2
    <3>4. QED
      BY <3>1, <3>2, <3>3
  <2>3. ToSet(j.seen) = ToSet(it.seen) \cup {k}
    <3>1. \A a \in 1..n : a \in DOMAIN j.seen /\ j.seen[a] = it.seen[a]
      BY <1>1, <2>2
    <3>2. \A a \in DOMAIN j.seen : a \in 1..n \/ j.seen[a] = k
      BY <1>1, <2>2
    <3>3. n + 1 \in DOMAIN j.seen /\ j.seen[n + 1] = k
      BY <1>1, <2>2
    <3>4. ToSet(j.seen) \subseteq ToSet(it.seen) \cup {k}
      BY <1>1, <3>1, <3>2 DEF ToSet
    <3>5. ToSet(it.seen) \cup {k} \subseteq ToSet(j.seen)
      BY <1>1, <3>1, <3>3 DEF ToSet
    <3>6. QED
      BY <3>4, <3>5
  <2>4. k \in Asked(it) /\ (it.seen # << >> => Ahead(it, k))
    BY <1>8 DEF Chosen
  <2>5. it.seen # << >> => n \in 1..n /\ it.position = it.seen[n]
    <3>1. it.seen # << >> => it.position = it.seen[n]
      BY DEF GoodIterator, Stands
    <3>2. it.seen # << >> => n # 0
      BY <1>1, EmptySeq
    <3>3. QED
      BY <1>1, <3>1, <3>2
  <2>6. Stands(j)
    <3>1. ASSUME NEW q \in it.steady \cap Asked(it), ~Ahead(j, q)
          PROVE  q \in ToSet(j.seen)
      <4>1. q \in Present \cap Asked(it) /\ q \in Nat /\ k \in Nat
        <5>1. q \in Present
          BY <3>1
        <5>2. \A x \in Keys : x \in Nat
          BY <1>1
        <5>3. QED
          BY <1>1, <2>1, <3>1, <5>1, <5>2
      <4>2. IF it.direction < 0 THEN ~(q < k) ELSE ~(q > k)
        BY <1>4, <3>1 DEF Ahead
      <4>3. CASE it.seen = << >> \/ Ahead(it, q)
        <5>1. IF it.direction < 0 THEN q <= k ELSE k <= q
          BY <1>8, <4>1, <4>3 DEF Chosen
        <5>2. q = k
          BY <4>1, <4>2, <5>1
        <5>3. QED
          BY <2>3, <5>2
      <4>4. CASE ~(it.seen = << >> \/ Ahead(it, q))
        BY <2>3, <3>1, <4>4 DEF GoodIterator, Stands
      <4>5. QED
        BY <4>3, <4>4
    <3>2. j.position = j.seen[Len(j.seen)]
      BY <1>4, <2>2
    <3>3. QED
      BY <1>4, <1>6, <2>1, <2>2, <3>1, <3>2 DEF Stands
  <2>7. ASSUME NEW a \in DOMAIN j.seen, NEW b \in DOMAIN j.seen, a < b
        PROVE  IF it.direction < 0 THEN j.seen[a] > j.seen[b] ELSE j.seen[a] < j.seen[b]
    <3>1. a \in 1..n /\ j.seen[a] = it.seen[a]
      BY <1>1, <2>2, <2>7
    <3>2. CASE b # n + 1
      <4>1. b \in 1..n /\ j.seen[b] = it.seen[b]
        BY <1>1, <2>2, <3>2
      <4>2. QED
        BY <1>1, <2>7, <3>1, <4>1 DEF GoodIterator, Exact
    <3>3. CASE b = n + 1
      <4>1. it.seen # << >>
        BY <1>1, <3>1, EmptySeq
      <4>2. it.seen[a] \in Nat /\ it.seen[n] \in Nat /\ k \in Nat /\ n \in 1..n
        BY <1>1, <2>1, <2>5, <3>1, <4>1
      <4>3. IF it.direction < 0 THEN k < it.seen[n] ELSE k > it.seen[n]
        BY <2>4, <2>5, <4>1 DEF Ahead
      <4>4. a = n \/ (IF it.direction < 0 THEN it.seen[a] > it.seen[n] ELSE it.seen[a] < it.seen[n])
        BY <1>1, <3>1, <4>2 DEF GoodIterator, Exact
      <4>5. QED
        BY <2>2, <3>1, <3>3, <4>2, <4>3, <4>4
    <3>4. QED
      BY <3>2, <3>3
  <2>8. it.direction = 0 /\ it.key # Nowhere => j.seen[1] = it.key
    <3>1. CASE it.seen = << >>
      <4>1. n = 0
        BY <3>1, EmptySeq
      <4>2. j.seen[1] = k
        BY <2>2, <4>1
      <4>3. QED
        BY <1>8, <3>1, <4>2 DEF Chosen
    <3>2. CASE it.seen # << >>
      <4>1. 1 \in 1..n
        BY <1>1, <2>5, <3>2
      <4>2. j.seen[1] = it.seen[1]
        BY <2>2, <4>1
      <4>3. QED
        BY <3>2, <4>2 DEF GoodIterator, Exact
    <3>3. QED
      BY <3>1, <3>2
  <2>9. Exact(j)
    BY <1>4, <1>6, <2>1, <2>3, <2>4, <2>7, <2>8 DEF Exact
  <2>10. QED
    BY <1>4, <1>5, <2>6, <2>9 DEF GoodIterator
<1>9. QED
  BY <1>7, <1>8

-----------------------------------------------------------------------------
(* The iterators of a session.                                              *)

GoodIterators ==
    {it \in IteratorType : GoodIterator(it) /\ (it.crossed \/ it.steady \subseteq Present)}

Tables == [Keys -> Values \cup {Absent}]

\* The table and the iterators have their types, every iterator stands where it should,
\* and the keys it counts as steady are in the table.
IterationInv ==
    /\ table \in Tables /\ durable \in Tables
    /\ iterators \in Seq(GoodIterators)

LEMMA IterationFacts ==
    ASSUME IterationInv
    PROVE  /\ Len(iterators) \in Nat /\ DOMAIN iterators = 1..Len(iterators)
           /\ \A n \in DOMAIN iterators :
                 /\ iterators[n] \in IteratorType /\ GoodIterator(iterators[n])
                 /\ iterators[n].crossed \/ iterators[n].steady \subseteq Present
                 /\ iterators[n].crossed \in BOOLEAN
<1>1. iterators \in [1..Len(iterators) -> GoodIterators] /\ Len(iterators) \in Nat
  BY LenProperties DEF IterationInv
<1>2. \A it \in GoodIterators :
          /\ it \in IteratorType /\ GoodIterator(it)
          /\ it.crossed \/ it.steady \subseteq Present
          /\ it.crossed \in BOOLEAN
  BY DEF GoodIterators, IteratorType
<1>3. QED
  BY <1>1, <1>2

\* Every iterator is changed at once.
LEMMA AllChanged ==
    ASSUME IterationInv, iterators' \in [DOMAIN iterators -> GoodIterators']
    PROVE  iterators' \in Seq(GoodIterators')
<1>1. iterators' \in [1..Len(iterators) -> GoodIterators'] /\ Len(iterators) \in Nat
  BY IterationFacts
<1>2. QED
  BY <1>1, SeqDef

LEMMA WriteIterates ==
    ASSUME IterationInv, NEW k \in Keys, NEW v \in Values \cup {Absent}, Write(k, v)
    PROVE  IterationInv'
<1>1. table' \in Tables /\ durable' \in Tables
  BY DEF IterationInv, Tables, Write
<1>2. table' = [table EXCEPT ![k] = v] /\ table \in Tables
  BY DEF IterationInv, Write
<1>3. CASE v # Absent
  <2>1. iterators' = iterators
    BY <1>3 DEF Write
  <2>2. Present \subseteq Present'
    BY <1>2, <1>3 DEF Present, Tables
  <2>3. GoodIterators \subseteq GoodIterators'
    BY <2>2 DEF GoodIterators
  <2>4. QED
    BY <1>1, <2>1, <2>3, SeqMonotonic DEF IterationInv
<1>4. CASE v = Absent
  <2>1. iterators' = [n \in DOMAIN iterators |-> [iterators[n] EXCEPT !.steady = @ \ {k}]]
    BY <1>4 DEF Write
  <2>2. Present \ {k} \subseteq Present'
    BY <1>2 DEF Present, Tables
  <2>3. ASSUME NEW n \in DOMAIN iterators
        PROVE  [iterators[n] EXCEPT !.steady = @ \ {k}] \in GoodIterators'
    <3> DEFINE it == iterators[n]
               j == [it EXCEPT !.steady = @ \ {k}]
    <3>1. GoodIterator(it) /\ (it.crossed \/ it.steady \subseteq Present)
      BY IterationFacts
    <3> HIDE DEF it
    <3>2. GoodIterator(j) /\ j.crossed = it.crossed /\ j.steady = it.steady \ {k}
      BY <3>1, RemovalIsGood
    <3> HIDE DEF j
    <3>3. j \in GoodIterators'
      BY <2>2, <3>1, <3>2 DEF GoodIterators, GoodIterator
    <3>4. QED
      BY <3>3 DEF it, j
  <2>4. iterators' \in [DOMAIN iterators -> GoodIterators']
    BY <2>1, <2>3
  <2>5. QED
    BY <1>1, <2>4, AllChanged DEF IterationInv
<1>5. QED
  BY <1>3, <1>4

LEMMA EndIterates ==
    ASSUME IterationInv, EndTransaction
    PROVE  IterationInv'
<1>1. CASE engine /\ ~engine'
  <2>1. table' \in Tables /\ durable' \in Tables
    BY <1>1 DEF EndTransaction, IterationInv
  <2>2. iterators' = [n \in DOMAIN iterators |->
           [iterators[n] EXCEPT !.crossed = TRUE, !.position = Nowhere, !.seen = << >>, !.steady = {}]]
    BY <1>1 DEF EndTransaction
  <2>3. ASSUME NEW n \in DOMAIN iterators
        PROVE  [iterators[n] EXCEPT !.crossed = TRUE, !.position = Nowhere,
                                    !.seen = << >>, !.steady = {}] \in GoodIterators'
    <3> DEFINE it == iterators[n]
               j == [it EXCEPT !.crossed = TRUE, !.position = Nowhere, !.seen = << >>, !.steady = {}]
    <3>1. GoodIterator(it)
      BY IterationFacts
    <3> HIDE DEF it
    <3>2. GoodIterator(j) /\ j.crossed
      BY <3>1, CrossingIsGood
    <3> HIDE DEF j
    <3>3. j \in GoodIterators'
      BY <3>2 DEF GoodIterators, GoodIterator
    <3>4. QED
      BY <3>3 DEF it, j
  <2>4. iterators' \in [DOMAIN iterators -> GoodIterators']
    BY <2>2, <2>3
  <2>5. QED
    BY <2>1, <2>4, AllChanged DEF IterationInv
<1>2. CASE ~(engine /\ ~engine')
  BY <1>2 DEF EndTransaction, dataVars, IterationInv, GoodIterators, Present
<1>3. QED
  BY <1>1, <1>2

LEMMA NextIterates ==
    ASSUME IterationInv, NEW n \in 1..MaxIterators, IteratorNext(n)
    PROVE  IterationInv'
<1> DEFINE it == iterators[n]
<1>1. n \in DOMAIN iterators /\ ~it.ended /\ ~it.crossed
  BY DEF IteratorNext
<1>2. GoodIterator(it) /\ it.steady \subseteq Present
  BY <1>1, IterationFacts
<1>3. PICK k \in IF it.first THEN FirstKeys(it)
                 ELSE {IF it.direction < 0 THEN PrevOf(it.position) ELSE NextOf(it.position)} :
         iterators' = [iterators EXCEPT ![n] =
             [it EXCEPT !.first = FALSE, !.position = k, !.ended = (k = Nowhere),
                        !.seen = IF k = Nowhere THEN @ ELSE Append(@, k)]]
  BY DEF IteratorNext
<1>4. Chosen(it, k)
  <2> HIDE DEF it
  <2>1. CASE it.first
    BY <1>2, <1>3, <2>1, FirstKeyIsChosen
  <2>2. CASE ~it.first
    BY <1>1, <1>2, <1>3, <2>2, FollowingKeyIsChosen
  <2>3. QED
    BY <2>1, <2>2
<1> DEFINE j == [it EXCEPT !.first = FALSE, !.position = k, !.ended = (k = Nowhere),
                           !.seen = IF k = Nowhere THEN @ ELSE Append(@, k)]
<1>5. GoodIterator(j) /\ ~j.crossed /\ j.steady = it.steady
  <2> HIDE DEF it
  <2>1. QED
    BY <1>1, <1>2, <1>4, AdvanceIsGood
<1>6. iterators' = [iterators EXCEPT ![n] = j]
  BY <1>3
<1> HIDE DEF j, it
<1>7. j \in GoodIterators
  BY <1>2, <1>5 DEF GoodIterators, GoodIterator
<1>8. iterators' \in Seq(GoodIterators)
  BY <1>1, <1>6, <1>7, IterationFacts, ExceptSeq DEF IterationInv
<1>9. QED
  BY <1>8 DEF IteratorNext, IterationInv, GoodIterators, Present

LEMMA OpenIterates ==
    ASSUME IterationInv, NEW d \in {-1, 0, 1}, NEW key \in Keys \cup {Nowhere}, OpenIterator(d, key)
    PROVE  IterationInv'
<1> DEFINE j == [direction |-> d, key |-> key, first |-> key # Nowhere,
                 position |-> Nowhere, seen |-> << >>, steady |-> Present,
                 ended |-> FALSE, crossed |-> FALSE]
<1>1. GoodIterator(j)
  BY NewIsGood
<1>2. j.steady = Present /\ iterators' = Append(iterators, j)
  BY DEF OpenIterator
<1> HIDE DEF j
<1>3. j \in GoodIterators
  BY <1>1, <1>2 DEF GoodIterators, GoodIterator
<1>4. iterators' \in Seq(GoodIterators)
  BY <1>2, <1>3, AppendProperties DEF IterationInv
<1>5. QED
  BY <1>4 DEF OpenIterator, IterationInv, GoodIterators, Present

LEMMA DestroyIterates ==
    ASSUME IterationInv, NEW n \in 1..MaxIterators, DestroyIterator(n)
    PROVE  IterationInv' /\ Len(iterators') = Len(iterators) - 1
<1> DEFINE l == Len(iterators)
<1>1. /\ iterators' = SubSeq(iterators, 1, n - 1) \o SubSeq(iterators, n + 1, l)
      /\ n \in 1..l /\ l \in Nat
  BY IterationFacts DEF DestroyIterator, RemoveAt
<1>2. \A i \in 1..l : iterators[i] \in GoodIterators
  BY ElementOfSeq DEF IterationInv
<1>3. /\ SubSeq(iterators, 1, n - 1) \in Seq(GoodIterators)
      /\ SubSeq(iterators, n + 1, l) \in Seq(GoodIterators)
      /\ Len(SubSeq(iterators, 1, n - 1)) = n - 1
      /\ Len(SubSeq(iterators, n + 1, l)) = l - n
  <2>1. \A i \in 1..(n - 1) : iterators[i] \in GoodIterators
    BY <1>1, <1>2
  <2>2. \A i \in (n + 1)..l : iterators[i] \in GoodIterators
    BY <1>1, <1>2
  <2>3. 1 \in Int /\ n - 1 \in Int /\ n + 1 \in Int /\ l \in Int
    BY <1>1
  <2>4. QED
    BY <1>1, <2>1, <2>2, <2>3, SubSeqProperties
<1>4. iterators' \in Seq(GoodIterators) /\ Len(iterators') = (n - 1) + (l - n)
  <2> DEFINE a == SubSeq(iterators, 1, n - 1)
             b == SubSeq(iterators, n + 1, l)
  <2>1. /\ a \in Seq(GoodIterators) /\ b \in Seq(GoodIterators)
        /\ Len(a) = n - 1 /\ Len(b) = l - n
    BY <1>3
  <2>2. a \o b \in Seq(GoodIterators) /\ Len(a \o b) = Len(a) + Len(b)
    <3> HIDE DEF a, b
    <3>1. QED
      BY <2>1, ConcatProperties
  <2>3. Len(a \o b) = (n - 1) + (l - n)
    BY <2>1, <2>2
  <2>4. QED
    BY <1>1, <2>2, <2>3
<1>5. Len(iterators') = l - 1
  <2>1. n \in Int /\ l \in Int
    BY <1>1
  <2>2. (n - 1) + (l - n) = l - 1
    BY <2>1
  <2>3. QED
    BY <1>4, <2>2
<1>6. IterationInv'
  BY <1>4 DEF DestroyIterator, IterationInv, GoodIterators, Present
<1>7. QED
  BY <1>5, <1>6

LEMMA IterationStep ==
    ASSUME IterationInv, [SessionNext]_sessionVars
    PROVE  IterationInv'
<1>1. ASSUME UNCHANGED dataVars PROVE IterationInv'
  BY <1>1 DEF dataVars, IterationInv, GoodIterators, Present
<1>2. CASE Session
  BY <1>1, <1>2 DEF Session, CopySession, DestroySession
<1>3. CASE Table
  BY <1>3, WriteIterates DEF Table, Insert, Set, AppendRecord, RemoveRecord, Present
<1>4. CASE Iterator
  BY <1>4, OpenIterates, NextIterates, DestroyIterates DEF Iterator
<1>5. CASE BeginTransaction
  BY <1>1, <1>5 DEF BeginTransaction
<1>6. ASSUME NEW k \in 1..MaxHandles, UseTransaction(k)
      PROVE  IterationInv'
  BY <1>6, EndIterates DEF UseTransaction
<1>7. CASE UNCHANGED sessionVars
  BY <1>1, <1>7 DEF sessionVars
<1>8. QED
  BY <1>2, <1>3, <1>4, <1>5, <1>6, <1>7 DEF SessionNext

\* The inductive invariant of sessions and their iterators holds in every state.
THEOREM IterationInvariance == SessionSpec => []IterationInv
<1>1. SessionInit => IterationInv
  BY EmptySeq DEF SessionInit, IterationInv, Tables
<1>2. IterationInv /\ [SessionNext]_sessionVars => IterationInv'
  BY IterationStep
<1>3. QED
  BY <1>1, <1>2, PTL DEF SessionSpec

\* Whatever is written between two calls of Next, and on whichever side of a missing key
\* search_near ends, an iterator returns keys in order and from its side, and when it is
\* through it has returned all that were in the table since it was made.
THEOREM IterationExact == SessionSpec => []IterationIsExact
<1>1. IterationInv => IterationIsExact
  <2>1. SUFFICES ASSUME IterationInv, NEW n \in DOMAIN iterators
                 PROVE  Exact(iterators[n])
    BY DEF IterationIsExact, Exact
  <2>2. QED
    BY <2>1, IterationFacts DEF GoodIterator
<1>2. QED
  BY <1>1, IterationInvariance, PTL

-----------------------------------------------------------------------------
(* The WT_SESSION.                                                          *)

\* The Impl counts once, and each cursor.
LivesInv ==
    /\ sessions \in Nat
    /\ wtRefs = Len(iterators) + (IF sessions > 0 THEN 1 ELSE 0)

LEMMA LivesStep ==
    ASSUME LivesInv, IterationInv, [SessionNext]_sessionVars
    PROVE  LivesInv'
<1>1. /\ iterators \in Seq(GoodIterators) /\ iterators' \in Seq(GoodIterators')
      /\ Len(iterators) \in Nat /\ Len(iterators') \in Nat
  BY IterationStep, LenProperties DEF IterationInv
<1>2. ASSUME UNCHANGED <<sessions, wtRefs>>, DOMAIN iterators' = DOMAIN iterators
      PROVE  LivesInv'
  <2>1. Len(iterators) = Len(iterators')
    BY <1>1, <1>2, LenProperties
  <2>2. QED
    BY <1>2, <2>1 DEF LivesInv
<1>3. CASE CopySession
  BY <1>3 DEF CopySession, dataVars, LivesInv
<1>4. CASE DestroySession
  <2>1. /\ sessions' = sessions - 1 /\ sessions >= 1 /\ iterators' = iterators
        /\ wtRefs' = IF sessions = 1 THEN wtRefs - 1 ELSE wtRefs
    BY <1>4 DEF DestroySession, dataVars, LivesInv
  <2>2. QED
    BY <1>1, <2>1 DEF LivesInv
<1>5. ASSUME NEW k \in Keys, NEW v, Write(k, v)
      PROVE  LivesInv'
  <2>1. DOMAIN iterators' = DOMAIN iterators
    BY <1>5 DEF Write
  <2>2. QED
    BY <1>2, <1>5, <2>1 DEF Write
<1>6. CASE Table
  BY <1>5, <1>6 DEF Table, Insert, Set, AppendRecord, RemoveRecord, Present
<1>7. ASSUME NEW direction \in {-1, 0, 1}, NEW key \in Keys \cup {Nowhere},
             OpenIterator(direction, key)
      PROVE  LivesInv'
  <2>1. Len(iterators') = Len(iterators) + 1
    BY <1>1, <1>7 DEF OpenIterator
  <2>2. wtRefs' = wtRefs + 1 /\ sessions' = sessions
    BY <1>7 DEF OpenIterator
  <2>3. QED
    BY <1>1, <2>1, <2>2 DEF LivesInv
<1>8. ASSUME NEW n \in 1..MaxIterators, IteratorNext(n)
      PROVE  LivesInv'
  <2>1. DOMAIN iterators' = DOMAIN iterators
    BY <1>8 DEF IteratorNext
  <2>2. QED
    BY <1>2, <1>8, <2>1 DEF IteratorNext
<1>9. ASSUME NEW n \in 1..MaxIterators, DestroyIterator(n)
      PROVE  LivesInv'
  <2>1. Len(iterators') = Len(iterators) - 1
    BY <1>9, DestroyIterates
  <2>2. wtRefs' = wtRefs - 1 /\ sessions' = sessions
    BY <1>9 DEF DestroyIterator
  <2>3. QED
    BY <1>1, <2>1, <2>2 DEF LivesInv
<1>10. CASE Iterator
  BY <1>7, <1>8, <1>9, <1>10 DEF Iterator
<1>11. CASE BeginTransaction
  BY <1>11 DEF BeginTransaction, dataVars, LivesInv
<1>12. ASSUME NEW k \in 1..MaxHandles, UseTransaction(k)
       PROVE  LivesInv'
  <2>1. DOMAIN iterators' = DOMAIN iterators
    BY <1>12 DEF UseTransaction, EndTransaction, dataVars
  <2>2. QED
    BY <1>2, <1>12, <2>1 DEF UseTransaction
<1>13. CASE UNCHANGED sessionVars
  BY <1>13 DEF sessionVars, dataVars, LivesInv
<1>14. QED
  BY <1>3, <1>4, <1>6, <1>10, <1>11, <1>12, <1>13 DEF SessionNext, Session

\* The references are counted right: the WT_SESSION is closed with the last object of the
\* session or cursor, in whatever order they are made and destroyed.
THEOREM SessionLives == SessionSpec => []SessionOutlivesCursors
<1>1. SessionInit => LivesInv
  <2>1. Len(<< >>) = 0
    OBVIOUS
  <2>2. QED
    BY <2>1 DEF SessionInit, LivesInv
<1>2. LivesInv /\ IterationInv /\ [SessionNext]_sessionVars => LivesInv'
  BY LivesStep
<1>3. LivesInv /\ IterationInv => SessionOutlivesCursors
  <2>1. SUFFICES ASSUME LivesInv, IterationInv
                 PROVE  SessionOutlivesCursors
    OBVIOUS
  <2>2. /\ iterators \in Seq(GoodIterators) /\ Len(iterators) \in Nat
        /\ Len(iterators) = 0 <=> iterators = << >>
    BY <2>1, EmptySeq, LenProperties DEF IterationInv
  <2>3. QED
    BY <2>1, <2>2 DEF LivesInv, SessionOutlivesCursors
<1>4. QED
  BY <1>1, <1>2, <1>3, IterationInvariance, PTL DEF SessionSpec
=============================================================================
