---------------------------- MODULE WTTransaction ----------------------------
(***************************************************************************)
(* Transactions of one TWiredTigerSession (wiredtiger/transaction.cpp and  *)
(* Begin of wiredtiger/session.cpp): handles that count themselves in the  *)
(* session, and the TWiredTigerTransactionImpl they share and delete.      *)
(*                                                                         *)
(* The handles are those of one thread, in the order they were made.       *)
(***************************************************************************)
EXTENDS Naturals, Sequences, FiniteSets

CONSTANTS MaxHandles,   \* bound: handles alive at one time
          MaxImpls,     \* bound: transactions in a behaviour
          MaxFailed,    \* bound: a transaction in which as many failed gets no new handle
          Scoped        \* whether handles are used like the frames of a stack

ASSUME BoundsAssumption == {MaxHandles, MaxImpls, MaxFailed} \subseteq Nat
ASSUME ScopedAssumption == Scoped \in BOOLEAN

VARIABLES
    active,       \* ActiveTransactions of the session, Active of every Impl
    transaction,  \* the Impl of Transaction_, 0 before the first
    impls,        \* every Impl made: [failed, committed, deleted]
    handles,      \* the live handles, oldest first: [impl, committed]
    engine,       \* whether the WT_SESSION has an open transaction
    aborted,      \* whether abort() was called
    outcomes      \* history: what the engine did with each Impl's transaction

vars == <<active, transaction, impls, handles, engine, aborted, outcomes>>

Impls == 1..Len(impls)

Without(k) == SubSeq(handles, 1, k - 1) \o SubSeq(handles, k + 1, Len(handles))

\* The uses of handle k that keep the scopes of handles nested: only the
\* youngest handle commits, is copied or dies.
InScope(k) == k \in DOMAIN handles /\ (Scoped => k = Len(handles))

Init ==
    /\ active = 0
    /\ transaction = 0
    /\ impls = << >>
    /\ handles = << >>
    /\ engine = FALSE
    /\ aborted = FALSE
    /\ outcomes = << >>

Bounded(i) == Len(handles) < MaxHandles /\ impls[i].failed < MaxFailed

\* begin_transaction fails, and the program aborts, inside a transaction.
Begin ==
    /\ ~aborted
    /\ IF active = 0
         THEN /\ Len(impls) < MaxImpls /\ Len(handles) < MaxHandles
              /\ impls' = Append(impls, [failed |-> 0, committed |-> FALSE, deleted |-> FALSE])
              /\ transaction' = Len(impls) + 1
              /\ engine' = TRUE
              /\ aborted' = engine
              /\ outcomes' = Append(outcomes, "open")
         ELSE /\ Bounded(transaction)
              /\ UNCHANGED <<impls, transaction, engine, aborted, outcomes>>
    /\ handles' = Append(handles, [impl |-> transaction', committed |-> FALSE])
    /\ active' = active + 1

\* Mutant: the copy does not count itself.
CopyUncounted(k) ==
    /\ ~aborted
    /\ InScope(k)
    /\ Scoped => ~handles[k].committed
    /\ Bounded(handles[k].impl)
    /\ handles' = Append(handles, [impl |-> handles[k].impl, committed |-> FALSE])
    /\ active' = active
    /\ UNCHANGED <<transaction, impls, engine, aborted, outcomes>>

\* The copy constructor: the copy has not committed, whatever the original did.
Copy(k) ==
    /\ ~aborted
    /\ InScope(k)
    /\ Scoped => ~handles[k].committed
    /\ Bounded(handles[k].impl)
    /\ handles' = Append(handles, [impl |-> handles[k].impl, committed |-> FALSE])
    /\ active' = active + 1
    /\ UNCHANGED <<transaction, impls, engine, aborted, outcomes>>

\* Mutant: failed handles are forgotten.
FinishAnyway(i, result) ==
    /\ result \in {"committed", "rolled back"}
    /\ engine' = FALSE
    /\ outcomes' = [outcomes EXCEPT ![i] = result]
    /\ aborted' = (impls[i].failed > 0 /\ ~engine)

\* TWiredTigerTransactionImpl::Commit when the last handle has decided.  The
\* engine may refuse to commit; what it cannot roll back aborts the program.
Finish(i, result) ==
    /\ result \in {"rolled back"} \cup (IF impls[i].failed > 0 THEN {} ELSE {"committed"})
    /\ engine' = FALSE
    /\ outcomes' = [outcomes EXCEPT ![i] = result]
    /\ aborted' = (impls[i].failed > 0 /\ ~engine)

Commit(k) ==
    /\ ~aborted
    /\ InScope(k)
    /\ ~handles[k].committed
    /\ handles' = [handles EXCEPT ![k].committed = TRUE]
    /\ LET i == handles[k].impl IN
         IF active > 0
           THEN /\ active' = active - 1
                /\ impls' = [impls EXCEPT ![i].committed = (active = 1)]
                /\ IF active = 1 THEN \E result \in {"committed", "rolled back"} : Finish(i, result)
                                 ELSE UNCHANGED <<engine, outcomes, aborted>>
           ELSE UNCHANGED <<active, impls, engine, outcomes, aborted>>
    /\ UNCHANGED transaction

\* Mutant: a committed handle leaves the Impl alone.
DestroyKeepsImpl(k) ==
    /\ ~aborted
    /\ InScope(k)
    /\ handles' = Without(k)
    /\ LET i == handles[k].impl
           failed == IF handles[k].committed THEN 0 ELSE 1
           delete == active' = 0 /\ failed = 1
           rollback == delete /\ ~impls[i].committed
       IN  /\ active' = active - failed
           /\ impls' = [impls EXCEPT ![i].failed = @ + failed, ![i].deleted = @ \/ delete]
           /\ engine' = (engine /\ ~rollback)
           /\ aborted' = (rollback /\ ~engine)
           /\ outcomes' = IF rollback THEN [outcomes EXCEPT ![i] = "rolled back"] ELSE outcomes
    /\ UNCHANGED transaction

\* The destructor: a handle that did not commit counts as failed; whoever
\* finds the session's counter at zero deletes the Impl, which rolls back what
\* was not committed.
Destroy(k) ==
    /\ ~aborted
    /\ InScope(k)
    /\ handles' = Without(k)
    /\ LET i == handles[k].impl
           failed == IF handles[k].committed THEN 0 ELSE 1
           delete == active' = 0
           rollback == delete /\ ~impls[i].committed
       IN  /\ active' = active - failed
           /\ impls' = [impls EXCEPT ![i].failed = @ + failed, ![i].deleted = @ \/ delete]
           /\ engine' = (engine /\ ~rollback)
           /\ aborted' = (rollback /\ ~engine)
           /\ outcomes' = IF rollback THEN [outcomes EXCEPT ![i] = "rolled back"] ELSE outcomes
    /\ UNCHANGED transaction

Next == Begin \/ \E k \in 1..MaxHandles : Copy(k) \/ Commit(k) \/ Destroy(k)

Spec == Init /\ [][Next]_vars

-----------------------------------------------------------------------------
(* Properties.                                                              *)

\* Every variable has its type.
TypeOK ==
    /\ active \in Nat
    /\ transaction \in 0..Len(impls)
    /\ impls \in Seq([failed : Nat, committed : BOOLEAN, deleted : BOOLEAN])
    /\ handles \in Seq([impl : Impls, committed : BOOLEAN])
    /\ engine \in BOOLEAN /\ aborted \in BOOLEAN
    /\ outcomes \in Seq({"open", "committed", "rolled back"})

\* The shared counter, the failure count and the deletions implement one
\* all-or-nothing transaction for the handles that are alive together.
Nested == INSTANCE NestedTransaction
            WITH undecided <- active,
                 refused <- transaction # 0 /\ impls[transaction].failed > 0
\* (the failure of a closed transaction stays visible until the next one)

ImplementsNested == Nested!Spec

\* An Impl is deleted exactly when the last handle that refers to it is gone,
\* though what each handle looks at is the counter of the session: no handle
\* calls UnRef on a deleted Impl, and none is left behind.
ImplDiesWithLastHandle ==
    \A i \in Impls : impls[i].deleted <=> \A k \in DOMAIN handles : handles[k].impl # i

\* The session's counter is the number of handles that still have to decide,
\* and the engine has a transaction exactly while there is one: the session
\* can begin anew, and be closed, exactly when all of them are through.
CounterIsPending ==
    /\ active = Cardinality({k \in DOMAIN handles : ~handles[k].committed})
    /\ engine <=> active > 0
    /\ ~aborted
=============================================================================
