------------------------------ MODULE WTSession ------------------------------
(***************************************************************************)
(* A TWiredTigerSession (wiredtiger/session.cpp): the objects that share   *)
(* one TWiredTigerSessionImpl, the operations on one table, the            *)
(* transactions of WTTransaction, and the iterators (wiredtiger/iterator.cpp) *)
(* that may outlive them all.  One thread uses them.                       *)
(*                                                                         *)
(* The storage engine is external.  What it does with a call is what the   *)
(* code relies on: a write outside a transaction is durable at once, a     *)
(* cursor walks the keys in order, search_near ends on a neighbour of a    *)
(* missing key, on either side.                                            *)
(***************************************************************************)
EXTENDS WTTransaction, Integers, SequencesExt

CONSTANTS
    MaxKey,       \* the keys are 1..MaxKey, in the order of the table
    Values,       \* the values of records
    Absent,       \* no record: not a value
    MaxIterators, \* bound: iterators alive at one time
    MaxObjects,   \* bound: objects alive at one time: sessions, handles, iterators
    MaxWrites     \* bound: writes that change the table

ASSUME SessionAssumption ==
    /\ {MaxKey, MaxIterators, MaxObjects, MaxWrites} \subseteq Nat
    /\ Absent \notin Values

Keys == 1..MaxKey
Nowhere == 0   \* no key: the position of a cursor that has none

VARIABLES
    sessions,   \* RefCount of the session's Impl; it is deleted at 0
    wtRefs,     \* references to the WT_SESSION: the Impl's, one per cursor; closed at 0
    table,      \* table[k]: the record as the session reads it
    durable,    \* table without the writes of the open transaction
    iterators,  \* the live iterators, oldest first
    writes      \* the number of writes, for the bound

dataVars == <<table, durable, iterators, writes>>
sessionVars == <<vars, sessions, wtRefs, dataVars>>

Objects == sessions + Len(handles) + Len(iterators)

Present == {k \in Keys : table[k] # Absent}

SessionInit ==
    /\ Init
    /\ sessions = 1 /\ wtRefs = 1
    /\ table \in [Keys -> Values \cup {Absent}] /\ durable = table
    /\ iterators = << >>
    /\ writes = 0

-----------------------------------------------------------------------------
(* The objects.                                                             *)

CopySession ==
    /\ ~aborted
    /\ sessions > 0 /\ Objects < MaxObjects
    /\ sessions' = sessions + 1
    /\ UNCHANGED <<vars, wtRefs, dataVars>>

\* Mutant: the Impl closes the WT_SESSION, whoever else refers to it.
DestroySessionClosing ==
    /\ ~aborted
    /\ sessions > 1 \/ (sessions = 1 /\ handles = << >>)
    /\ sessions' = sessions - 1
    /\ aborted' = (sessions = 1 /\ active > 0)
    /\ wtRefs' = IF sessions = 1 THEN 0 ELSE wtRefs
    /\ UNCHANGED <<active, transaction, impls, handles, engine, outcomes, dataVars>>

\* The last object deletes the Impl, and with it one reference to the WT_SESSION.
\* The session is declared before the handles of its transactions, so it is
\* destroyed after them.
DestroySession ==
    /\ ~aborted
    /\ sessions > 1 \/ (sessions = 1 /\ handles = << >>)
    /\ sessions' = sessions - 1
    /\ aborted' = (sessions = 1 /\ active > 0)
    /\ wtRefs' = IF sessions = 1 THEN wtRefs - 1 ELSE wtRefs
    /\ UNCHANGED <<active, transaction, impls, handles, engine, outcomes, dataVars>>

-----------------------------------------------------------------------------
(* Transactions.                                                            *)

\* The end of a transaction: the engine keeps or undoes its writes, and does
\* not promise that cursors keep their positions.
EndTransaction ==
    IF engine /\ ~engine'
      THEN /\ durable' = IF outcomes'[transaction] = "committed" THEN table ELSE durable
           /\ table' = durable'
           /\ iterators' = [n \in DOMAIN iterators |->
                 [iterators[n] EXCEPT !.crossed = TRUE, !.position = Nowhere, !.seen = << >>, !.steady = {}]]
           /\ UNCHANGED writes
      ELSE UNCHANGED dataVars

BeginTransaction ==
    /\ sessions > 0 /\ Objects < MaxObjects
    /\ Begin
    /\ UNCHANGED <<sessions, wtRefs, dataVars>>

UseTransaction(k) ==
    /\ (Objects < MaxObjects /\ Copy(k)) \/ Commit(k) \/ Destroy(k)
    /\ EndTransaction
    /\ UNCHANGED <<sessions, wtRefs>>

-----------------------------------------------------------------------------
(* The table.                                                               *)

Write(k, v) ==
    /\ ~aborted /\ sessions > 0
    /\ writes < MaxWrites /\ writes' = writes + 1
    /\ table' = [table EXCEPT ![k] = v]
    /\ durable' = IF engine THEN durable ELSE table'
    /\ iterators' = IF v # Absent THEN iterators ELSE
          [n \in DOMAIN iterators |-> [iterators[n] EXCEPT !.steady = @ \ {k}]]
    /\ UNCHANGED <<vars, sessions, wtRefs>>

\* overwrite=false: the engine refuses a key that is present.
Insert(k, v) == table[k] = Absent /\ Write(k, v)

\* overwrite=true.
Set(k, v) == Write(k, v)

\* append=true: the engine chooses a key behind all others.
AppendRecord(v) == \E k \in Keys : (\A p \in Present : p < k) /\ Write(k, v)

\* overwrite=true: a missing key is no error, and nothing happens.
RemoveRecord(k) == k \in Present /\ Write(k, Absent)

-----------------------------------------------------------------------------
(* Iterators.                                                               *)

\* The neighbours of a position in the table; Nowhere when there is none.
NextOf(p) == LET after == {k \in Present : k > p} IN IF after = {} THEN Nowhere ELSE Min(after)
PrevOf(p) == LET before == {k \in Present : p = Nowhere \/ k < p}
             IN  IF before = {} THEN Nowhere ELSE Max(before)

\* Search with a key; SeqScan without one, and then without a first search.
OpenIterator(direction, key) ==
    /\ ~aborted /\ sessions > 0
    /\ Len(iterators) < MaxIterators /\ Objects < MaxObjects
    /\ iterators' = Append(iterators,
          [direction |-> direction, key |-> key, first |-> key # Nowhere,
           position |-> Nowhere,
           seen |-> << >>,        \* history: the keys it has returned
           steady |-> Present,    \* history: the keys present since it was made
           ended |-> FALSE,       \* whether Next returned false
           crossed |-> FALSE])    \* whether a transaction ended meanwhile
    /\ wtRefs' = wtRefs + 1
    /\ UNCHANGED <<vars, sessions, table, durable, writes>>

\* search_near: the key, or either neighbour.
SearchNear(key) ==
    CASE key \in Present -> {key}
      [] Present = {}     -> {Nowhere}
      [] OTHER            -> {PrevOf(key), NextOf(key)} \ {Nowhere}

\* Mutant: search_near is trusted to end on the right side.
FirstKeysUnchecked(it) ==
    IF it.direction = 0 THEN {IF it.key \in Present THEN it.key ELSE Nowhere}
                        ELSE SearchNear(it.key)

\* The first search; a neighbour on the wrong side is left at once.
FirstKeys(it) ==
    IF it.direction = 0
      THEN {IF it.key \in Present THEN it.key ELSE Nowhere}
      ELSE {CASE it.direction < 0 /\ near > it.key                     -> PrevOf(near)
              [] it.direction > 0 /\ near < it.key /\ near # Nowhere -> NextOf(near)
              [] OTHER                                                -> near
            : near \in SearchNear(it.key)}

\* Next, which callers call until it returns false.  Of an iterator whose
\* cursor has lost its position nothing is known.
IteratorNext(n) ==
    /\ ~aborted
    /\ n \in DOMAIN iterators
    /\ LET it == iterators[n] IN
         /\ ~it.ended /\ ~it.crossed
         /\ \E k \in IF it.first THEN FirstKeys(it)
                     ELSE {IF it.direction < 0 THEN PrevOf(it.position) ELSE NextOf(it.position)} :
              iterators' = [iterators EXCEPT ![n] =
                  [it EXCEPT !.first = FALSE, !.position = k, !.ended = (k = Nowhere),
                             !.seen = IF k = Nowhere THEN @ ELSE Append(@, k)]]
    /\ UNCHANGED <<vars, sessions, wtRefs, table, durable, writes>>

\* The cursor is closed, and its deleter's reference to the WT_SESSION goes.
DestroyIterator(n) ==
    /\ ~aborted
    /\ n \in DOMAIN iterators
    /\ iterators' = RemoveAt(iterators, n)
    /\ wtRefs' = wtRefs - 1
    /\ UNCHANGED <<vars, sessions, table, durable, writes>>

-----------------------------------------------------------------------------
Session == CopySession \/ DestroySession
Table ==
    \/ \E k \in Keys, v \in Values : Insert(k, v) \/ Set(k, v)
    \/ \E v \in Values : AppendRecord(v)
    \/ \E k \in Keys : RemoveRecord(k)
Iterator ==
    \/ \E direction \in {-1, 0, 1}, key \in Keys \cup {Nowhere} : OpenIterator(direction, key)
    \/ \E n \in 1..MaxIterators : IteratorNext(n) \/ DestroyIterator(n)

SessionNext ==
    \/ Session \/ Table \/ Iterator
    \/ BeginTransaction
    \/ \E k \in 1..MaxHandles : UseTransaction(k)

SessionSpec == SessionInit /\ [][SessionNext]_sessionVars

-----------------------------------------------------------------------------
(* Properties.                                                              *)

\* Every variable has its type.
SessionTypeOK ==
    /\ sessions \in 0..MaxObjects /\ wtRefs \in 0..MaxObjects
    /\ {table, durable} \subseteq [Keys -> Values \cup {Absent}]
    /\ iterators \in Seq([direction : {-1, 0, 1}, key : 0..MaxKey, first : BOOLEAN,
                          position : 0..MaxKey, seen : Seq(Keys), steady : SUBSET Keys,
                          ended : BOOLEAN, crossed : BOOLEAN])
    /\ writes \in 0..MaxWrites

\* The records written while handles are undecided become durable together or
\* not at all: the counters of handles, in the session, and of failures, in the
\* Impl, decide about the data as an all-or-nothing transaction would.
Store == INSTANCE TransactionalStore
            WITH undecided <- active,
                 refused <- transaction # 0 /\ impls[transaction].failed > 0,
                 working <- table

ImplementsStore == Store!StoreSpec

\* The references to the WT_SESSION come to 0, and it is closed, with the last of
\* those who use it: not under an object of the session or a cursor that has
\* outlived them all, whatever the order in which they go, and not never.
SessionOutlivesCursors == wtRefs > 0 <=> (sessions > 0 \/ iterators # << >>)

\* What Search or SeqScan was asked for.
Asked(it) ==
    {k \in Keys : it.key = Nowhere \/ (IF it.direction < 0 THEN k <= it.key ELSE k >= it.key)}

\* However the table changes between two calls of Next, an iterator returns keys
\* in its direction and from its side of the key it was given; when it is through
\* it has returned every one that was in the table all the time.  Without a
\* direction Search starts with the key itself, or returns nothing.
IterationIsExact ==
    \A n \in DOMAIN iterators : LET it == iterators[n] IN
        /\ \A a, b \in DOMAIN it.seen :
              a < b => IF it.direction < 0 THEN it.seen[a] > it.seen[b] ELSE it.seen[a] < it.seen[b]
        /\ ToSet(it.seen) \subseteq Asked(it)
        /\ it.direction = 0 /\ it.key # Nowhere /\ it.seen # << >> => it.seen[1] = it.key
        /\ it.ended /\ ~it.crossed =>
              IF it.direction = 0 /\ it.key # Nowhere /\ it.seen = << >>
                THEN it.key \notin it.steady
                ELSE it.steady \cap Asked(it) \subseteq ToSet(it.seen)
=============================================================================
