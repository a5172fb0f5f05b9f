------------------------ MODULE TransactionalStore --------------------------
(***************************************************************************)
(* What a session promises about the data: records are written one at a    *)
(* time; those written while handles of a transaction are undecided become *)
(* durable together, when the last of them has decided, and only if all of *)
(* them have committed.  Otherwise the table is what it was before.        *)
(***************************************************************************)
EXTENDS NestedTransaction

CONSTANTS Keys, Values, Absent

VARIABLES
    working,   \* the table as the session sees it
    durable    \* the table without the open transaction

storeVars == <<vars, working, durable>>

StoreInit ==
    /\ Init
    /\ working \in [Keys -> Values \cup {Absent}]
    /\ durable = working

Write(k, v) ==
    /\ working' = [working EXCEPT ![k] = v]
    /\ durable' = IF undecided > 0 THEN durable ELSE working'
    /\ UNCHANGED vars

StoreJoin == Join /\ UNCHANGED <<working, durable>>

StoreDecide ==
    /\ \E commit \in BOOLEAN : Decide(commit)
    /\ IF undecided' > 0
         THEN UNCHANGED <<working, durable>>
         ELSE /\ durable' = IF outcomes'[Len(outcomes)] = "committed" THEN working ELSE durable
              /\ working' = durable'

StoreNext == StoreJoin \/ StoreDecide \/ \E k \in Keys, v \in Values \cup {Absent} : Write(k, v)

StoreSpec == StoreInit /\ [][StoreNext]_storeVars
=============================================================================
