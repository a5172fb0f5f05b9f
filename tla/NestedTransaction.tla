-------------------------- MODULE NestedTransaction --------------------------
(***************************************************************************)
(* What TWiredTigerSession::Begin promises: the handles that are alive     *)
(* together share one transaction of the storage engine; it ends when the  *)
(* last of them has decided, and it is committed only if all of them did   *)
(* commit.  A handle that dies without Commit has decided to roll back.    *)
(***************************************************************************)
EXTENDS Naturals, Sequences

VARIABLES
    undecided,  \* the handles of the open transaction that have not decided
    refused,    \* whether one of them has rolled back
    outcomes    \* what became of each transaction, the open one last

vars == <<undecided, refused, outcomes>>

Init ==
    /\ undecided = 0
    /\ refused = FALSE
    /\ outcomes = << >>

Join ==
    /\ undecided' = undecided + 1
    /\ IF undecided = 0
         THEN refused' = FALSE /\ outcomes' = Append(outcomes, "open")
         ELSE UNCHANGED <<refused, outcomes>>

\* The engine may refuse a commit: it then has rolled back.
Decide(commit) ==
    /\ undecided > 0
    /\ undecided' = undecided - 1
    /\ refused' = (refused \/ ~commit)
    /\ IF undecided = 1
         THEN \E result \in {"rolled back"} \cup (IF refused' THEN {} ELSE {"committed"}) :
                  outcomes' = [outcomes EXCEPT ![Len(outcomes)] = result]
         ELSE outcomes' = outcomes

Next == Join \/ \E commit \in BOOLEAN : Decide(commit)

Spec == Init /\ [][Next]_vars
=============================================================================
