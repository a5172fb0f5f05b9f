---------------------------- MODULE WriteChannel ----------------------------
(***************************************************************************)
(* What the write side of a connection promises its callers, with no       *)
(* queue, event filter, TLS or thread in it: the items accepted from the   *)
(* callers are numbered in the order they were accepted; their bytes go    *)
(* to the wire in that order, item by item, never interleaved; an item is  *)
(* completed (its callback runs) once, in the same order, and while the    *)
(* connection is open only after its last byte was written.                *)
(***************************************************************************)
EXTENDS Naturals, Sequences, FiniteSets

CONSTANTS MaxItems,     \* how many items the callers hand over, at most
          Size          \* Size[i]: the number of bytes of item i

VARIABLES accepted,     \* the number of items accepted so far
          wire,         \* the number of the item each byte sent belongs to
          completed,    \* the number of items completed so far
          open          \* whether the descriptor of the connection is open

vars == <<accepted, wire, completed, open>>

\* The bytes of item i that are on the wire.
SentOf(i) == Cardinality({k \in DOMAIN wire : wire[k] = i})

Init ==
    /\ accepted = 0
    /\ wire = << >>
    /\ completed = 0
    /\ open = TRUE

Accept ==
    /\ accepted < MaxItems
    /\ accepted' = accepted + 1
    /\ UNCHANGED <<wire, completed, open>>

\* One write(2): some bytes of the oldest item not yet completed.
Transmit ==
    /\ open
    /\ completed < accepted
    /\ \E n \in 1..(Size[completed + 1] - SentOf(completed + 1)) :
           wire' = wire \o [k \in 1..n |-> completed + 1]
    /\ UNCHANGED <<accepted, completed, open>>

Complete ==
    /\ completed < accepted
    /\ open => SentOf(completed + 1) = Size[completed + 1]
    /\ completed' = completed + 1
    /\ UNCHANGED <<accepted, wire, open>>

Close ==
    /\ open
    /\ open' = FALSE
    /\ UNCHANGED <<accepted, wire, completed>>

Next == Accept \/ Transmit \/ Complete \/ Close

Spec == Init /\ [][Next]_vars
=============================================================================
