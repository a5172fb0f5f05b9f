-------------------------- MODULE MCPersistentHashMap --------------------------
(* Three keys for PersistentHashMap, two of them in one bucket. *)
EXTENDS PersistentHashMap

MCKeys == 1..3
MCBucket == [k \in MCKeys |-> IF k = 3 THEN 2 ELSE 0]
=============================================================================
