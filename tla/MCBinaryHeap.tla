----------------------------- MODULE MCBinaryHeap -----------------------------
(* Records of two symbols for BinaryHeap. *)
EXTENDS BinaryHeap

MCRecords == {<<1, 1>>, <<1, 2>>, <<2, 1>>, <<2, 2>>, <<3, 1>>}
MCPrefixes == {<<>>, <<0>>, <<1>>, <<2>>, <<3>>, <<4>>, <<1, 2>>}
=============================================================================
