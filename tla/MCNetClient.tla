----------------------------- MODULE MCNetClient -----------------------------
(***************************************************************************)
(* TLC instances of NetClient: the first item takes several writes, the    *)
(* second one, the third is empty.                                         *)
(***************************************************************************)
EXTENDS NetClient, TLC

CONSTANTS w1, w2

MCSize2 == (1 :> 2) @@ (2 :> 1)
MCSize3 == (1 :> 2) @@ (2 :> 1) @@ (3 :> 0)
=============================================================================
