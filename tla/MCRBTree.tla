------------------------------- MODULE MCRBTree -------------------------------
(* Keys and prefixes for RBTree: strings of one or two symbols, one of them a  *)
(* prefix of others.  Eight keys are enough for a recolouring that goes up two *)
(* levels and then rotates.                                                    *)
EXTENDS RBTree

MCKeys == {<<1>>, <<2>>, <<2, 1>>, <<2, 2>>, <<2, 3>>, <<3>>, <<4>>, <<5>>}
MCPrefixes == {<<>>, <<2>>}
=============================================================================
