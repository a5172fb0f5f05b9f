-------------------------- MODULE MCWebSocketParser --------------------------
(* A small wire format for WebSocketParser: one byte of payload fits the     *)
(* header, two need a size field of 2 bytes, three one of 8.                 *)
EXTENDS WebSocketParser

MCFrames ==
    { [Opcode |-> 1, IsMasked |-> TRUE,  Mask |-> <<1, 0, 1, 1>>, Payload |-> <<1>>],
      [Opcode |-> 2, IsMasked |-> TRUE,  Mask |-> <<0, 1, 0, 0>>, Payload |-> <<0, 1, 1>>],
      [Opcode |-> 9, IsMasked |-> FALSE, Mask |-> <<>>, Payload |-> <<>>],
      [Opcode |-> 0, IsMasked |-> FALSE, Mask |-> <<>>, Payload |-> <<1, 0>>] }
=============================================================================
