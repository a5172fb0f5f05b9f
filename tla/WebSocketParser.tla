--------------------------- MODULE WebSocketParser ---------------------------
(***************************************************************************)
(* The incremental parser of WebSocket frames, websocket/parser/parser.cpp. *)
(*                                                                         *)
(* The peer writes a stream of frames; the socket hands it to TParser::Add *)
(* cut at arbitrary places.  TParserState keeps what it could not use yet  *)
(* in Buf, of which the first Offset bytes are already parsed.  One call   *)
(* of ProcessMessage is split into the steps its stages make, because the  *)
(* finished frames are shared with ExtractData (under FramesLock).         *)
(*                                                                         *)
(* A byte is a number; the bytes of payloads and masks are single bits.    *)
(* The constants of the wire format are parameters, so that a small        *)
(* instance reaches the three encodings of the payload size.               *)
(***************************************************************************)
EXTENDS Integers, Sequences, SequencesExt

CONSTANTS
    FrameSet,           \* the frames a peer may send
    MaxFrames,          \* how many of them one stream holds
    Escape,             \* 126 in the code: size in 2 bytes; Escape + 1: in 8 bytes
    WideSize,           \* 2^16 in the code: payloads from here on need 8 bytes
    ChopLimit           \* 10 MB in the code: parsed bytes Buf may keep

ASSUME FormatAssumption ==
    /\ Escape \in 1..126
    /\ WideSize \in (Escape + 1)..65536
    /\ ChopLimit \in Nat /\ MaxFrames \in Nat

ASSUME FrameAssumption ==
    \A f \in FrameSet :
       /\ f \in [Opcode : 0..255, IsMasked : BOOLEAN, Mask : Seq(0..1), Payload : Seq(0..1)]
       /\ Len(f.Mask) = IF f.IsMasked THEN 4 ELSE 0

\* the size of a payload is a number of 64 bits
FitsIn64(size) == (((size \div 65536) \div 65536) \div 65536) \div 65536 = 0

ASSUME SizeAssumption == \A f \in FrameSet : FitsIn64(Len(f.Payload))

VARIABLES
    stream,         \* the frames the peer sends, in order
    fed,            \* how many bytes of the stream Add was given
    Buf, Offset,    \* bytes kept between calls, and how many of them are parsed
    CurrentFrame,   \* the frame being assembled, or NoFrame
    SizeLen, PayloadLen, Stage,
    Frames,         \* finished frames nobody has extracted
    received,       \* the frames ExtractData returned so far
    overlapped,     \* has ExtractData run during the last call of Add?  (history)
    pc,             \* where the call of ParseData is
    data,           \* argument of ParseData
    first, frameCount,      \* locals of ParseData
    msg, msgOffset          \* argument and local of ProcessMessage

parser == <<Buf, Offset, CurrentFrame, SizeLen, PayloadLen, Stage>>
call == <<data, first, frameCount>>
vars == <<stream, fed, parser, Frames, received, overlapped, pc, call,
          msg, msgOffset>>

MaskBit == 128
NoFrame == [Opcode |-> -1]

----------------------------------------------------------------------------
\* Wire format.

\* exclusive or of bits; unmasking a payload is masking it once more
Masked(payload, mask) ==
    [i \in DOMAIN payload |-> (payload[i] + mask[1 + ((i - 1) % 4)]) % 2]

\* ntohs, ntohll
Value(bytes) ==
    LET value[n \in 0..Len(bytes)] == IF n = 0 THEN 0 ELSE 256 * value[n - 1] + bytes[n]
    IN  value[Len(bytes)]

\* TFrame::Header; the FIN and RSV bits are part of Opcode here.  The bytes of a size are
\* its digits, the highest first (htons, htonll).
Header(f) ==
    LET size == Len(f.Payload)
        sizeCode == IF size < Escape THEN size
                    ELSE IF size < WideSize THEN Escape ELSE Escape + 1
        sizeLen == IF size < Escape THEN 0 ELSE IF size < WideSize THEN 2 ELSE 8
        rest[n \in 0..8] == IF n = 0 THEN size ELSE rest[n - 1] \div 256
        sizeBytes == [i \in 1..sizeLen |-> rest[sizeLen - i] % 256]
    IN  <<f.Opcode, (IF f.IsMasked THEN MaskBit ELSE 0) + sizeCode>>
          \o sizeBytes \o f.Mask

\* what a peer puts on the wire for a frame
Encoded(f) ==
    Header(f) \o (IF f.IsMasked THEN Masked(f.Payload, f.Mask) ELSE f.Payload)

Wire == FlattenSeq([i \in DOMAIN stream |-> Encoded(stream[i])])

----------------------------------------------------------------------------
Init ==
    /\ stream \in [1..MaxFrames -> FrameSet]
    /\ fed = 0
    /\ Buf = <<>> /\ Offset = 0
    /\ CurrentFrame = NoFrame
    /\ SizeLen = 0 /\ PayloadLen = 0 /\ Stage = "start"
    /\ Frames = <<>> /\ received = <<>> /\ overlapped = FALSE
    /\ pc = "idle"
    /\ data = <<>> /\ first = TRUE /\ frameCount = 0
    /\ msg = <<>> /\ msgOffset = 0

\* TParser::Add with the next n bytes of the stream
Add(n) ==
    /\ pc = "idle"
    /\ fed + n <= Len(Wire)
    /\ data' = SubSeq(Wire, fed + 1, fed + n)
    /\ fed' = fed + n
    /\ first' = TRUE
    /\ overlapped' = FALSE
    /\ pc' = "loop"
    /\ UNCHANGED <<stream, parser, Frames, received, frameCount, msg, msgOffset>>

\* One round of the loop of ParseData: what ProcessMessage is given.  The last
\* line of the choice is the code's "weird loop" way out.
StartMessage ==
    /\ pc = "loop"
    /\ frameCount' = Len(Frames)
    /\ Buf' = IF Buf # <<>> /\ first THEN Buf \o data ELSE Buf
    /\ msg' = IF Buf # <<>> THEN SubSeq(Buf', Offset + 1, Len(Buf')) ELSE data
    /\ msgOffset' = 0
    /\ pc' = IF Buf # <<>> \/ first THEN "header" ELSE "settle"
    /\ UNCHANGED <<stream, fed, Offset, CurrentFrame, SizeLen, PayloadLen, Stage,
                   Frames, received, overlapped, data, first>>

----------------------------------------------------------------------------
\* ProcessMessage.

Leftover == Len(msg) - msgOffset

\* bytes n.. of msg are used: in Buf they are only marked as parsed
Consume(n) ==
    /\ msgOffset' = msgOffset + n
    /\ Offset' = IF Buf # <<>> THEN Offset + n ELSE Offset

\* nothing can be done before more bytes come: msg is kept from at on
Bufferize(at) == Buf' = IF Buf = <<>> THEN SubSeq(msg, at + 1, Len(msg)) ELSE Buf

WaitForMore ==
    /\ Bufferize(msgOffset)
    /\ pc' = "check"
    /\ UNCHANGED <<Offset, CurrentFrame, SizeLen, PayloadLen, Stage, Frames, msgOffset>>

StartFrame ==
    LET code == msg[2] % MaskBit
    IN  /\ Consume(2)
        /\ CurrentFrame' = [Opcode |-> msg[1], IsMasked |-> msg[2] >= MaskBit,
                            Mask |-> <<>>, Payload |-> <<>>]
        /\ SizeLen' = CASE code = Escape + 1 -> 8
                        [] code = Escape -> 2
                        [] OTHER -> SizeLen
        /\ PayloadLen' = IF code \in {Escape, Escape + 1} THEN PayloadLen ELSE code
        /\ Stage' = IF SizeLen' > 0 THEN "payload_size" ELSE "mask_key"
        /\ pc' = "stage"
        /\ UNCHANGED <<Buf, Frames>>

ReadHeader ==
    /\ pc = "header"
    /\ \/ /\ CurrentFrame # NoFrame
          /\ pc' = "stage"
          /\ UNCHANGED <<parser, Frames, msgOffset>>
       \/ CurrentFrame = NoFrame /\ Len(msg) >= 2 /\ StartFrame
       \/ CurrentFrame = NoFrame /\ Len(msg) < 2 /\ WaitForMore
    /\ UNCHANGED <<stream, fed, received, overlapped, call, msg>>

ReadPayloadSize ==
    /\ pc = "stage" /\ Stage = "payload_size"
    /\ \/ Leftover < SizeLen /\ WaitForMore
       \/ /\ Leftover >= SizeLen
          /\ PayloadLen' = Value(SubSeq(msg, msgOffset + 1, msgOffset + SizeLen))
          /\ Stage' = "mask_key"
          /\ Consume(SizeLen)
          /\ SizeLen' = 0
          /\ UNCHANGED <<Buf, CurrentFrame, Frames, pc>>
    /\ UNCHANGED <<stream, fed, received, overlapped, call, msg>>

\* Mutant: only the local offset moves over the mask: buffered bytes are read twice.
ReadMaskKeyLocally ==
    /\ pc = "stage" /\ Stage = "mask_key"
    /\ \/ CurrentFrame.IsMasked /\ Leftover < 4 /\ WaitForMore
       \/ /\ CurrentFrame.IsMasked /\ Leftover >= 4
          /\ CurrentFrame' =
               [CurrentFrame EXCEPT !.Mask = SubSeq(msg, msgOffset + 1, msgOffset + 4)]
          /\ msgOffset' = msgOffset + 4
          /\ Stage' = "payload"
          /\ UNCHANGED <<Buf, Offset, SizeLen, PayloadLen, Frames, pc>>
       \/ /\ ~CurrentFrame.IsMasked
          /\ Stage' = "payload"
          /\ UNCHANGED <<Buf, Offset, CurrentFrame, SizeLen, PayloadLen, Frames, pc, msgOffset>>
    /\ UNCHANGED <<stream, fed, received, overlapped, call, msg>>

ReadMaskKey ==
    /\ pc = "stage" /\ Stage = "mask_key"
    /\ \/ CurrentFrame.IsMasked /\ Leftover < 4 /\ WaitForMore
       \/ /\ CurrentFrame.IsMasked /\ Leftover >= 4
          /\ CurrentFrame' =
               [CurrentFrame EXCEPT !.Mask = SubSeq(msg, msgOffset + 1, msgOffset + 4)]
          /\ Consume(4)
          /\ Stage' = "payload"
          /\ UNCHANGED <<Buf, SizeLen, PayloadLen, Frames, pc>>
       \/ /\ ~CurrentFrame.IsMasked
          /\ Stage' = "payload"
          /\ UNCHANGED <<Buf, Offset, CurrentFrame, SizeLen, PayloadLen, Frames, pc, msgOffset>>
    /\ UNCHANGED <<stream, fed, received, overlapped, call, msg>>

\* Flush: the frame is finished
Flush(f) ==
    /\ Frames' = Append(Frames, f)
    /\ CurrentFrame' = NoFrame
    /\ SizeLen' = 0 /\ PayloadLen' = 0 /\ Stage' = "start"

ReadPayload ==
    /\ pc = "stage" /\ Stage = "payload"
    /\ \/ /\ Leftover >= PayloadLen
          /\ LET raw == SubSeq(msg, msgOffset + 1, msgOffset + PayloadLen)
                 payload == IF CurrentFrame.IsMasked
                            THEN Masked(raw, CurrentFrame.Mask) ELSE raw
             IN  Flush([CurrentFrame EXCEPT !.Payload = payload])
          /\ Consume(PayloadLen)
       \/ /\ Leftover < PayloadLen
          /\ UNCHANGED <<Offset, CurrentFrame, SizeLen, PayloadLen, Stage, Frames, msgOffset>>
    /\ Bufferize(msgOffset')
    /\ pc' = "check"
    /\ UNCHANGED <<stream, fed, received, overlapped, call, msg>>

----------------------------------------------------------------------------
\* Rest of ParseData, and ExtractData.

\* Mutant: one frame a call
CheckOnce ==
    /\ pc = "check"
    /\ pc' = "settle"
    /\ first' = first
    /\ UNCHANGED <<stream, fed, parser, Frames, received, overlapped, data, frameCount,
                   msg, msgOffset>>

\* go round again while a round finished a frame and bytes are left
CheckProgress ==
    /\ pc = "check"
    /\ \/ /\ frameCount = Len(Frames) \/ Len(Buf) = Offset
          /\ pc' = "settle"
          /\ first' = first
       \/ /\ frameCount # Len(Frames) /\ Len(Buf) # Offset
          /\ pc' = "loop"
          /\ first' = FALSE
    /\ UNCHANGED <<stream, fed, parser, Frames, received, overlapped, data, frameCount, msg, msgOffset>>

\* Mutant: Buf is shrunk only when it is all parsed
SettleNeverChops ==
    /\ pc = "settle"
    /\ IF Len(Buf) = Offset
       THEN Buf' = <<>> /\ Offset' = 0
       ELSE UNCHANGED <<Buf, Offset>>
    /\ pc' = "idle"
    /\ data' = <<>> /\ first' = TRUE /\ frameCount' = 0 /\ msg' = <<>> /\ msgOffset' = 0
    /\ UNCHANGED <<stream, fed, CurrentFrame, SizeLen, PayloadLen, Stage, Frames, received,
                   overlapped>>

\* drop the parsed part of Buf when it is all of Buf, or is too long
Settle ==
    /\ pc = "settle"
    /\ \/ /\ Len(Buf) = Offset
          /\ Buf' = <<>> /\ Offset' = 0
       \/ /\ Len(Buf) # Offset /\ Offset > ChopLimit
          /\ Buf' = SubSeq(Buf, Offset + 1, Len(Buf)) /\ Offset' = 0
       \/ /\ Len(Buf) # Offset /\ Offset <= ChopLimit
          /\ UNCHANGED <<Buf, Offset>>
    /\ pc' = "idle"
    \* locals end with the call
    /\ data' = <<>> /\ first' = TRUE /\ frameCount' = 0 /\ msg' = <<>> /\ msgOffset' = 0
    /\ UNCHANGED <<stream, fed, CurrentFrame, SizeLen, PayloadLen, Stage, Frames, received,
                   overlapped>>

\* the vector is swapped out under FramesLock: during a call too
ExtractData ==
    /\ Frames # <<>>
    /\ received' = received \o Frames
    /\ Frames' = <<>>
    /\ overlapped' = (overlapped \/ pc # "idle")
    /\ UNCHANGED <<stream, fed, parser, pc, call, msg, msgOffset>>

Next ==
    \/ \E n \in 1..Len(Wire) : Add(n)
    \/ StartMessage
    \/ ReadHeader \/ ReadPayloadSize \/ ReadMaskKey \/ ReadPayload
    \/ CheckProgress \/ Settle
    \/ ExtractData

Spec == Init /\ [][Next]_vars

----------------------------------------------------------------------------
\* Properties.

\* The frames finished so far, extracted or not, and how many bytes k frames take.
Done == received \o Frames
BytesOf(k) == Len(FlattenSeq([i \in 1..k |-> Encoded(stream[i])]))

\* The stage goes with the locals it relies on: a frame exists from the header
\* on, and the size of the size field is 2 or 8 exactly in payload_size (the
\* code asserts it by assert(false) in the switch on SizeLen).
TypeOK ==
    /\ fed \in 0..Len(Wire)
    /\ Offset \in 0..Len(Buf)
    /\ pc \in {"idle", "loop", "header", "stage", "check", "settle"}
    /\ Stage \in {"start", "payload_size", "mask_key", "payload"}
    /\ (Stage = "start") <=> (CurrentFrame = NoFrame)
    /\ IF Stage = "payload_size" THEN SizeLen \in {2, 8} ELSE SizeLen = 0
    /\ PayloadLen \in Nat
    /\ msgOffset \in 0..Len(msg)
    /\ first \in BOOLEAN /\ overlapped \in BOOLEAN

\* However the stream is cut, and whenever a consumer extracts, the frames come
\* out as the peer sent them: in order, none twice, none skipped, each with its
\* own mask removed.
FramesArePrefix == IsPrefix(Done, stream)

\* A call during which nobody extracts leaves no complete frame in Buf: a frame
\* never waits for the bytes of the next one.  (ExtractData in the middle of a
\* call makes the unlocked comparison with frameCount stop the loop early.)
NothingLeftBehind ==
    (pc = "idle" /\ ~overlapped /\ Len(Done) < Len(stream)) =>
        fed < BytesOf(Len(Done) + 1)

\* What is kept between calls is bounded: the parsed part by the chop limit, the
\* rest by one frame.
BufferIsBounded ==
    (pc = "idle" /\ ~overlapped) =>
        \/ Buf = <<>>
        \/ Len(Buf) < ChopLimit + Len(Encoded(stream[Len(Done) + 1]))
=============================================================================
