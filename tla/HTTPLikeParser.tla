---------------------------- MODULE HTTPLikeParser ----------------------------
(***************************************************************************)
(* The streaming parser of httplike/parser/parser.cpp as a connection uses  *)
(* it (TParser::Add): a first line, header lines and a body of a given      *)
(* length or in chunks, cut into reads at any byte.                         *)
(*                                                                         *)
(* A byte is a record.  c says what it is: "CR", "LF", "first" for a first  *)
(* line, "header", "length" (content-length: n), "chunked", "size" (the      *)
(* hexadecimal digit n) or a byte of a body; cut says whether the parser     *)
(* understands a read that ends after it.  It does not everywhere: a read    *)
(* that ends where cut is FALSE is recorded in torn (see WellFormed).        *)
(*                                                                         *)
(* Names that WebSocketParser has too begin with HTTP here; given is data,   *)
(* and SizeBuf is Buf.                                                      *)
(***************************************************************************)
EXTENDS Integers, Sequences, FiniteSets, SequencesExt

CONSTANTS
    Messages,       \* what a peer may send: [wire, parsed, bad, head, chunks]
    MaxMessages     \* bound: messages on a connection

ASSUME ParserAssumption == MaxMessages \in Nat

Byte == [c : STRING, n : Nat, cut : BOOLEAN]

VARIABLES
    sent,       \* history: the messages sent
    wire,       \* bytes sent and not read
    torn,       \* history: whether a read ended where cut is FALSE
    given, at,  \* the bytes of the current Add, and how many of them were taken off as lines
    ParsedData, \* the queue that ExtractData swaps out
    extracted,  \* history: what ExtractData returned
    threw,      \* Add ended with "Bad request"
    \* TParserState
    CurrentRequest, InContent, ContentLength, OriginalContentLength,
    ChunkedEncoding, CurrentFirstLine, CurrentHeaders, SizeBuf,
    \* TLocalParserState
    ProcessedLength, IsFirst

input == <<sent, wire, torn>>
request == <<CurrentRequest, InContent, ContentLength, OriginalContentLength,
             ChunkedEncoding, CurrentFirstLine, CurrentHeaders, SizeBuf>>
local == <<ProcessedLength, IsFirst>>
httpVars == <<input, given, at, ParsedData, extracted, threw, request, local>>

LF == "LF"
CR == "CR"
Is(byte, c) == byte.c = c
LineEnd == [c |-> LF, n |-> 0, cut |-> TRUE]
Blank(line) == line = <<>> \/ (Len(line) = 1 /\ Is(line[1], CR))

HTTPInit ==
    /\ sent = <<>> /\ wire = <<>> /\ torn = FALSE /\ given = <<>> /\ at = 0
    /\ ParsedData = <<>> /\ extracted = <<>> /\ threw = FALSE
    /\ CurrentRequest = <<>> /\ InContent = FALSE
    /\ ContentLength = 0 /\ OriginalContentLength = 0
    /\ ChunkedEncoding = FALSE /\ CurrentFirstLine = <<>> /\ CurrentHeaders = {}
    /\ SizeBuf = <<>>
    /\ ProcessedLength = 0 /\ IsFirst = TRUE

----------------------------------------------------------------------------
\* The peer, the reads, and the consumer.

Send(m) ==
    /\ Len(sent) < MaxMessages
    /\ \A i \in DOMAIN sent : ~sent[i].bad
    /\ sent' = Append(sent, m) /\ wire' = wire \o m.wire
    /\ UNCHANGED <<torn, given, at, ParsedData, extracted, threw, request, local>>

\* a read: it may end at any byte
HTTPAdd(n) ==
    /\ given = <<>> /\ ~threw
    /\ torn' = (torn \/ ~wire[n].cut)
    /\ given' = SubSeq(wire, 1, n) /\ wire' = SubSeq(wire, n + 1, Len(wire))
    /\ at' = 0 /\ ProcessedLength' = 0 /\ IsFirst' = TRUE
    /\ UNCHANGED <<sent, ParsedData, extracted, threw, request>>

\* all lines of an Add are parsed
AddReturns ==
    /\ given # <<>> /\ at = Len(given)
    /\ given' = <<>> /\ at' = 0 /\ ProcessedLength' = 0 /\ IsFirst' = TRUE
    /\ UNCHANGED <<input, ParsedData, extracted, threw, request>>

HTTPExtract ==
    /\ ParsedData # <<>>
    /\ extracted' = extracted \o ParsedData /\ ParsedData' = <<>>
    /\ UNCHANGED <<input, given, at, threw, request, local>>

----------------------------------------------------------------------------
\* ParseLine.  Line is the rest of what was given up to the next end of line, Counted what
\* ProcessedLength is with it, and More the test for bytes that were not counted yet.

Ends(bytes, from) == {i \in from..Len(bytes) : Is(bytes[i], LF)}
StopOf(bytes, from) ==
    IF Ends(bytes, from) = {} THEN Len(bytes) ELSE Min(Ends(bytes, from)) - 1
LineStop == StopOf(given, at + 1)
Line == SubSeq(given, at + 1, LineStop)
Counted == ProcessedLength + Len(Line)
More == Counted < Len(given)

\* the bytes of the line are consumed, with its end if it has one
Take ==
    /\ ~threw /\ at < Len(given)
    /\ at' = IF LineStop = Len(given) THEN LineStop ELSE LineStop + 1
    /\ UNCHANGED <<input, given, extracted>>

\* "and its end of line", where the code counts one
CountEnd == ProcessedLength' = IF More THEN Counted + 1 ELSE Counted

\* Flush: a complete request is queued unless it is empty, and the state starts again
Flushed(parsed, bytes, first, headers, bodySize) ==
    IF bytes = <<>> THEN parsed
    ELSE Append(parsed, [first |-> first, headers |-> headers,
                         body |-> SubSeq(bytes, Len(bytes) - bodySize + 1, Len(bytes))])

Reset ==
    /\ CurrentRequest' = <<>> /\ InContent' = FALSE
    /\ ContentLength' = 0 /\ OriginalContentLength' = 0
    /\ ChunkedEncoding' = FALSE /\ CurrentFirstLine' = <<>> /\ CurrentHeaders' = {}

\* an empty line before a first line
SkipBlank ==
    /\ Take /\ CurrentRequest = <<>> /\ Blank(Line)
    /\ ProcessedLength' = IF Len(Line) = 1 /\ More THEN Counted + 1 ELSE Counted
    /\ UNCHANGED <<ParsedData, threw, request, IsFirst>>

headVars == <<InContent, ChunkedEncoding, CurrentFirstLine, CurrentHeaders>>

----------------------------------------------------------------------------
\* ParseLine in a body of chunks, between two of them.

AtChunkSize == InContent /\ ChunkedEncoding /\ ContentLength = 0

\* a part of the line of a chunk size
BufferChunkSize ==
    /\ Take /\ AtChunkSize /\ ~More
    /\ SizeBuf' = SizeBuf \o Line /\ ProcessedLength' = Counted
    /\ UNCHANGED <<ParsedData, threw, IsFirst, CurrentRequest, headVars, ContentLength,
                   OriginalContentLength>>

Hex(line) ==
    FoldLeft(LAMBDA size, byte : 16 * size + (IF Is(byte, "size") THEN byte.n ELSE 0), 0,
             SelectSeq(line, LAMBDA byte : ~Is(byte, CR)))

\* Mutant: what was buffered of the line is forgotten.
ChunkSizeLineOnly == Line

\* the line of a chunk size with what was buffered of it
ChunkSizeLine == SizeBuf \o Line

ChunkSize ==
    LET size == Hex(ChunkSizeLine)
    IN  /\ Take /\ AtChunkSize /\ More
        /\ CountEnd /\ SizeBuf' = <<>>
        /\ \/ /\ size = 0
              /\ ParsedData' = Flushed(ParsedData, CurrentRequest, CurrentFirstLine,
                                       CurrentHeaders, OriginalContentLength)
              /\ Reset
              /\ IsFirst' = TRUE
           \/ /\ size > 0
              /\ ContentLength' = size
              /\ OriginalContentLength' = OriginalContentLength + size
              /\ UNCHANGED <<ParsedData, IsFirst, CurrentRequest, headVars>>
        /\ UNCHANGED threw

----------------------------------------------------------------------------
\* ParseLine in a body or in a chunk.

InBody == InContent /\ ContentLength > 0
Content == CurrentRequest \o SubSeq(Line, 1, ContentLength)
Rest == SubSeq(Line, ContentLength + 1, Len(Line))

\* the line has the end of a chunk: only its end of line may follow
ChunkEnds ==
    /\ Take /\ InBody /\ ChunkedEncoding /\ Len(Line) >= ContentLength
    /\ CurrentRequest' = Content /\ ContentLength' = 0
    /\ \/ Blank(Rest) /\ CountEnd /\ UNCHANGED threw
       \/ ~Blank(Rest) /\ threw' = TRUE /\ ProcessedLength' = Counted
    /\ UNCHANGED <<ParsedData, headVars, OriginalContentLength, SizeBuf, IsFirst>>

\* Mutant: a body that ends with its own end of line is not noticed.
CompleteWithoutLineEnd(left) == left = 0 /\ ~ChunkedEncoding /\ ~More

Complete(left) == left = 0 /\ ~ChunkedEncoding

\* the line goes on in the body behind its end, or what was given ends before it does
BodyGoesOn ==
    LET bytes == CurrentRequest \o Line \o (IF More THEN <<LineEnd>> ELSE <<>>)
        left == ContentLength - Len(Line) - (IF More THEN 1 ELSE 0)
    IN  /\ Take /\ InBody /\ Len(Line) < ContentLength
        /\ CountEnd
        /\ \/ /\ Complete(left)
              /\ ParsedData' = Flushed(ParsedData, bytes, CurrentFirstLine, CurrentHeaders,
                                       OriginalContentLength)
              /\ Reset /\ IsFirst' = TRUE
           \/ /\ ~Complete(left)
              /\ CurrentRequest' = bytes /\ ContentLength' = left
              /\ UNCHANGED <<ParsedData, headVars, OriginalContentLength, IsFirst>>
        /\ UNCHANGED <<threw, SizeBuf>>

----------------------------------------------------------------------------
\* ParseLine outside a body.

\* what follows the last end of line
LastLine(bytes) ==
    SubSeq(bytes, Max(Ends(bytes, 1) \cup {0}) + 1, Len(bytes))

\* The first line, which is stripped, and the headers, each of which its first byte stands for.
HeadOf(bytes) ==
    LET fields == {bytes[i] : i \in {j \in DOMAIN bytes \ {1} : Is(bytes[j - 1], LF)}}
        headers == {f \in fields : f.c \in {"header", "length"}}
    IN  [first |-> SelectSeq(SubSeq(bytes, 1, StopOf(bytes, 1)), LAMBDA byte : ~Is(byte, CR)),
         headers |-> headers,
         length |-> Max({f.n : f \in {g \in headers : Is(g, "length")}} \cup {0}),
         chunked |-> \E f \in fields : Is(f, "chunked")]

\* "parsed" and "bytes" are the queue and the request before the line, which may be the
\* rest of one that ended a body
HeaderLine(parsed, bytes, line, isFirst) ==
    LET all == bytes \o line \o (IF More THEN <<LineEnd>> ELSE <<>>)
        continues == isFirst /\ bytes # <<>> /\ ~Is(Last(bytes), LF)
        whole == IF continues THEN LastLine(IF line = <<>> THEN bytes ELSE all) ELSE line
        found == HeadOf(all)
        inContent == found.length > 0 \/ found.chunked
    IN  /\ CountEnd /\ IsFirst' = FALSE
        /\ \/ /\ ~Blank(whole)
              /\ CurrentRequest' = all
              /\ ParsedData' = parsed
              /\ InContent' = FALSE /\ ContentLength' = 0 /\ OriginalContentLength' = 0
              /\ ChunkedEncoding' = FALSE /\ CurrentFirstLine' = <<>> /\ CurrentHeaders' = {}
           \/ /\ Blank(whole) /\ ~inContent
              /\ ParsedData' = Flushed(parsed, all, found.first, found.headers, 0)
              /\ Reset
           \/ /\ Blank(whole) /\ inContent
              /\ CurrentRequest' = all
              /\ ParsedData' = parsed
              /\ InContent' = TRUE /\ ChunkedEncoding' = found.chunked
              /\ ContentLength' = found.length /\ OriginalContentLength' = found.length
              /\ CurrentFirstLine' = found.first /\ CurrentHeaders' = found.headers
        /\ UNCHANGED <<threw, SizeBuf>>

\* the line has the end of the body: the next message may start right behind it
BodyEnds ==
    LET parsed == Flushed(ParsedData, Content, CurrentFirstLine, CurrentHeaders,
                          OriginalContentLength)
    IN  /\ Take /\ InBody /\ ~ChunkedEncoding /\ Len(Line) >= ContentLength
        /\ \/ /\ Rest = <<>>
              /\ CountEnd /\ ParsedData' = parsed /\ Reset /\ IsFirst' = TRUE
              /\ UNCHANGED <<threw, SizeBuf>>
           \/ Rest # <<>> /\ HeaderLine(parsed, <<>>, Rest, TRUE)

HeaderGoesOn ==
    /\ Take /\ ~InContent
    /\ CurrentRequest # <<>> \/ ~Blank(Line)
    /\ HeaderLine(ParsedData, CurrentRequest, Line, IsFirst)

HTTPNext ==
    \/ \E m \in Messages : Send(m)
    \/ \E n \in DOMAIN wire : HTTPAdd(n)
    \/ AddReturns \/ HTTPExtract
    \/ SkipBlank \/ BufferChunkSize \/ ChunkSize
    \/ ChunkEnds \/ BodyGoesOn \/ BodyEnds \/ HeaderGoesOn

HTTPSpec == HTTPInit /\ [][HTTPNext]_httpVars

----------------------------------------------------------------------------
\* What a message is that the parser understands; of others (bad) the model says nothing: a
\* chunk without its CR LF, and a well-formed one that ends with LF.  head is how many bytes its first line and its headers
\* have; a chunk has the line of its size behind from and its bytes behind start, and
\* there are "before" bytes in the chunks before it.

\* the blank line that ends the headers ends at j
EndsHead(bytes, j) ==
    /\ j > 2 /\ Is(bytes[j], LF)
    /\ Is(bytes[j - 1], LF) \/ (Is(bytes[j - 1], CR) /\ Is(bytes[j - 2], LF))

\* cut is FALSE within a line, and between the CR and the LF of the blank one: when a read
\* ends there, the parser takes the rest of the line, or the next one, for the end of the
\* headers.
HasHead(m) ==
    /\ m.wire # <<>> /\ ~Is(m.wire[1], CR) /\ ~Is(m.wire[1], LF)
    /\ m.head \in DOMAIN m.wire /\ EndsHead(m.wire, m.head)
    /\ \A j \in 1..(m.head - 1) :
          /\ ~EndsHead(m.wire, j)
          /\ m.wire[j].cut => Is(m.wire[j], LF) \/ (j + 1 < m.head /\ Is(m.wire[j + 1], LF))
    /\ HeadOf(SubSeq(m.wire, 1, m.head)) =
          [first |-> m.parsed.first, headers |-> m.parsed.headers,
           length |-> IF m.chunks = <<>> THEN Len(m.wire) - m.head ELSE 0,
           chunked |-> m.chunks # <<>>]

\* cut is FALSE between a chunk and the end of its CR LF, and a chunk does not end with LF:
\* the parser takes what follows for a chunk of size 0.
IsChunk(m, c) ==
    LET end == c.start + c.size
    IN  /\ c.from < c.start /\ end + 2 <= Len(m.wire)
        /\ Is(m.wire[c.start], LF) /\ \A j \in (c.from + 1)..(c.start - 1) : ~Is(m.wire[j], LF)
        /\ Hex(SubSeq(m.wire, c.from + 1, c.start - 1)) = c.size
        /\ c.size > 0 => ~Is(m.wire[end], LF) /\ ~m.wire[end].cut
        /\ Is(m.wire[end + 1], CR) /\ ~m.wire[end + 1].cut /\ Is(m.wire[end + 2], LF)
        /\ c.before + c.size <= Len(m.parsed.body)
        /\ \A j \in 1..c.size : m.parsed.body[c.before + j] = m.wire[c.start + j]

\* the chunks follow each other, and one of size 0 is the last
HasChunks(m) ==
    /\ m.chunks[1].from = m.head /\ m.chunks[1].before = 0
    /\ \A i \in DOMAIN m.chunks :
          LET c == m.chunks[i]
              end == c.start + c.size
          IN  /\ IsChunk(m, c)
              /\ c.size = 0 <=> i = Len(m.chunks)
              /\ i < Len(m.chunks) =>
                    m.chunks[i + 1].from = end + 2 /\ m.chunks[i + 1].before = c.before + c.size
              /\ i = Len(m.chunks) => Len(m.wire) = end + 2 /\ Len(m.parsed.body) = c.before

WellFormed(m) ==
    /\ \A j \in DOMAIN m.wire : Is(m.wire[j], LF) => m.wire[j] = LineEnd
    /\ HasHead(m)
    /\ IF m.chunks = <<>>
       THEN m.parsed.body = SubSeq(m.wire, m.head + 1, Len(m.wire))
       ELSE HasChunks(m)

ASSUME MessageAssumption ==
    \A m \in Messages :
       /\ m.wire \in Seq(Byte) /\ m.bad \in BOOLEAN
       /\ ~m.bad =>
             /\ m.parsed = [first |-> m.parsed.first, headers |-> m.parsed.headers,
                             body |-> m.parsed.body]
             /\ m.parsed.body \in Seq(Byte)
             /\ m.chunks \in Seq([from : Nat, start : Nat, size : Nat, before : Nat])
             /\ WellFormed(m)

----------------------------------------------------------------------------
\* Properties.

Parsed == extracted \o ParsedData
\* only the last message may be one that is not understood
Good == IF sent # <<>> /\ Last(sent).bad THEN Front(sent) ELSE sent

\* Wherever reads end, but for the places where the parser does not understand it (within
\* a line of the head, in its last CR LF, and between a chunk and the end of its CR LF),
\* messages come out as they were sent, in order, with the headers and the body that belong
\* to them, and nothing fails or comes out too much before a message with a chunk that is
\* malformed or ends with LF.
MessagesArePrefix ==
    ~torn =>
        /\ \A i \in DOMAIN Good \cap DOMAIN Parsed : Parsed[i] = Good[i].parsed
        /\ Len(Parsed) > Len(Good) \/ threw => Len(Good) < Len(sent)

\* Under the same condition, when all bytes were read, every message that is understood has
\* come out: nothing waits in the request buffer for bytes of the next message.
EveryMessageIsParsed ==
    ~torn /\ wire = <<>> /\ given = <<>> /\ ~threw => Len(Parsed) >= Len(Good)
=============================================================================
