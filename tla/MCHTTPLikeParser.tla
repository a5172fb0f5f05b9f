--------------------------- MODULE MCHTTPLikeParser ---------------------------
(***************************************************************************)
(* Messages for HTTPLikeParser.  A read that ends at any byte of a body or of *)
(* a chunk but its last, before and after the end of a line, within a chunk  *)
(* size, or between messages, is understood.  Two messages are not: a chunk  *)
(* with less than its size said, and a well-formed chunk that ends with LF.  *)
(***************************************************************************)
EXTENDS HTTPLikeParser

B(c, n, cut) == [c |-> c, n |-> n, cut |-> cut]
L(c, n) == <<B(c, n, FALSE), B(CR, 0, TRUE), LineEnd>>
EmptyLine == <<B(CR, 0, FALSE), LineEnd>>
BodyByte(c) == IF c = LF THEN LineEnd ELSE B(c, 0, TRUE)
BodyBytes(cs) == [i \in DOMAIN cs |-> BodyByte(cs[i])]

\* the line of a chunk size of one or more digits
SizeLine(digits) ==
    [i \in DOMAIN digits |-> B("size", digits[i], TRUE)] \o <<B(CR, 0, TRUE), LineEnd>>

\* a chunk, with a read not ending after its last byte
ChunkBytes(cs) == BodyBytes(Front(cs)) \o <<[BodyByte(Last(cs)) EXCEPT !.cut = FALSE]>>

Message(head, rest, chunks, headers, body, bad) ==
    [wire |-> head \o rest, bad |-> bad, head |-> Len(head), chunks |-> chunks,
     parsed |-> [first |-> <<B("first", 0, FALSE)>>, headers |-> headers, body |-> body]]

Plain ==
    Message(L("first", 0) \o L("header", 1) \o EmptyLine, <<>>, <<>>,
            {B("header", 1, FALSE)}, <<>>, FALSE)

WithBody(cs) ==
    Message(L("first", 0) \o L("length", Len(cs)) \o EmptyLine, BodyBytes(cs), <<>>,
            {B("length", Len(cs), FALSE)}, BodyBytes(cs), FALSE)

\* two chunks, the second of one byte
InChunks(digits, cs, bad) ==
    LET head == L("first", 0) \o L("chunked", 0) \o L("header", 2) \o EmptyLine
        one == SizeLine(digits)
        two == SizeLine(<<1>>)
        three == SizeLine(<<0>>)
        start1 == Len(head) + Len(one)
        from2 == start1 + Len(cs) + 2
        start2 == from2 + Len(two)
        C(from, start, size, before) ==
            [from |-> from, start |-> start, size |-> size, before |-> before]
    IN  Message(head, one \o ChunkBytes(cs) \o EmptyLine \o two \o ChunkBytes(<<"z">>)
                        \o EmptyLine \o three \o EmptyLine,
                <<C(Len(head), start1, Len(cs), 0), C(from2, start2, 1, Len(cs)),
                  C(start2 + 3, start2 + 3 + Len(three), 0, Len(cs) + 1)>>,
                {B("header", 2, FALSE)}, ChunkBytes(cs) \o ChunkBytes(<<"z">>), bad)

MCMessages == {Plain, WithBody(<<"x", LF>>), WithBody(<<LF, CR, "x">>),
               InChunks(<<0, 3>>, <<"x", LF, "y">>, FALSE),
               InChunks(<<1>>, <<"x", "y">>, TRUE), InChunks(<<2>>, <<"x", LF>>, TRUE)}

\* Nothing is said of a connection after a torn read, and TLC does not follow it.
NotTorn == ~torn
=============================================================================
