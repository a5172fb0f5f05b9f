---------------------------- MODULE HTTPConnection ----------------------------
(***************************************************************************)
(* One HTTP connection of the server: http/server/client.cpp, the once-only *)
(* responses of http/request.hpp, and the upgrade to WebSocket.            *)
(*                                                                         *)
(* The loop thread runs TClientBase::Cb: it reads, writes, hands the parsed *)
(* requests to the handler and then the frames to HandleFrame.  A handler  *)
(* answers on the loop thread, or keeps the shared request and lets a      *)
(* worker answer later.  The write queue and its callbacks are NetClient's, *)
(* here one step per item; reading is one step per burst, because the two  *)
(* parsers are only fed by the loop thread.                                *)
(***************************************************************************)
EXTENDS Integers, Sequences, FiniteSets

CONSTANTS
    Workers,        \* threads that answer kept requests
    Loop,           \* the loop thread
    MaxRequests,    \* requests the peer sends; the last one asks for an upgrade
    Frames,         \* the kinds of frames the peer may send
    MaxFrames,      \* how many of them
    Upgraders,      \* the threads on which handlers start WebSocket
    LateThrows      \* may a handler answer or throw after it answered or handed the request on?

ASSUME ConnectionAssumption ==
    /\ Loop \notin Workers
    /\ MaxRequests \in Nat \ {0} /\ MaxFrames \in Nat
    /\ Frames \subseteq {"ping", "pong", "close", "text", "unmasked"}
    /\ Upgraders \subseteq Workers \cup {Loop}
    /\ LateThrows \in BOOLEAN

Requests == 1..MaxRequests
NoRequest == 0
Threads == Workers \cup {Loop}

VARIABLES
    asked, framed,  \* how many requests, and which frames, the peer has sent
    early,          \* how many of those frames it sent before the accept was written
    socket,         \* frames sent by the peer and not read yet
    missed,         \* how many frames were read into the HTTP parser
    read,           \* the requests up to this one have been read, into the HTTP parser
    handled,        \* the requests up to this one have left the parser, in order
    wsParser,       \* is WebSocketParser set?
    wsFrames,       \* frames in the WebSocket parser
    responseSent,   \* TRequest::ResponseSent
    writeQueue,     \* items [kind, req, close]; close: the callback drops the client
    wire,           \* items written to the descriptor number
    alive,          \* ~Destroyed
    at,             \* where the loop thread is in Cb
    holds,          \* the request each thread is working on
    kept,           \* requests a handler has handed to workers
    starting        \* threads between sending the accept and OnWebSocketStart

peer == <<asked, framed, early>>
input == <<socket, missed>>
requests == <<read, handled>>
parsers == <<requests, wsParser, wsFrames>>
output == <<writeQueue, wire, alive>>
vars == <<peer, input, parsers, responseSent, output, at, holds, kept, starting>>

Init ==
    /\ asked = 0 /\ framed = <<>> /\ early = 0 /\ socket = <<>> /\ missed = 0
    /\ read = 0 /\ handled = 0 /\ wsParser = FALSE /\ wsFrames = <<>>
    /\ responseSent = [r \in Requests |-> FALSE]
    /\ writeQueue = <<>> /\ wire = <<>> /\ alive = TRUE
    /\ at = "poll"
    /\ holds = [t \in Threads |-> NoRequest]
    /\ kept = {} /\ starting = {}

----------------------------------------------------------------------------
\* The peer: requests may be pipelined; frames follow the last request, the upgrade, also
\* before it is accepted.

Accepted == \E i \in DOMAIN wire : wire[i].kind = "accept"

PeerAsks ==
    /\ alive /\ asked < MaxRequests
    /\ asked' = asked + 1
    /\ UNCHANGED <<framed, early, input, parsers, responseSent, output, at, holds, kept, starting>>

PeerSendsFrame(f) ==
    /\ alive /\ asked = MaxRequests /\ Len(framed) < MaxFrames
    /\ framed' = Append(framed, f)
    /\ early' = IF Accepted THEN early ELSE early + 1
    /\ socket' = Append(socket, f)
    /\ UNCHANGED <<asked, missed, parsers, responseSent, output, at, holds, kept, starting>>

----------------------------------------------------------------------------
\* Responses.  TRequest::Send exchanges ResponseSent and pushes; nothing reads the
\* flag in between, so the two are one step.  A Send that finds the flag set throws: on a
\* worker see WorkerDone, on the loop thread HandlerThrows.

Item(kind, r, close) == [kind |-> kind, req |-> r, close |-> close]
Push(item) == writeQueue' = Append(writeQueue, item)

\* Mutant: the flag is read and written separately.
SendUnchecked(item) ==
    /\ responseSent' = [responseSent EXCEPT ![item.req] = TRUE]
    /\ Push(item)

SendOnce(item) ==
    /\ ~responseSent[item.req]
    /\ responseSent' = [responseSent EXCEPT ![item.req] = TRUE]
    /\ Push(item)

\* TResponder::Respond, past ResponseSent
RespondUnguarded(r) ==
    /\ Push(Item("error", r, FALSE))
    /\ UNCHANGED responseSent

----------------------------------------------------------------------------
\* Cb on the loop thread.

\* every byte goes to the parser in charge; the HTTP parser makes nothing of a frame
ReadSocket ==
    /\ read' = asked
    /\ socket' = <<>>
    /\ wsFrames' = IF wsParser THEN wsFrames \o socket ELSE wsFrames
    /\ missed' = IF wsParser THEN missed ELSE missed + Len(socket)

CbReads ==
    /\ at = "poll" /\ alive /\ (read < asked \/ socket # <<>>)
    /\ ReadSocket
    /\ at' = "write"
    /\ UNCHANGED <<peer, handled, wsParser, responseSent, output, holds, kept, starting>>

\* recvfrom returns 0 or an error, which may lose what was not read: the client is
\* dropped and writes nothing, but what was parsed is handled
CbReadsEnd ==
    /\ at = "poll" /\ alive
    /\ ReadSocket \/ UNCHANGED <<read, input, wsFrames>>
    /\ alive' = FALSE
    /\ at' = "requests"
    /\ UNCHANGED <<peer, handled, wsParser, responseSent, writeQueue, wire, holds, kept, starting>>

CbOnlyWrites ==
    /\ at = "poll" /\ alive /\ writeQueue # <<>>
    /\ at' = "write"
    /\ UNCHANGED <<peer, input, parsers, responseSent, output, holds, kept, starting>>

\* one item written and its callback run; the loop goes on after a callback dropped the
\* client, writing to the number the descriptor had
Write ==
    /\ at = "write" /\ writeQueue # <<>>
    /\ wire' = Append(wire, Head(writeQueue))
    /\ writeQueue' = Tail(writeQueue)
    /\ alive' = (alive /\ ~Head(writeQueue).close)
    /\ UNCHANGED <<peer, input, parsers, responseSent, at, holds, kept, starting>>

\* an error that is not EAGAIN: the item stays in front of the queue
WriteFails ==
    /\ at = "write" /\ writeQueue # <<>>
    /\ alive' = FALSE
    /\ at' = "requests"
    /\ UNCHANGED <<peer, input, parsers, responseSent, writeQueue, wire, holds, kept, starting>>

\* the queue is empty, or the socket is full
CbWritten ==
    /\ at = "write"
    /\ at' = "requests"
    /\ UNCHANGED <<peer, input, parsers, responseSent, output, holds, kept, starting>>

\* NHTTPLikeServer::TClient::Cb, and HandleRequest up to the handler
HandleRequest ==
    /\ at = "requests" /\ handled < read
    /\ handled' = handled + 1
    /\ holds' = [holds EXCEPT ![Loop] = handled']
    /\ at' = "handler"
    /\ UNCHANGED <<peer, input, read, wsParser, wsFrames, responseSent, output, kept,
                   starting>>

\* the request factory, or the constructor, throws
FactoryThrows ==
    /\ at = "requests" /\ handled < read
    /\ handled' = handled + 1
    /\ RespondUnguarded(handled')
    /\ UNCHANGED <<peer, input, read, wsParser, wsFrames, wire, alive, at, holds, kept,
                   starting>>

RequestsDone ==
    /\ at = "requests" /\ handled = read
    /\ at' = IF wsParser THEN "frames" ELSE "poll"
    /\ UNCHANGED <<peer, input, parsers, responseSent, output, holds, kept, starting>>


\* OnData(frame)
HandleFrame ==
    /\ at = "frames" /\ wsFrames # <<>>
    /\ wsFrames' = Tail(wsFrames)
    /\ IF Head(wsFrames) = "ping"
       THEN Push(Item("pong", NoRequest, FALSE)) ELSE UNCHANGED writeQueue
    /\ alive' = (alive /\ Head(wsFrames) \notin {"close", "unmasked"})
    /\ UNCHANGED <<peer, input, requests, wsParser, responseSent, wire, at, holds,
                   kept, starting>>

FramesDone ==
    /\ at = "frames" /\ wsFrames = <<>>
    /\ at' = "poll"
    /\ UNCHANGED <<peer, input, parsers, responseSent, output, holds, kept, starting>>

----------------------------------------------------------------------------
\* What handlers do, on the loop thread or on a worker.

Busy(t) == holds[t] # NoRequest /\ t \notin starting

\* The handler on the loop thread leaves a request alone that it answered or handed on,
\* unless LateThrows.
GoesOn(t) ==
    t = Loop /\ (responseSent[holds[t]] \/ holds[t] \in kept) => LateThrows

\* Send or SendNoClose
Answer(t, close) ==
    /\ Busy(t) /\ GoesOn(t)
    /\ SendOnce(Item("response", holds[t], close))
    /\ UNCHANGED <<peer, input, parsers, wire, alive, at, holds, kept, starting>>

\* WebSocketStart (close = TRUE), or its two halves with SendNoClose
SendWebSocketAccept(t, close) ==
    /\ Busy(t) /\ GoesOn(t) /\ t \in Upgraders /\ holds[t] = MaxRequests
    /\ SendOnce(Item("accept", holds[t], close))
    /\ starting' = starting \cup {t}
    /\ UNCHANGED <<peer, input, parsers, wire, alive, at, holds, kept>>

\* Mutant: an override of OnWebSocketStart does not call TClientBase's.
OnWebSocketStartOverridden(t) ==
    /\ t \in starting
    /\ starting' = starting \ {t}
    /\ UNCHANGED <<peer, input, parsers, responseSent, output, at, holds, kept>>

OnWebSocketStart(t) ==
    /\ t \in starting
    /\ starting' = starting \ {t}
    /\ wsParser' = TRUE
    /\ wsFrames' = <<>>
    /\ UNCHANGED <<peer, input, requests, responseSent, output, at, holds, kept>>

\* the handler hands its request to a worker, or to several; with a request that is answered
\* a worker can do nothing
Keep(w) ==
    /\ at = "handler" /\ Busy(Loop) /\ w \in Workers /\ holds[w] = NoRequest
    /\ ~responseSent[holds[Loop]]
    /\ holds' = [holds EXCEPT ![w] = holds[Loop]]
    /\ kept' = kept \cup {holds[Loop]}
    /\ UNCHANGED <<peer, input, parsers, responseSent, output, at, starting>>

\* a handler returns only when the request is answered or kept
HandlerReturns ==
    /\ at = "handler" /\ Busy(Loop)
    /\ responseSent[holds[Loop]] \/ holds[Loop] \in kept
    /\ holds' = [holds EXCEPT ![Loop] = NoRequest]
    /\ at' = "requests"
    /\ UNCHANGED <<peer, input, parsers, responseSent, output, kept, starting>>

MayThrow == at = "handler" /\ Busy(Loop) /\ GoesOn(Loop)

\* Mutant: HandleException only logs.
HandleExceptionLogs(r) == UNCHANGED <<responseSent, writeQueue>>

\* HandleException sends a 500; when that throws, because a response was sent
\* before, the next catch answers past ResponseSent
HandleException(r) ==
    \/ SendOnce(Item("error", r, TRUE))
    \/ responseSent[r] /\ RespondUnguarded(r)

\* an exception of its own, or that of a Send that came too late
HandlerThrows ==
    /\ MayThrow
    /\ HandleException(holds[Loop])
    /\ holds' = [holds EXCEPT ![Loop] = NoRequest]
    /\ at' = "requests"
    /\ UNCHANGED <<peer, input, parsers, wire, alive, kept, starting>>

\* something that is no std::exception: catch (...)
HandlerThrowsOther ==
    /\ MayThrow
    /\ RespondUnguarded(holds[Loop])
    /\ holds' = [holds EXCEPT ![Loop] = NoRequest]
    /\ at' = "requests"
    /\ UNCHANGED <<peer, input, parsers, wire, alive, kept, starting>>

\* the worker has answered, or its Send threw because someone else had
WorkerDone(w) ==
    /\ Busy(w) /\ w \in Workers
    /\ responseSent[holds[w]]
    /\ holds' = [holds EXCEPT ![w] = NoRequest]
    /\ UNCHANGED <<peer, input, parsers, responseSent, output, at, kept, starting>>

----------------------------------------------------------------------------
Cb ==
    \/ CbReads \/ CbOnlyWrites \/ Write \/ CbWritten
    \/ HandleRequest \/ FactoryThrows \/ RequestsDone
    \/ HandleFrame \/ FramesDone

Handler(t) ==
    \/ \E close \in BOOLEAN : Answer(t, close) \/ SendWebSocketAccept(t, close)
    \/ OnWebSocketStart(t)

LoopHandler ==
    \/ Handler(Loop) \/ \E w \in Workers : Keep(w)
    \/ HandlerReturns \/ HandlerThrows \/ HandlerThrowsOther

Worker(w) == Handler(w) \/ WorkerDone(w)

Next ==
    \/ PeerAsks \/ CbReadsEnd \/ WriteFails
    \/ \E f \in Frames : PeerSendsFrame(f)
    \/ Cb \/ LoopHandler
    \/ \E w \in Workers : Worker(w)

Spec == Init /\ [][Next]_vars

\* The loop thread and the workers keep running, handlers end, and what can be read is
\* read: every registration asks for READ.  Nothing makes the loop write, as an item that a
\* worker pushed may be left with WRITE disarmed.
Fairness ==
    /\ WF_vars(Cb) /\ SF_vars(CbReads) /\ WF_vars(LoopHandler)
    /\ \A w \in Workers : WF_vars(Worker(w))

FairSpec == Spec /\ Fairness

----------------------------------------------------------------------------
\* Properties.

Items == [kind : {"response", "accept", "error", "pong"}, req : Requests \cup {NoRequest},
          close : BOOLEAN]

\* Types; the loop thread holds a request exactly while a handler runs.
TypeOK ==
    /\ asked \in 0..MaxRequests /\ read \in 0..asked /\ handled \in 0..read
    /\ framed \in Seq(Frames) /\ Len(framed) <= MaxFrames /\ early \in Nat /\ missed \in Nat
    /\ wsFrames \in Seq(Frames) /\ socket \in Seq(Frames)
    /\ at \in {"poll", "write", "requests", "handler", "frames"}
    /\ holds \in [Threads -> Requests \cup {NoRequest}]
    /\ (at = "handler") <=> (holds[Loop] # NoRequest)
    /\ starting \subseteq Upgraders
    /\ responseSent \in [Requests -> BOOLEAN]
    /\ writeQueue \in Seq(Items) /\ wire \in Seq(Items) /\ kept \subseteq Requests
    /\ alive \in BOOLEAN /\ wsParser \in BOOLEAN

ResponsesTo(r) ==
    {i \in 1..Len(wire \o writeQueue) : (wire \o writeQueue)[i].req = r}

\* However workers that were handed the same request race, and whatever throws before the
\* handler answered or handed it on, a request is answered at most once.
AnsweredOnce == \A r \in Requests : Cardinality(ResponsesTo(r)) <= 1

\* A frame that the peer sent after the accept had reached it goes to the WebSocket parser;
\* frames that came with the upgrade may be lost in the HTTP parser.
AcceptedFramesAreRead == missed <= early

\* Every ping that was not lost in the HTTP parser gets a pong, queued or written, in a burst
\* of frames as well, unless the connection ends.
Pings == SelectSeq(SubSeq(framed, missed + 1, Len(framed)), LAMBDA f : f = "ping")
Pongs == SelectSeq(wire \o writeQueue, LAMBDA i : i.kind = "pong")

\* Every request gets a response, queued or written, or the connection is closed, whatever
\* the handler does: answer, keep the request for a worker, or throw.
EveryRequestIsAnswered ==
    \A r \in Requests : asked >= r ~> (~alive \/ ResponsesTo(r) # {})
=============================================================================
