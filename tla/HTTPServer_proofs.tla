-------------------------- MODULE HTTPServer_proofs --------------------------
(***************************************************************************)
(* Proofs about the HTTP server.                                           *)
(*                                                                         *)
(* HTTPConnection, for every set of workers, every number of requests and  *)
(* frames: a request is answered at most once, and no frame sent after the *)
(* accept was written is read into the HTTP parser.                        *)
(*                                                                         *)
(* AwaitHTTP, for every number of connections, addresses, retries and      *)
(* replies: descriptors neither leak nor are closed under their next       *)
(* owner, and no thread touches what has been freed.                       *)
(***************************************************************************)
EXTENDS HTTPConnection, AwaitHTTP, SequenceTheorems, FiniteSetTheorems,
        WellFoundedInduction, TLAPS

(***************************************************************************)
(* HTTPConnection: the inductive invariant.                                *)
(***************************************************************************)

\* What was written and what is yet to be.
Output == wire \o writeQueue

Unanswered(r) == \A i \in 1..Len(Output) : Output[i].req # r

\* The loop works on the request it handled last; a worker works on one that was kept.
HoldInv ==
    /\ holds[Loop] # NoRequest => holds[Loop] = handled
    /\ kept \subseteq 1..handled
    /\ \A w \in Workers : holds[w] # NoRequest => holds[w] \in kept

\* No request has two responses; none has one before it is handled, or while a thread that
\* works on it finds ResponseSent unset.
AnswerInv ==
    /\ \A i, j \in 1..Len(Output) :
          Output[i].req = Output[j].req /\ Output[i].req # NoRequest => i = j
    /\ \A i \in 1..Len(Output) : Output[i].req <= handled
    /\ \A t \in Threads :
          holds[t] # NoRequest /\ ~responseSent[holds[t]] => Unanswered(holds[t])

\* The accept is queued or written.
AcceptSent == \E i \in 1..Len(Output) : Output[i].kind = "accept"

\* The upgrade is on the loop thread, within a handler: the accept is only written when the
\* WebSocket parser is set, and the frames counted as missed were sent before.
AcceptInv ==
    /\ starting \subseteq {Loop}
    /\ Loop \in starting => at = "handler"
    /\ AcceptSent => wsParser \/ Loop \in starting
    /\ Accepted => wsParser
    /\ IF wsParser THEN missed <= early
       ELSE early = Len(framed) /\ missed + Len(socket) <= Len(framed)

-----------------------------------------------------------------------------
(* Types.                                                                   *)

LEMMA PushedItem ==
    ASSUME TypeOK, NEW item \in Items, Push(item)
    PROVE  writeQueue' \in Seq(Items)
BY AppendProperties DEF Push, TypeOK

LEMMA ItemsAre ==
    ASSUME NEW k \in {"response", "accept", "error", "pong"}, NEW r \in Requests \cup {NoRequest},
           NEW b \in BOOLEAN
    PROVE  Item(k, r, b) \in Items /\ Item(k, r, b).req = r /\ Item(k, r, b).close = b
BY DEF Item, Items

LEMMA TypeKept ==
    ASSUME TypeOK, [Next]_vars
    PROVE  TypeOK'
<1> USE ConnectionAssumption DEF input
<1>1. Loop \in Threads /\ \A w \in Workers : w \in Threads /\ w # Loop
  BY DEF Threads
<1>2. asked \in Nat /\ read \in Nat /\ handled \in Nat /\ asked <= MaxRequests /\ read <= asked /\ handled <= read
  BY DEF TypeOK
<1>3. CASE UNCHANGED vars
  BY <1>3 DEF TypeOK, vars, peer, parsers, requests, output
<1>4. CASE PeerAsks
  <2>1. asked' \in 0..MaxRequests /\ read' \in 0..asked' /\ handled' \in 0..read'
    BY <1>2, <1>4 DEF PeerAsks, parsers, requests
  <2>2. QED
    BY <1>4, <2>1 DEF PeerAsks, TypeOK, parsers, requests, output
<1>5. ASSUME NEW f \in Frames, PeerSendsFrame(f)
      PROVE  TypeOK'
  <2>1. framed' \in Seq(Frames) /\ Len(framed') = Len(framed) + 1 /\ Len(framed) \in Nat
    BY <1>5, AppendProperties, LenProperties DEF PeerSendsFrame, TypeOK
  <2>2. Len(framed') <= MaxFrames
    BY <1>5, <2>1 DEF PeerSendsFrame
  <2>3. socket' \in Seq(Frames) /\ early' \in Nat
    BY <1>5, AppendProperties DEF PeerSendsFrame, TypeOK
  <2>4. QED
    BY <1>5, <2>1, <2>2, <2>3 DEF PeerSendsFrame, TypeOK, parsers, requests, output
<1>6. CASE CbReads \/ CbReadsEnd
  <2>1. /\ asked' = asked /\ handled' = handled /\ read' \in {asked, read}
        /\ wsFrames' \in {wsFrames, wsFrames \o socket} /\ socket' \in {socket, <<>>}
        /\ missed' \in {missed, missed + Len(socket)}
        /\ alive' \in {alive, FALSE} /\ at' \in {"write", "requests"} /\ at = "poll"
        /\ UNCHANGED <<framed, early, wsParser, responseSent, writeQueue, wire, holds, kept, starting>>
    <3>1. CASE CbReads
      BY <3>1 DEF CbReads, ReadSocket, peer, output
    <3>2. CASE CbReadsEnd
      BY <3>2 DEF CbReadsEnd, ReadSocket, peer, output
    <3>3. QED
      BY <1>6, <3>1, <3>2
  <2>2. asked' \in 0..MaxRequests /\ read' \in 0..asked' /\ handled' \in 0..read'
    BY <1>2, <2>1
  <2>3. wsFrames' \in Seq(Frames) /\ socket' \in Seq(Frames) /\ missed' \in Nat
    <3>1. wsFrames \in Seq(Frames) /\ socket \in Seq(Frames) /\ missed \in Nat
      BY DEF TypeOK
    <3>2. wsFrames \o socket \in Seq(Frames) /\ Len(socket) \in Nat
      BY <3>1, ConcatProperties, LenProperties
    <3>3. <<>> \in Seq(Frames) /\ missed + Len(socket) \in Nat
      BY <3>1, <3>2
    <3>4. wsFrames' = wsFrames \/ wsFrames' = wsFrames \o socket
      BY <2>1
    <3>5. (socket' = socket \/ socket' = <<>>) /\ (missed' = missed \/ missed' = missed + Len(socket))
      BY <2>1
    <3>6. QED
      BY <3>1, <3>2, <3>3, <3>4, <3>5
  <2>4. /\ alive' \in BOOLEAN /\ at' \in {"poll", "write", "requests", "handler", "frames"}
        /\ (at' = "handler") <=> (holds'[Loop] # NoRequest)
    <3>1. alive \in BOOLEAN /\ holds[Loop] = NoRequest /\ holds' = holds /\ at' # "handler"
      BY <2>1 DEF TypeOK
    <3>2. QED
      BY <2>1, <3>1
  <2>5. UNCHANGED <<asked, framed, early, handled, wsParser, responseSent, writeQueue, wire, holds, kept, starting>>
    BY <2>1
  <2>6. QED
    BY <2>2, <2>3, <2>4, <2>5 DEF TypeOK
<1>7. CASE CbOnlyWrites \/ CbWritten \/ WriteFails \/ RequestsDone \/ FramesDone
  BY <1>7
  DEF CbOnlyWrites, CbWritten, WriteFails, RequestsDone, FramesDone, TypeOK, peer, parsers, requests, output
<1>8. CASE Write
  <2>1. writeQueue' \in Seq(Items) /\ wire' \in Seq(Items) /\ alive' \in BOOLEAN
    <3>1. writeQueue \in Seq(Items) /\ wire \in Seq(Items) /\ writeQueue # <<>>
      BY <1>8 DEF Write, TypeOK
    <3>2. Head(writeQueue) \in Items /\ Tail(writeQueue) \in Seq(Items)
      BY <3>1, HeadTailProperties
    <3>3. Append(wire, Head(writeQueue)) \in Seq(Items)
      BY <3>1, <3>2, AppendProperties
    <3>4. QED
      BY <1>8, <3>2, <3>3 DEF Write, TypeOK
  <2>2. QED
    BY <1>8, <2>1 DEF Write, TypeOK, peer, parsers, requests
<1>9. CASE HandleRequest
  <2>1. asked' \in 0..MaxRequests /\ read' \in 0..asked' /\ handled' \in 0..read' /\ handled' \in Requests
    BY <1>2, <1>9 DEF HandleRequest, peer, Requests
  <2>2. /\ holds' \in [Threads -> Requests \cup {NoRequest}]
        /\ holds'[Loop] # NoRequest /\ at' = "handler"
    BY <1>1, <1>9, <2>1 DEF HandleRequest, TypeOK, Requests, NoRequest
  <2>3. QED
    BY <1>9, <2>1, <2>2 DEF HandleRequest, TypeOK, peer, output
<1>10. CASE FactoryThrows
  <2>1. asked' \in 0..MaxRequests /\ read' \in 0..asked' /\ handled' \in 0..read' /\ handled' \in Requests
    BY <1>2, <1>10 DEF FactoryThrows, peer, Requests
  <2>2. writeQueue' \in Seq(Items)
    BY <1>10, <2>1, PushedItem, ItemsAre DEF FactoryThrows, RespondUnguarded
  <2>3. QED
    BY <1>10, <2>1, <2>2 DEF FactoryThrows, RespondUnguarded, TypeOK, peer
<1>11. CASE HandleFrame
  <2>1. wsFrames' \in Seq(Frames)
    BY <1>11, HeadTailProperties DEF HandleFrame, TypeOK
  <2>2. writeQueue' \in Seq(Items)
    <3>1. NoRequest \in Requests \cup {NoRequest}
      OBVIOUS
    <3>2. CASE Head(wsFrames) = "ping"
      BY <1>11, <3>1, <3>2, PushedItem, ItemsAre DEF HandleFrame
    <3>3. CASE Head(wsFrames) # "ping"
      BY <1>11, <3>3 DEF HandleFrame, TypeOK
    <3>4. QED
      BY <3>2, <3>3
  <2>3. alive' \in BOOLEAN
    BY <1>11 DEF HandleFrame
  <2>4. QED
    BY <1>11, <2>1, <2>2, <2>3 DEF HandleFrame, TypeOK, peer, requests
<1>12. ASSUME NEW t \in Threads, NEW close \in BOOLEAN, Answer(t, close) \/ SendWebSocketAccept(t, close)
       PROVE  TypeOK'
  <2>1. holds[t] \in Requests
    BY <1>12 DEF Answer, SendWebSocketAccept, Busy, TypeOK
  <2>2. writeQueue' \in Seq(Items)
    BY <1>12, <2>1, PushedItem, ItemsAre DEF Answer, SendWebSocketAccept, SendOnce
  <2>3. responseSent' \in [Requests -> BOOLEAN]
    BY <1>12 DEF Answer, SendWebSocketAccept, SendOnce, TypeOK
  <2>4. starting' \subseteq Upgraders
    BY <1>12 DEF Answer, SendWebSocketAccept, TypeOK
  <2>5. UNCHANGED <<peer, parsers, input, wire, alive, at, holds, kept>>
    BY <1>12 DEF Answer, SendWebSocketAccept
  <2>6. QED
    BY <2>2, <2>3, <2>4, <2>5 DEF TypeOK, peer, parsers, requests
<1>13. ASSUME NEW t \in Threads, OnWebSocketStart(t)
       PROVE  TypeOK'
  BY <1>13, EmptySeq DEF OnWebSocketStart, TypeOK, peer, requests, output
<1>14. ASSUME NEW w \in Workers, Keep(w)
       PROVE  TypeOK'
  <2>1. holds[Loop] \in Requests
    BY <1>1, <1>14 DEF Keep, Busy, TypeOK
  <2>2. /\ holds' \in [Threads -> Requests \cup {NoRequest}] /\ holds'[Loop] = holds[Loop]
        /\ kept' \subseteq Requests
    BY <1>1, <1>14, <2>1 DEF Keep, TypeOK
  <2>3. QED
    BY <1>14, <2>2 DEF Keep, TypeOK, peer, parsers, requests, output
<1>15. CASE HandlerReturns
  BY <1>1, <1>15 DEF HandlerReturns, TypeOK, peer, parsers, requests, output
<1>16. CASE HandlerThrows \/ HandlerThrowsOther
  <2>1. holds[Loop] \in Requests
    BY <1>1, <1>16 DEF HandlerThrows, HandlerThrowsOther, MayThrow, Busy, TypeOK
  <2>2. writeQueue' \in Seq(Items)
    BY <1>16, <2>1, PushedItem, ItemsAre
    DEF HandlerThrows, HandlerThrowsOther, HandleException, SendOnce, RespondUnguarded
  <2>3. responseSent' \in [Requests -> BOOLEAN]
    BY <1>16 DEF HandlerThrows, HandlerThrowsOther, HandleException, SendOnce, RespondUnguarded, TypeOK
  <2>4. /\ holds' \in [Threads -> Requests \cup {NoRequest}]
        /\ holds'[Loop] = NoRequest /\ at' = "requests"
    BY <1>1, <1>16 DEF HandlerThrows, HandlerThrowsOther, TypeOK
  <2>5. UNCHANGED <<peer, input, parsers, wire, alive, kept, starting>>
    BY <1>16 DEF HandlerThrows, HandlerThrowsOther
  <2>6. QED
    BY <2>2, <2>3, <2>4, <2>5 DEF TypeOK, peer, parsers, requests
<1>17. ASSUME NEW w \in Workers, WorkerDone(w)
       PROVE  TypeOK'
  BY <1>1, <1>17 DEF WorkerDone, TypeOK, peer, parsers, requests, output
<1>18. QED
  BY <1>1, <1>3, <1>4, <1>5, <1>6, <1>7, <1>8, <1>9, <1>10, <1>11, <1>12, <1>13, <1>14, <1>15,
     <1>16, <1>17 DEF Next, Cb, Handler, LoopHandler, Worker

-----------------------------------------------------------------------------
(* The output.                                                              *)

LEMMA OutputIs ==
    ASSUME TypeOK
    PROVE  Output \in Seq(Items) /\ Len(Output) \in Nat
BY ConcatProperties, LenProperties DEF TypeOK, Output

\* Pushing appends to the output.
LEMMA PushExtends ==
    ASSUME TypeOK, NEW item \in Items, Push(item), wire' = wire
    PROVE  /\ Len(Output)' = Len(Output) + 1
           /\ \A i \in 1..Len(Output) : Output'[i] = Output[i]
           /\ Output'[Len(Output) + 1] = item
<1>1. wire \in Seq(Items) /\ writeQueue \in Seq(Items) /\ <<item>> \in Seq(Items)
  BY DEF TypeOK
<1>2. writeQueue' = writeQueue \o <<item>>
  BY <1>1, AppendIsConcat DEF Push
<1>3. Output' = Output \o <<item>>
  BY <1>1, <1>2, ConcatAssociative DEF Output
<1>4. Output \in Seq(Items) /\ Output' = Append(Output, item)
  BY <1>3, OutputIs, AppendIsConcat
<1>5. QED
  BY <1>4, AppendProperties

\* Writing moves the head of the queue behind the rest of the output that was written.
LEMMA WriteKeeps ==
    ASSUME TypeOK, Write
    PROVE  Output' = Output
<1> DEFINE h == Head(writeQueue)
<1>1. wire \in Seq(Items) /\ writeQueue \in Seq(Items) /\ writeQueue # <<>>
  BY DEF TypeOK, Write
<1>2. h \in Items /\ Tail(writeQueue) \in Seq(Items) /\ <<h>> \in Seq(Items)
  BY <1>1, HeadTailProperties
<1>3. wire' = wire \o <<h>> /\ writeQueue' = Tail(writeQueue)
  BY <1>1, <1>2, AppendIsConcat DEF Write
<1>4. <<h>> \o Tail(writeQueue) = writeQueue
  <2>1. \A q \in Seq(Items) : q # <<>> => <<Head(q)>> \o Tail(q) = q
    <3>1. ASSUME NEW q \in Seq(Items), q # <<>>
          PROVE  <<Head(q)>> \o Tail(q) = q
      <4>1. /\ Head(q) \in Items /\ Tail(q) \in Seq(Items) /\ Len(Tail(q)) = Len(q) - 1
            /\ \A i \in 1..Len(Tail(q)) : Tail(q)[i] = q[i + 1]
        BY <3>1, HeadTailProperties
      <4>2. Len(q) \in Nat \ {0} /\ q[1] = Head(q)
        BY <3>1, EmptySeq
      <4>3. <<Head(q)>> \in Seq(Items) /\ Len(<<Head(q)>>) = 1 /\ <<Head(q)>>[1] = Head(q)
        BY <4>1
      <4>4. /\ <<Head(q)>> \o Tail(q) \in Seq(Items)
            /\ Len(<<Head(q)>> \o Tail(q)) = 1 + Len(Tail(q))
            /\ \A i \in 1..(1 + Len(Tail(q))) :
                 (<<Head(q)>> \o Tail(q))[i] = IF i <= 1 THEN <<Head(q)>>[i] ELSE Tail(q)[i - 1]
        BY <4>1, <4>3, ConcatProperties
      <4>5. Len(<<Head(q)>> \o Tail(q)) = Len(q)
        BY <4>1, <4>2, <4>4
      <4>6. ASSUME NEW i \in 1..Len(q)
            PROVE  (<<Head(q)>> \o Tail(q))[i] = q[i]
        <5>1. CASE i = 1
          BY <4>1, <4>2, <4>3, <4>4, <5>1
        <5>2. CASE i # 1
          <6>1. i - 1 \in 1..Len(Tail(q)) /\ (i - 1) + 1 = i /\ ~(i <= 1) /\ i \in 1..(1 + Len(Tail(q)))
            BY <4>1, <4>2, <5>2
          <6>2. Tail(q)[i - 1] = q[i]
            BY <4>1, <6>1
          <6>3. QED
            BY <4>4, <6>1, <6>2
        <5>3. QED
          BY <5>1, <5>2
      <4>7. QED
        BY <4>4, <4>5, <4>6, SeqEqual
    <3>2. QED
      BY <3>1
  <2>2. QED
    BY <1>1, <2>1
<1>5. (wire \o <<h>>) \o Tail(writeQueue) = wire \o (<<h>> \o Tail(writeQueue))
  BY <1>1, <1>2, ConcatAssociative
<1>6. QED
  BY <1>3, <1>4, <1>5 DEF Output

-----------------------------------------------------------------------------
(* Who works on which request.                                              *)

LEMMA HoldKept ==
    ASSUME TypeOK, HoldInv, [Next]_vars
    PROVE  HoldInv'
<1> USE ConnectionAssumption
<1>1. Loop \in Threads /\ \A w \in Workers : w \in Threads /\ w # Loop
  BY DEF Threads
<1>2. holds \in [Threads -> Requests \cup {NoRequest}] /\ handled \in Nat
  BY DEF TypeOK
<1>3. CASE HandleRequest
  <2>1. /\ handled' = handled + 1 /\ holds'[Loop] = handled' /\ kept' = kept
        /\ \A w \in Workers : holds'[w] = holds[w]
    BY <1>1, <1>2, <1>3 DEF HandleRequest
  <2>2. kept' \subseteq 1..handled'
    BY <1>2, <2>1 DEF HoldInv
  <2>3. QED
    BY <2>1, <2>2 DEF HoldInv
<1>4. CASE FactoryThrows
  <2>1. handled' = handled + 1 /\ holds' = holds /\ kept' = kept /\ holds[Loop] = NoRequest
    BY <1>4 DEF FactoryThrows, TypeOK
  <2>2. kept' \subseteq 1..handled'
    BY <1>2, <2>1 DEF HoldInv
  <2>3. QED
    BY <2>1, <2>2 DEF HoldInv
<1>5. ASSUME NEW w \in Workers, Keep(w)
      PROVE  HoldInv'
  <2>1. /\ handled' = handled /\ holds' = [holds EXCEPT ![w] = holds[Loop]]
        /\ kept' = kept \cup {holds[Loop]} /\ holds[Loop] # NoRequest
    BY <1>5 DEF Keep, Busy, parsers, requests
  <2>2. holds'[Loop] = holds[Loop] /\ holds'[w] = holds[Loop]
        /\ \A x \in Workers : x # w => holds'[x] = holds[x]
    BY <1>1, <1>2, <2>1
  <2>3. holds[Loop] = handled /\ handled \in 1..handled
    <3>1. holds[Loop] \in Requests
      BY <1>1, <1>2, <2>1
    <3>2. QED
      BY <1>2, <2>1, <3>1 DEF HoldInv, Requests
  <2>4. QED
    BY <2>1, <2>2, <2>3 DEF HoldInv
<1>6. CASE HandlerReturns \/ HandlerThrows \/ HandlerThrowsOther
  <2>1. /\ handled' = handled /\ kept' = kept /\ holds'[Loop] = NoRequest
        /\ \A w \in Workers : holds'[w] = holds[w]
    BY <1>1, <1>2, <1>6 DEF HandlerReturns, HandlerThrows, HandlerThrowsOther, parsers, requests
  <2>2. QED
    BY <2>1 DEF HoldInv
<1>7. ASSUME NEW w \in Workers, WorkerDone(w)
      PROVE  HoldInv'
  <2>1. /\ handled' = handled /\ kept' = kept /\ holds'[w] = NoRequest
        /\ \A x \in Threads : x # w => holds'[x] = holds[x]
    BY <1>1, <1>2, <1>7 DEF WorkerDone, parsers, requests
  <2>2. QED
    BY <1>1, <2>1 DEF HoldInv
<1>8. CASE UNCHANGED <<handled, holds, kept>>
  BY <1>8 DEF HoldInv
<1>9. QED
  <2>1. \/ HandleRequest \/ FactoryThrows \/ HandlerReturns \/ HandlerThrows \/ HandlerThrowsOther
        \/ (\E w \in Workers : Keep(w) \/ WorkerDone(w))
        \/ UNCHANGED <<handled, holds, kept>>
    BY DEF Next, Cb, Handler, LoopHandler, Worker, PeerAsks, PeerSendsFrame, CbReads, CbReadsEnd, CbOnlyWrites, Write,
           WriteFails, CbWritten, RequestsDone, HandleFrame, FramesDone, Answer, SendWebSocketAccept,
           OnWebSocketStart, vars, parsers, requests
  <2>2. QED
    BY <1>3, <1>4, <1>5, <1>6, <1>7, <1>8, <2>1

\* No thread works on a request that has not been handled.
LEMMA HeldAreHandled ==
    ASSUME TypeOK, HoldInv, NEW t \in Threads, holds[t] # NoRequest
    PROVE  holds[t] \in Requests /\ holds[t] <= handled
<1>1. holds[t] \in Requests /\ handled \in Nat
  BY DEF TypeOK
<1>2. CASE t = Loop
  BY <1>1, <1>2 DEF HoldInv, Requests
<1>3. CASE t \in Workers
  BY <1>1, <1>3 DEF HoldInv, Requests
<1>4. QED
  BY <1>1, <1>2, <1>3 DEF Threads

-----------------------------------------------------------------------------
(* A request is answered once.                                              *)

\* One more item: a first response to a request that no thread works on with ResponseSent
\* unset afterwards, or an item that is no response.
LEMMA OneMoreItem ==
    ASSUME TypeOK, AnswerInv, NEW item \in Items, Push(item), wire' = wire, handled' \in Nat,
           handled <= handled', item.req <= handled',
           item.req = NoRequest \/ Unanswered(item.req),
           \A t \in Threads : holds'[t] # NoRequest /\ ~responseSent'[holds'[t]] =>
              Unanswered(holds'[t]) /\ item.req # holds'[t]
    PROVE  AnswerInv'
<1> DEFINE n == Len(Output)
<1>1. /\ n \in Nat /\ Len(Output)' = n + 1 /\ Output'[n + 1] = item
      /\ \A i \in 1..n : Output'[i] = Output[i]
  BY OutputIs, PushExtends
<1>2. \A i \in 1..(n + 1) : i \in 1..n \/ i = n + 1
  BY <1>1
<1>3. handled \in Nat /\ \A i \in 1..n : Output[i].req \in Nat
  <2>1. handled \in Nat
    BY DEF TypeOK
  <2>2. ASSUME NEW i \in 1..n
        PROVE  Output[i].req \in Nat
    <3>1. Output[i] \in Items
      BY OutputIs, ElementOfSeq
    <3>2. QED
      BY <3>1 DEF Items, Requests, NoRequest
  <2>3. QED
    BY <2>1, <2>2
<1>4. ASSUME NEW i \in 1..(n + 1), NEW j \in 1..(n + 1),
             Output'[i].req = Output'[j].req, Output'[i].req # NoRequest
      PROVE  i = j
  <2>1. CASE i \in 1..n /\ j \in 1..n
    BY <1>1, <1>4, <2>1 DEF AnswerInv
  <2>2. CASE i \in 1..n /\ j = n + 1
    BY <1>1, <1>4, <2>2 DEF Unanswered
  <2>3. CASE i = n + 1 /\ j \in 1..n
    BY <1>1, <1>4, <2>3 DEF Unanswered
  <2>4. QED
    BY <1>2, <1>4, <2>1, <2>2, <2>3
<1>5. ASSUME NEW i \in 1..(n + 1)
      PROVE  Output'[i].req <= handled'
  <2>1. CASE i \in 1..n
    <3>1. Output'[i].req = Output[i].req /\ Output[i].req <= handled /\ Output[i].req \in Nat
      BY <1>1, <1>3, <2>1 DEF AnswerInv
    <3>2. QED
      BY <1>3, <3>1
  <2>2. CASE i = n + 1
    BY <1>1, <2>2
  <2>3. QED
    BY <1>2, <2>1, <2>2
<1>6. ASSUME NEW t \in Threads, holds'[t] # NoRequest, ~responseSent'[holds'[t]], NEW i \in 1..(n + 1)
      PROVE  Output'[i].req # holds'[t]
  BY <1>1, <1>2, <1>6 DEF Unanswered
<1>7. QED
  BY <1>1, <1>4, <1>5, <1>6 DEF AnswerInv, Unanswered

\* The same output, and every thread that works on an unanswered request worked on it before,
\* or the loop does and took it from the parser.
LEMMA SameOutput ==
    ASSUME TypeOK, AnswerInv, Output' = Output, handled' \in Nat, handled <= handled',
           \A t \in Threads : holds'[t] # NoRequest /\ ~responseSent'[holds'[t]] =>
              Unanswered(holds'[t])
    PROVE  AnswerInv'
<1>1. ASSUME NEW i \in 1..Len(Output)
      PROVE  Output[i].req <= handled'
  <2>1. Output[i] \in Items /\ handled \in Nat
    BY OutputIs, ElementOfSeq DEF TypeOK
  <2>2. Output[i].req \in Nat /\ Output[i].req <= handled
    BY <2>1 DEF Items, Requests, NoRequest, AnswerInv
  <2>3. QED
    BY <2>1, <2>2
<1>2. QED
  BY <1>1 DEF AnswerInv, Unanswered

\* An exchange of ResponseSent that finds it unset.
LEMMA SendKeeps ==
    ASSUME TypeOK, HoldInv, AnswerInv, NEW t \in Threads, holds[t] # NoRequest,
           NEW item \in Items, item.req = holds[t], SendOnce(item), wire' = wire,
           handled' = handled, \A u \in Threads : holds'[u] \in {holds[u], NoRequest}
    PROVE  AnswerInv'
<1>1. holds[t] \in Requests /\ holds[t] <= handled /\ handled \in Nat
  BY HeldAreHandled DEF TypeOK
<1>2. /\ ~responseSent[holds[t]] /\ Push(item)
      /\ responseSent' = [responseSent EXCEPT ![holds[t]] = TRUE]
      /\ responseSent \in [Requests -> BOOLEAN]
  BY DEF SendOnce, TypeOK
<1>3. Unanswered(holds[t])
  BY <1>2 DEF AnswerInv
<1>4. ASSUME NEW u \in Threads, holds'[u] # NoRequest, ~responseSent'[holds'[u]]
      PROVE  Unanswered(holds'[u]) /\ item.req # holds'[u]
  <2>1. holds'[u] = holds[u] /\ holds[u] \in Requests
    BY <1>4, HeldAreHandled
  <2>2. holds[u] # holds[t] /\ ~responseSent[holds[u]]
    BY <1>1, <1>2, <1>4, <2>1
  <2>3. QED
    BY <1>4, <2>1, <2>2 DEF AnswerInv
<1>5. handled' \in Nat /\ handled <= handled' /\ item.req <= handled'
  BY <1>1
<1>6. QED
  BY <1>2, <1>3, <1>4, <1>5, OneMoreItem

LEMMA CbAnswersOnce ==
    ASSUME TypeOK, HoldInv, AnswerInv, PeerAsks \/ CbReadsEnd \/ WriteFails
              \/ (\E f \in Frames : PeerSendsFrame(f)) \/ Cb
    PROVE  AnswerInv'
<1> USE ConnectionAssumption
<1>1. Loop \in Threads /\ handled \in Nat /\ holds \in [Threads -> Requests \cup {NoRequest}]
  BY DEF Threads, TypeOK
<1>2. \A r : r > handled /\ r \in Nat => Unanswered(r)
  <2>1. ASSUME NEW r \in Nat, r > handled, NEW i \in 1..Len(Output)
        PROVE  Output[i].req # r
    <3>1. Output[i].req <= handled
      BY DEF AnswerInv
    <3>2. QED
      BY <1>1, <2>1, <3>1
  <2>2. QED
    BY <2>1 DEF Unanswered
<1>3. CASE Write
  <2>1. UNCHANGED <<handled, holds, responseSent>>
    BY <1>3 DEF Write, parsers, requests
  <2>2. handled' \in Nat /\ handled <= handled'
    BY <1>1, <2>1
  <2>3. QED
    BY <1>3, <2>1, <2>2, WriteKeeps, SameOutput DEF AnswerInv
<1>4. CASE HandleRequest
  <2>1. handled' = handled + 1 /\ holds' = [holds EXCEPT ![Loop] = handled + 1]
        /\ responseSent' = responseSent /\ Output' = Output
    BY <1>4 DEF HandleRequest, output, Output
  <2>2. ASSUME NEW t \in Threads, holds'[t] # NoRequest, ~responseSent'[holds'[t]]
        PROVE  Unanswered(holds'[t])
    <3>1. CASE t = Loop
      BY <1>1, <1>2, <2>1, <3>1
    <3>2. CASE t # Loop
      BY <1>1, <2>1, <2>2, <3>2 DEF AnswerInv
    <3>3. QED
      BY <3>1, <3>2
  <2>3. handled' \in Nat /\ handled <= handled'
    BY <1>1, <2>1
  <2>4. QED
    BY <2>1, <2>2, <2>3, SameOutput
<1>5. CASE FactoryThrows
  <2> DEFINE r == handled + 1
             item == Item("error", r, FALSE)
  <2>1. /\ handled' = r /\ holds' = holds /\ responseSent' = responseSent /\ wire' = wire
        /\ Push(item) /\ handled < read
    BY <1>5 DEF FactoryThrows, RespondUnguarded
  <2>2. r \in Requests
    <3>1. read <= asked /\ asked <= MaxRequests /\ asked \in Nat /\ read \in Nat
      BY DEF TypeOK
    <3>2. QED
      BY <1>1, <2>1, <3>1 DEF Requests
  <2>3. item \in Items /\ item.req = r
    BY <2>2, ItemsAre
  <2> HIDE DEF item
  <2>4. Unanswered(r)
    BY <1>1, <1>2
  <2>5. ASSUME NEW t \in Threads, holds'[t] # NoRequest, ~responseSent'[holds'[t]]
        PROVE  Unanswered(holds'[t]) /\ item.req # holds'[t]
    <3>1. holds[t] <= handled /\ holds[t] \in Nat
      BY <2>1, <2>5, HeldAreHandled DEF Requests
    <3>2. r # holds[t]
      BY <1>1, <3>1
    <3>3. QED
      BY <2>1, <2>3, <2>5, <3>2 DEF AnswerInv
  <2>6. handled' \in Nat /\ handled <= handled' /\ item.req <= handled'
    BY <1>1, <2>1, <2>3
  <2>7. QED
    BY <2>1, <2>3, <2>4, <2>5, <2>6, OneMoreItem
<1>6. CASE HandleFrame
  <2>1. UNCHANGED <<handled, holds, responseSent, wire>>
    BY <1>6 DEF HandleFrame, requests
  <2>2. handled' \in Nat /\ handled <= handled'
    BY <1>1, <2>1
  <2>3. CASE Head(wsFrames) = "ping"
    <3> DEFINE item == Item("pong", NoRequest, FALSE)
    <3>1. item \in Items /\ item.req = NoRequest
      BY ItemsAre
    <3>2. NoRequest <= handled'
      BY <2>2 DEF NoRequest
    <3>3. Push(item)
      BY <1>6, <2>3 DEF HandleFrame
    <3> HIDE DEF item
    <3>4. QED
      BY <2>1, <2>2, <3>1, <3>2, <3>3, OneMoreItem DEF AnswerInv
  <2>4. CASE Head(wsFrames) # "ping"
    <3>1. Output' = Output
      BY <1>6, <2>1, <2>4 DEF HandleFrame, Output
    <3>2. QED
      BY <2>1, <2>2, <3>1, SameOutput DEF AnswerInv
  <2>5. QED
    BY <2>3, <2>4
<1>7. CASE UNCHANGED <<handled, holds, responseSent, wire, writeQueue>>
  <2>1. Output' = Output /\ handled' \in Nat /\ handled <= handled'
    BY <1>1, <1>7 DEF Output
  <2>2. QED
    BY <1>7, <2>1, SameOutput DEF AnswerInv
<1>8. QED
  <2>1. \/ Write \/ HandleRequest \/ FactoryThrows \/ HandleFrame
        \/ UNCHANGED <<handled, holds, responseSent, wire, writeQueue>>
    BY DEF Cb, PeerAsks, PeerSendsFrame, CbReads, CbReadsEnd, CbOnlyWrites, WriteFails, CbWritten,
           RequestsDone, FramesDone, parsers, requests, output
  <2>2. QED
    BY <1>3, <1>4, <1>5, <1>6, <1>7, <2>1

\* On the loop thread, handlers neither throw nor answer, which may throw, once they have
\* answered their request or handed it on.
NoLateThrow == LateThrows = FALSE

LEMMA HandlersAnswerOnce ==
    ASSUME NoLateThrow, TypeOK, HoldInv, AnswerInv,
           LoopHandler \/ (\E w \in Workers : Worker(w))
    PROVE  AnswerInv'
<1> USE ConnectionAssumption
<1>1. Loop \in Threads /\ handled \in Nat /\ holds \in [Threads -> Requests \cup {NoRequest}]
  BY DEF Threads, TypeOK
<1>2. ASSUME NEW t \in Threads, NEW close \in BOOLEAN, Answer(t, close) \/ SendWebSocketAccept(t, close)
      PROVE  AnswerInv'
  <2>1. PICK item \in {Item("response", holds[t], close), Item("accept", holds[t], close)} : SendOnce(item)
    BY <1>2 DEF Answer, SendWebSocketAccept
  <2>2. holds[t] # NoRequest /\ holds[t] \in Requests \cup {NoRequest}
    BY <1>1, <1>2 DEF Answer, SendWebSocketAccept, Busy
  <2>3. item \in Items /\ item.req = holds[t]
    BY <2>1, <2>2, ItemsAre
  <2>4. wire' = wire /\ handled' = handled /\ holds' = holds
    BY <1>2 DEF Answer, SendWebSocketAccept, parsers, requests
  <2>5. QED
    BY <2>1, <2>2, <2>3, <2>4, SendKeeps
<1>3. ASSUME NEW w \in Workers, Keep(w)
      PROVE  AnswerInv'
  <2>1. /\ handled' = handled /\ responseSent' = responseSent /\ Output' = Output
        /\ holds' = [holds EXCEPT ![w] = holds[Loop]]
    BY <1>3 DEF Keep, parsers, requests, output, Output
  <2>2. ASSUME NEW t \in Threads, holds'[t] # NoRequest, ~responseSent'[holds'[t]]
        PROVE  Unanswered(holds'[t])
    <3>1. holds'[t] = holds[t] \/ holds'[t] = holds[Loop]
      BY <1>1, <2>1
    <3>2. QED
      BY <1>1, <2>1, <2>2, <3>1 DEF AnswerInv
  <2>3. handled' \in Nat /\ handled <= handled'
    BY <1>1, <2>1
  <2>4. QED
    BY <2>1, <2>2, <2>3, SameOutput
<1>4. CASE HandlerThrows \/ HandlerThrowsOther
  <2>1. /\ at = "handler" /\ holds[Loop] # NoRequest
        /\ ~responseSent[holds[Loop]] /\ holds[Loop] \notin kept
    BY <1>4 DEF HandlerThrows, HandlerThrowsOther, MayThrow, GoesOn, Busy, NoLateThrow
  <2>2. holds[Loop] \in Requests /\ holds[Loop] <= handled
    BY <1>1, <2>1, HeldAreHandled
  <2>3. /\ wire' = wire /\ handled' = handled
        /\ holds'[Loop] = NoRequest /\ \A w \in Threads : w # Loop => holds'[w] = holds[w]
    BY <1>1, <1>4 DEF HandlerThrows, HandlerThrowsOther, parsers, requests
  <2>4. CASE HandlerThrows
    <3> DEFINE item == Item("error", holds[Loop], TRUE)
    <3>1. SendOnce(item)
      BY <2>1, <2>4 DEF HandlerThrows, HandleException
    <3>2. item \in Items /\ item.req = holds[Loop]
      BY <2>2, ItemsAre
    <3>3. \A u \in Threads : holds'[u] \in {holds[u], NoRequest}
      BY <2>3
    <3> HIDE DEF item
    <3>4. QED
      BY <1>1, <2>1, <2>3, <3>1, <3>2, <3>3, SendKeeps
  <2>5. CASE HandlerThrowsOther
    <3> DEFINE item == Item("error", holds[Loop], FALSE)
    <3>1. Push(item) /\ responseSent' = responseSent
      BY <2>5 DEF HandlerThrowsOther, RespondUnguarded
    <3>2. item \in Items /\ item.req = holds[Loop]
      BY <2>2, ItemsAre
    <3> HIDE DEF item
    <3>3. Unanswered(holds[Loop])
      BY <1>1, <2>1 DEF AnswerInv
    <3>4. ASSUME NEW t \in Threads, holds'[t] # NoRequest, ~responseSent'[holds'[t]]
          PROVE  Unanswered(holds'[t]) /\ item.req # holds'[t]
      <4>1. t # Loop /\ holds'[t] = holds[t]
        BY <2>3, <3>4
      <4>2. t \in Workers
        BY <4>1 DEF Threads
      <4>3. holds[t] \in kept
        BY <3>4, <4>1, <4>2 DEF HoldInv
      <4>4. QED
        BY <2>1, <3>1, <3>2, <3>4, <4>1, <4>3 DEF AnswerInv
    <3>5. handled' \in Nat /\ handled <= handled' /\ item.req <= handled'
      BY <1>1, <2>2, <2>3, <3>2
    <3>6. QED
      BY <2>3, <3>1, <3>2, <3>3, <3>4, <3>5, OneMoreItem
  <2>6. QED
    BY <1>4, <2>4, <2>5
<1>5. ASSUME NEW t \in Threads,
             OnWebSocketStart(t) \/ (t = Loop /\ HandlerReturns) \/ (t \in Workers /\ WorkerDone(t))
      PROVE  AnswerInv'
  <2>1. /\ handled' = handled /\ responseSent' = responseSent /\ Output' = Output
        /\ \A u \in Threads : holds'[u] \in {holds[u], NoRequest}
    BY <1>1, <1>5 DEF OnWebSocketStart, HandlerReturns, WorkerDone, parsers, requests, output, Output
  <2>2. ASSUME NEW u \in Threads, holds'[u] # NoRequest, ~responseSent'[holds'[u]]
        PROVE  Unanswered(holds'[u])
    BY <2>1, <2>2 DEF AnswerInv
  <2>3. handled' \in Nat /\ handled <= handled'
    BY <1>1, <2>1
  <2>4. QED
    BY <2>1, <2>2, <2>3, SameOutput
<1>6. QED
  <2>1. \A w \in Workers : w \in Threads
    BY DEF Threads
  <2>2. QED
    BY <1>1, <1>2, <1>3, <1>4, <1>5, <2>1 DEF LoopHandler, Handler, Worker

-----------------------------------------------------------------------------
(* The upgrade.                                                             *)

\* Only SendWebSocketAccept queues an accept.
LEMMA NoNewAccept ==
    ASSUME TypeOK,
           \/ PeerAsks \/ CbOnlyWrites \/ CbWritten \/ WriteFails \/ HandleRequest \/ FactoryThrows
           \/ RequestsDone \/ HandleFrame \/ FramesDone \/ (\E w \in Workers : Keep(w) \/ WorkerDone(w))
           \/ (\E t \in Threads, close \in BOOLEAN : Answer(t, close)) \/ UNCHANGED vars
           \/ HandlerReturns \/ HandlerThrows \/ HandlerThrowsOther
    PROVE  AcceptSent' => AcceptSent
<1> DEFINE Pushed(item) == item \in Items /\ item.kind # "accept" /\ Push(item) /\ wire' = wire
<1>1. ASSUME NEW item, Pushed(item)
      PROVE  AcceptSent' => AcceptSent
  <2>1. /\ Len(Output) \in Nat /\ Len(Output)' = Len(Output) + 1
        /\ \A i \in 1..Len(Output) : Output'[i] = Output[i]
        /\ Output'[Len(Output) + 1] = item
    BY <1>1, OutputIs, PushExtends
  <2>2. \A i \in 1..(Len(Output) + 1) : i \in 1..Len(Output) \/ i = Len(Output) + 1
    BY <2>1
  <2>3. QED
    BY <1>1, <2>1, <2>2 DEF AcceptSent
<1>2. CASE UNCHANGED <<wire, writeQueue>>
  BY <1>2 DEF AcceptSent, Output
<1>3. \A k \in {"response", "error", "pong"}, r \in Requests \cup {NoRequest}, b \in BOOLEAN :
         Item(k, r, b) \in Items /\ Item(k, r, b).kind # "accept"
  BY DEF Item, Items
<1>4. CASE FactoryThrows
  <2>1. handled' \in Requests
    <3>1. handled \in Nat /\ read \in Nat /\ asked \in Nat /\ read <= asked /\ asked <= MaxRequests
      BY ConnectionAssumption DEF TypeOK
    <3>2. QED
      BY <1>4, <3>1, ConnectionAssumption DEF FactoryThrows, Requests
  <2>2. Pushed(Item("error", handled', FALSE))
    BY <1>3, <1>4, <2>1 DEF FactoryThrows, RespondUnguarded
  <2>3. QED
    BY <1>1, <2>2
<1>5. CASE HandleFrame
  <2>1. CASE Head(wsFrames) = "ping"
    <3>1. Pushed(Item("pong", NoRequest, FALSE))
      BY <1>3, <1>5, <2>1 DEF HandleFrame
    <3>2. QED
      BY <1>1, <3>1
  <2>2. CASE Head(wsFrames) # "ping"
    BY <1>2, <1>5, <2>2 DEF HandleFrame
  <2>3. QED
    BY <2>1, <2>2
<1>6. CASE \E t \in Threads, close \in BOOLEAN : Answer(t, close)
  <2>1. PICK t \in Threads, close \in BOOLEAN : Answer(t, close)
    BY <1>6
  <2>2. holds[t] \in Requests
    BY <2>1 DEF Answer, Busy, TypeOK
  <2>3. Pushed(Item("response", holds[t], close))
    BY <1>3, <2>1, <2>2 DEF Answer, SendOnce
  <2>4. QED
    BY <1>1, <2>3
<1>7. CASE HandlerThrows \/ HandlerThrowsOther
  <2>1. holds[Loop] \in Requests
    BY <1>7 DEF HandlerThrows, HandlerThrowsOther, MayThrow, Busy, TypeOK, Threads
  <2>2. \E b \in BOOLEAN : Pushed(Item("error", holds[Loop], b))
    BY <1>3, <1>7, <2>1
    DEF HandlerThrows, HandlerThrowsOther, HandleException, SendOnce, RespondUnguarded
  <2>3. QED
    BY <1>1, <2>2
<1>8. QED
  <2>1. \/ UNCHANGED <<wire, writeQueue>> \/ FactoryThrows \/ HandleFrame
        \/ (\E t \in Threads, close \in BOOLEAN : Answer(t, close))
        \/ HandlerThrows \/ HandlerThrowsOther
    BY DEF PeerAsks, CbOnlyWrites, CbWritten, WriteFails, HandleRequest, RequestsDone, FramesDone,
           Keep, WorkerDone, HandlerReturns, vars, output
  <2>2. QED
    BY <1>2, <1>4, <1>5, <1>6, <1>7, <2>1

\* The accept is written by the loop thread, which is past the handler that sent it.
LEMMA WrittenAccept ==
    ASSUME TypeOK, AcceptInv, Write
    PROVE  AcceptInv'
<1>1. Output' = Output
  BY WriteKeeps
<1>2. /\ UNCHANGED <<framed, early, socket, missed, wsParser, starting, at>> /\ at = "write"
  BY DEF Write, peer, input, parsers
<1>3. AcceptSent' = AcceptSent
  BY <1>1 DEF AcceptSent
<1>4. Accepted' => AcceptSent'
  <2>1. wire' \in Seq(Items) /\ writeQueue' \in Seq(Items)
    BY TypeKept DEF Next, Cb, TypeOK
  <2>2. /\ Len(Output') = Len(wire') + Len(writeQueue') /\ DOMAIN wire' = 1..Len(wire')
        /\ Len(wire') \in Nat /\ Len(writeQueue') \in Nat
        /\ \A i \in 1..Len(wire') : Output'[i] = wire'[i]
    BY <2>1, ConcatProperties, LenProperties DEF Output
  <2>3. \A i \in DOMAIN wire' : i \in 1..Len(Output')
    BY <2>2
  <2>4. QED
    BY <2>2, <2>3 DEF Accepted, AcceptSent
<1>5. Loop \notin starting
  BY <1>2 DEF AcceptInv
<1>6. QED
  BY <1>2, <1>3, <1>4, <1>5 DEF AcceptInv

LEMMA FramesRead ==
    ASSUME TypeOK, AcceptInv, CbReads \/ CbReadsEnd
    PROVE  AcceptInv'
<1>1. /\ UNCHANGED <<framed, early, wsParser, starting, wire, writeQueue>> /\ at = "poll"
      /\ \/ socket' = <<>> /\ missed' = IF wsParser THEN missed ELSE missed + Len(socket)
         \/ UNCHANGED <<socket, missed>>
  <2>1. CASE CbReads
    BY <2>1 DEF CbReads, ReadSocket, peer, output
  <2>2. CASE CbReadsEnd
    BY <2>2 DEF CbReadsEnd, ReadSocket, peer, input
  <2>3. QED
    BY <2>1, <2>2
<1>2. AcceptSent' = AcceptSent /\ Accepted' = Accepted
  BY <1>1 DEF AcceptSent, Accepted, Output
<1>3. Loop \notin starting /\ starting \subseteq {Loop}
  BY <1>1 DEF AcceptInv
<1>4. missed \in Nat /\ Len(socket) \in Nat /\ Len(<<>>) = 0
  BY LenProperties DEF TypeOK
<1>5. QED
  BY <1>1, <1>2, <1>3, <1>4 DEF AcceptInv

-----------------------------------------------------------------------------
(* The theorems.                                                            *)

\* Types hold, and threads work on requests the loop has handled.
THEOREM Invariance == Spec => [](TypeOK /\ HoldInv)
<1>1. ASSUME Init
      PROVE  TypeOK /\ HoldInv
  <2>1. TypeOK
    <3>1. 0 \in 0..MaxRequests /\ 0 \in 0..0 /\ 0 <= MaxFrames
      BY ConnectionAssumption
    <3>2. asked \in 0..MaxRequests /\ read \in 0..asked /\ handled \in 0..read
      BY <1>1, <3>1 DEF Init
    <3>3. /\ framed \in Seq(Frames) /\ Len(framed) = 0
          /\ wsFrames \in Seq(Frames) /\ socket \in Seq(Frames)
          /\ writeQueue \in Seq(Items) /\ wire \in Seq(Items)
      BY <1>1, EmptySeq DEF Init
    <3>4. Len(framed) <= MaxFrames
      BY <3>1, <3>3
    <3>5. /\ holds \in [Threads -> Requests \cup {NoRequest}] /\ at = "poll"
          /\ (at = "handler") <=> (holds[Loop] # NoRequest)
      BY <1>1 DEF Init, Threads
    <3>6. QED
      BY <1>1, <3>2, <3>3, <3>4, <3>5 DEF Init, TypeOK
  <2>2. HoldInv
    BY <1>1, ConnectionAssumption DEF Init, HoldInv, Threads
  <2>3. QED
    BY <2>1, <2>2
<1>2. (TypeOK /\ HoldInv) /\ [Next]_vars => (TypeOK /\ HoldInv)'
  BY TypeKept, HoldKept
<1>3. QED
  BY <1>1, <1>2, PTL DEF Spec

\* Every variable has its type.
THEOREM TypeCorrect == Spec => []TypeOK
BY Invariance, PTL

\* However the workers that were handed a request race, at most one response to it is queued or
\* written, provided that a handler is done with a request it has answered or handed on: it does
\* not throw then, and calls no Send that may lose to a worker and throw.  The two paths that
\* answer past ResponseSent then run only for a request nobody else can answer.
THEOREM RequestsAnsweredOnce ==
    ASSUME NoLateThrow
    PROVE  Spec => []AnsweredOnce
<1>1. ASSUME Init
      PROVE  AnswerInv
  <2>1. Output = <<>>
    <3>1. wire = <<>> /\ writeQueue = <<>>
      BY <1>1 DEF Init
    <3>2. QED
      BY <3>1 DEF Output
  <2>2. Len(Output) = 0
    BY <2>1
  <2>3. \A t \in Threads : holds[t] = NoRequest
    BY <1>1 DEF Init
  <2>4. QED
    BY <2>2, <2>3 DEF AnswerInv
<1>2. ASSUME TypeOK, HoldInv, AnswerInv, [Next]_vars
      PROVE  AnswerInv'
  <2>1. CASE UNCHANGED vars
    <3>1. /\ Output' = Output /\ handled' = handled /\ handled \in Nat /\ handled <= handled'
          /\ holds' = holds /\ responseSent' = responseSent
      BY <1>2, <2>1 DEF vars, output, Output, parsers, requests, TypeOK
    <3>2. QED
      BY <1>2, <3>1, SameOutput DEF AnswerInv
  <2>2. CASE Next
    BY <1>2, <2>2, CbAnswersOnce, HandlersAnswerOnce DEF Next
  <2>3. QED
    BY <1>2, <2>1, <2>2
<1>3. ASSUME TypeOK, AnswerInv
      PROVE  AnsweredOnce
  <2>1. ASSUME NEW r \in Requests
        PROVE  Cardinality(ResponsesTo(r)) <= 1
    <3>1. r # NoRequest
      BY DEF Requests, NoRequest
    <3>2. \A i, j \in ResponsesTo(r) : i = j
      BY <1>3, <3>1 DEF ResponsesTo, AnswerInv, Output
    <3>3. CASE ResponsesTo(r) = {}
      <4>1. Cardinality(ResponsesTo(r)) = 0
        BY <3>3, FS_EmptySet
      <4>2. QED
        BY <4>1
    <3>4. CASE ResponsesTo(r) # {}
      <4>1. PICK i : ResponsesTo(r) = {i}
        BY <3>2, <3>4
      <4>2. Cardinality(ResponsesTo(r)) = 1
        BY <4>1, FS_Singleton
      <4>3. QED
        BY <4>2
    <3>5. QED
      BY <3>3, <3>4
  <2>2. QED
    BY <2>1 DEF AnsweredOnce
<1>4. QED
  BY <1>1, <1>2, <1>3, Invariance, PTL DEF Spec

\* If handlers upgrade on the loop thread, a frame that the peer sends after the accept was
\* written is read into the WebSocket parser, whatever requests were pipelined before, and
\* whatever workers answer meanwhile.
THEOREM FramesFollowAccept ==
    ASSUME Upgraders \subseteq {Loop}
    PROVE  Spec => []AcceptedFramesAreRead
<1> USE ConnectionAssumption
<1>1. ASSUME Init
      PROVE  AcceptInv
  <2>1. wire = <<>> /\ writeQueue = <<>>
    BY <1>1 DEF Init
  <2>2. Output = <<>> /\ DOMAIN wire = {}
    BY <2>1 DEF Output
  <2>3. Len(Output) = 0 /\ Len(framed) = 0 /\ Len(socket) = 0
    BY <1>1, <2>2 DEF Init
  <2>4. ~AcceptSent /\ ~Accepted
    BY <2>2, <2>3 DEF AcceptSent, Accepted
  <2>5. QED
    BY <1>1, <2>3, <2>4 DEF Init, AcceptInv
<1>2. ASSUME TypeOK, AcceptInv, [Next]_vars
      PROVE  AcceptInv'
  <2>1. /\ early \in Nat /\ missed \in Nat /\ Len(framed) \in Nat /\ Len(socket) \in Nat
        /\ (holds[Loop] # NoRequest) => at = "handler"
    BY <1>2, LenProperties DEF TypeOK
  <2>2. CASE CbReads \/ CbReadsEnd
    BY <1>2, <2>2, FramesRead
  <2>3. CASE Write
    BY <1>2, <2>3, WrittenAccept
  <2>4. ASSUME NEW f \in Frames, PeerSendsFrame(f)
        PROVE  AcceptInv'
    <3>1. /\ Len(framed') = Len(framed) + 1 /\ Len(socket') = Len(socket) + 1
          /\ UNCHANGED <<missed, wsParser, starting, at, wire, writeQueue>>
      BY <1>2, <2>4, AppendProperties DEF PeerSendsFrame, TypeOK, parsers, output
    <3>2. AcceptSent' = AcceptSent /\ Accepted' = Accepted
      BY <3>1 DEF AcceptSent, Accepted, Output
    <3>3. early' = IF Accepted THEN early ELSE early + 1
      BY <2>4 DEF PeerSendsFrame
    <3>4. QED
      BY <1>2, <2>1, <3>1, <3>2, <3>3 DEF AcceptInv
  <2>5. ASSUME NEW t \in Threads, NEW close \in BOOLEAN, SendWebSocketAccept(t, close)
        PROVE  AcceptInv'
    <3>1. t = Loop /\ at = "handler" /\ starting' = starting \cup {Loop}
      BY <2>1, <2>5 DEF SendWebSocketAccept, Busy
    <3>2. UNCHANGED <<framed, early, socket, missed, wsParser, at, wire>>
      BY <2>5 DEF SendWebSocketAccept, peer, input, parsers
    <3>3. QED
      BY <1>2, <3>1, <3>2 DEF AcceptInv, Accepted
  <2>6. ASSUME NEW t \in Threads, OnWebSocketStart(t)
        PROVE  AcceptInv'
    <3>1. wsParser' = TRUE /\ starting' = starting \ {t}
          /\ UNCHANGED <<framed, early, socket, missed, at, wire>>
      BY <2>6 DEF OnWebSocketStart, peer, input, output
    <3>2. missed <= early
      BY <1>2, <2>1 DEF AcceptInv
    <3>3. QED
      BY <1>2, <3>1, <3>2 DEF AcceptInv, Accepted
  <2>7. CASE HandlerReturns \/ HandlerThrows \/ HandlerThrowsOther
    <3>1. Loop \notin starting
      BY <2>7 DEF HandlerReturns, HandlerThrows, HandlerThrowsOther, MayThrow, Busy
    <3>2. UNCHANGED <<framed, early, socket, missed, wsParser, starting, wire>>
      BY <2>7 DEF HandlerReturns, HandlerThrows, HandlerThrowsOther, peer, input, parsers, output
    <3>3. AcceptSent' => AcceptSent
      BY <1>2, <2>7, NoNewAccept
    <3>4. QED
      BY <1>2, <3>1, <3>2, <3>3 DEF AcceptInv, Accepted
  <2>8. CASE \/ PeerAsks \/ CbOnlyWrites \/ CbWritten \/ WriteFails \/ HandleRequest \/ FactoryThrows
             \/ RequestsDone \/ HandleFrame \/ FramesDone \/ (\E w \in Workers : Keep(w) \/ WorkerDone(w))
             \/ (\E t \in Threads, close \in BOOLEAN : Answer(t, close)) \/ UNCHANGED vars
    <3>1. /\ UNCHANGED <<framed, early, socket, missed, wsParser, starting, wire>>
          /\ at = "handler" => at' = "handler"
      BY <2>8
      DEF PeerAsks, CbOnlyWrites, CbWritten, WriteFails, HandleRequest, FactoryThrows, RequestsDone,
          HandleFrame, FramesDone, Keep, WorkerDone, Answer, vars, peer, input, parsers, output
    <3>2. AcceptSent' => AcceptSent
      BY <1>2, <2>8, NoNewAccept
    <3>3. QED
      BY <1>2, <3>1, <3>2 DEF AcceptInv, Accepted
  <2>9. QED
    <3>1. Loop \in Threads /\ \A w \in Workers : w \in Threads
      BY DEF Threads
    <3>2. QED
      BY <1>2, <2>2, <2>3, <2>4, <2>5, <2>6, <2>7, <2>8, <3>1
      DEF Next, Cb, Handler, LoopHandler, Worker
<1>3. TypeOK /\ AcceptInv => AcceptedFramesAreRead
  BY DEF TypeOK, AcceptInv, AcceptedFramesAreRead
<1>4. QED
  BY <1>1, <1>2, <1>3, TypeCorrect, PTL DEF Spec

(***************************************************************************)
(* AwaitHTTP: the inductive invariant.                                     *)
(***************************************************************************)

\* The open descriptors are the owners' and the one of the connect in progress, all different.
FdInv ==
    /\ fds = {fd[c] : c \in Owners} \cup ({call.fh} \ {NoFd})
    /\ \A c \in Owners : fd[c] # NoFd /\ fd[c] # call.fh
    /\ \A c, d \in Owners : fd[c] = fd[d] => c = d

\* The client of a handler may have been dropped, but not swept.
HandledInv ==
    /\ loop.client \in active /\ {loop.client, Request(loop.client)} \subseteq objects
    /\ state[loop.client] \in {"alive", "destroyed"}

\* Live clients are in ActiveClients; what a strong pointer leads to is allocated.
ObjInv ==
    /\ \A c \in Clients : Alive(c) => c \in active /\ c \in objects
    /\ loop.at = "handler" => HandledInv
    /\ \A u \in Upstreams : InCallbacks(u) => u \in active /\ u \in objects
    /\ worker.at = "locked" => worker.origin \in objects
    /\ \A h \in objects : Refs(h) \subseteq objects
    /\ \A o \in wsOrigin : state[o] \in {"alive", "destroyed"}

-----------------------------------------------------------------------------
(* Types.                                                                   *)

LEMMA LessIsWellFounded ==
    \E R : IsWellFoundedOn(R, Nat) /\ \A x, y \in Nat : x < y => <<x, y>> \in R
<1> DEFINE R == OpToRel(<, Nat)
<1>1. IsWellFoundedOn(R, Nat)
  BY NatLessThanWellFounded
<1>2. \A x, y \in Nat : x < y => <<x, y>> \in R
  BY DEF OpToRel
<1> HIDE DEF R
<1>3. QED
  BY <1>1, <1>2

LEMMA LeastNatural ==
    ASSUME NEW S, S \subseteq Nat, S # {}
    PROVE  \E m \in S : \A x \in S : m <= x
<1>1. PICK R : IsWellFoundedOn(R, Nat) /\ \A x, y \in Nat : x < y => <<x, y>> \in R
  BY LessIsWellFounded
<1>2. PICK m \in S : \A y \in S : ~ (<<y, m>> \in R)
  <2>1. IsWellFoundedOn(R, Nat)
    BY <1>1
  <2>2. \E x \in S : \A y \in S : ~ (<<y, x>> \in R)
    BY <2>1, WFMin
  <2>3. QED
    BY <2>2
<1>3. \A x \in S : ~ (x < m)
  BY <1>1, <1>2
<1>4. QED
  BY <1>3

LEMMA FreeFdIsFree ==
    ASSUME Fds \ fds # {}
    PROVE  FreeFd \in Fds /\ FreeFd \notin fds /\ FreeFd # NoFd
<1> DEFINE S == Fds \ fds
<1>1. S \subseteq Nat /\ S # {}
  BY DEF Fds
<1> HIDE DEF S
<1>2. \E m \in S : \A x \in S : m <= x
  BY <1>1, LeastNatural
<1>3. Min(S) \in S
  BY <1>2 DEF Min
<1>4. FreeFd \in Fds \ fds
  BY <1>3 DEF FreeFd, S
<1>5. QED
  BY <1>4 DEF Fds, NoFd

-----------------------------------------------------------------------------
(* Descriptors.                                                             *)

\* There are as many open descriptors as owners of one.
LEMMA OneEach ==
    ASSUME AwaitTypeOK, FdInv
    PROVE  /\ IsFiniteSet(Owners) /\ IsFiniteSet(fds)
           /\ Cardinality(fds) = Cardinality(Owners) + (IF Opened THEN 1 ELSE 0)
<1> DEFINE Held == {fd[c] : c \in Owners}
           f == [c \in Owners |-> fd[c]]
<1>1. IsFiniteSet(Owners)
  BY AwaitAssumption, FS_Subset DEF Owners
<1>2. f \in Bijection(Owners, Held)
  <2>1. f \in [Owners -> Held]
    OBVIOUS
  <2>2. \A c, d \in Owners : f[c] = f[d] => c = d
    BY DEF FdInv
  <2>3. \A x \in Held : \E c \in Owners : f[c] = x
    OBVIOUS
  <2> HIDE DEF f, Held
  <2>4. QED
    BY <2>1, <2>2, <2>3 DEF Bijection, Injection, Surjection, IsInjective
<1>3. ExistsBijection(Owners, Held)
  BY <1>2 DEF ExistsBijection
<1>4. IsFiniteSet(Held) /\ Cardinality(Held) = Cardinality(Owners)
  BY <1>1, <1>3, FS_Bijection
<1>5. CASE Opened
  <2>1. fds = Held \cup {call.fh} /\ call.fh \notin Held
    BY <1>5 DEF FdInv, Opened
  <2>2. /\ IsFiniteSet(Held \cup {call.fh})
        /\ Cardinality(Held \cup {call.fh}) = Cardinality(Held) + 1
    <3> HIDE DEF Held
    <3>1. QED
      BY <1>4, <2>1, FS_AddElement
  <2>3. QED
    BY <1>1, <1>4, <1>5, <2>1, <2>2
<1>6. CASE ~Opened
  <2>1. fds = Held
    BY <1>6 DEF FdInv, Opened
  <2>2. Cardinality(fds) = Cardinality(Owners) /\ IsFiniteSet(fds)
    BY <1>4, <2>1
  <2>3. Cardinality(Owners) + 0 = Cardinality(Owners)
    BY <1>1, FS_CardinalityType
  <2>4. QED
    BY <1>1, <1>6, <2>2, <2>3
<1>7. QED
  BY <1>5, <1>6

\* The process has a descriptor left for every connection and for the connect in progress.
LEMMA DescriptorsSuffice ==
    ASSUME AwaitTypeOK, FdInv, ~Opened \/ Owners # Clients
    PROVE  FreeFd \in Fds /\ FreeFd \notin fds /\ FreeFd # NoFd
<1> DEFINE n == Cardinality(Clients)
<1>1. IsFiniteSet(Clients) /\ n \in Nat
  BY AwaitAssumption, FS_CardinalityType
<1>2. Owners \subseteq Clients
  BY DEF Owners
<1>3. Cardinality(Fds) = n + 1
  <2>1. 1 \in Int /\ n + 1 \in Int /\ 1 <= n + 1
    BY <1>1
  <2>2. Cardinality(1..(n + 1)) = IF 1 > n + 1 THEN 0 ELSE (n + 1) - 1 + 1
    BY <2>1, FS_Interval
  <2>3. QED
    BY <1>1, <2>2 DEF Fds
<1>4. Cardinality(fds) <= n
  <2>1. /\ Cardinality(fds) = Cardinality(Owners) + (IF Opened THEN 1 ELSE 0)
        /\ Cardinality(Owners) \in Nat
    BY OneEach, FS_CardinalityType
  <2>2. CASE ~Opened
    <3>1. Cardinality(Owners) <= n
      BY <1>1, <1>2, FS_Subset
    <3>2. QED
      BY <1>1, <2>1, <2>2, <3>1
  <2>3. CASE Owners # Clients
    <3>1. Cardinality(Owners) < n
      <4>1. Cardinality(Owners) <= n /\ (Cardinality(Owners) = n => Owners = Clients)
        BY <1>1, <1>2, FS_Subset
      <4>2. QED
        BY <1>1, <2>1, <2>3, <4>1
    <3>2. QED
      BY <1>1, <2>1, <3>1
  <2>4. QED
    BY <2>2, <2>3
<1>5. Fds \ fds # {}
  <2>1. fds = Fds => FALSE
    BY <1>1, <1>3, <1>4
  <2>2. QED
    BY <2>1 DEF AwaitTypeOK
<1>6. QED
  BY <1>5, FreeFdIsFree

-----------------------------------------------------------------------------
(* The event loop keeps the types.                                          *)

LEMMA DestroyKeepsTypes ==
    ASSUME AwaitTypeOK, NEW c \in Clients, Destroy(c) \/ UNCHANGED <<fds, state, woken>>
    PROVE  /\ fds' \subseteq Fds
           /\ state' \in [Clients -> {"none", "accepted", "alive", "destroyed"}]
           /\ \A d \in Clients : d # c => state'[d] = state[d]
BY DEF Destroy, Alive, AwaitTypeOK

LEMMA AddKeepsTypes ==
    ASSUME AwaitTypeOK, NEW c \in Clients, AddClient(c)
    PROVE  /\ state' \in [Clients -> {"none", "accepted", "alive", "destroyed"}]
           /\ state'[c] = "alive" /\ \A d \in Clients : d # c => state'[d] = state[d]
           /\ active' \subseteq Clients /\ objects' \subseteq Clients \cup {Request(o) : o \in Origins}
BY DEF AddClient, AwaitTypeOK

LEMMA ReleaseOnlyFrees ==
    ASSUME NEW keeps, NEW l, NEW w, Release(keeps, l, w)
    PROVE  objects' \subseteq objects
BY DEF Release, Survivors

LEMMA LoopTypes ==
    ASSUME AwaitTypeOK, FdInv,
           \/ WaitReturns \/ Sweep
           \/ \E c \in Origins \cup Others : AcceptorAccepts(c)
           \/ \E o \in Origins : Accept(o) \/ HangUp(o) \/ HandleOrigin(o) \/ Writes(o)
           \/ \E u \in Upstreams : \/ \E m \in {"reply", "eof"} : UpstreamSends(u, m)
                                   \/ Reads(u) \/ CallbackStep(u)
    PROVE  AwaitTypeOK'
<1>1. Origins \subseteq Clients /\ Upstreams \subseteq Clients /\ Others \subseteq Clients
  BY DEF Clients
<1>2. CASE WaitReturns
  <2>1. /\ loop.at = "wait" /\ loop'.at = "sweep"
        /\ loop' \in [at : {"sweep", "wait", "handler", "callbacks"}, client : Clients \cup {None}]
    BY <1>2 DEF WaitReturns, AwaitTypeOK
  <2>2. UNCHANGED <<fds, fd, state, active, objects, origClient, wsOrigin, call, worker>>
    BY <1>2 DEF WaitReturns, sockets, answers
  <2>3. QED
    BY <2>1, <2>2 DEF AwaitTypeOK, Alive
<1>3. CASE Sweep
  <2>1. active' \subseteq Clients /\ objects' \subseteq objects
    BY <1>3, ReleaseOnlyFrees DEF Sweep, AwaitTypeOK
  <2>2. /\ loop' \in [at : {"sweep", "wait", "handler", "callbacks"}, client : Clients \cup {None}]
        /\ loop'.at = "wait" /\ loop.at = "sweep"
    BY <1>3 DEF Sweep, AwaitTypeOK
  <2>3. UNCHANGED <<fds, fd, state, origClient, wsOrigin, call, worker>>
    BY <1>3 DEF Sweep, sockets, answers
  <2>4. QED
    BY <2>1, <2>2, <2>3 DEF AwaitTypeOK
<1>4. ASSUME NEW c \in Origins \cup Others, AcceptorAccepts(c)
      PROVE  AwaitTypeOK'
  <2>1. c \in Clients /\ c \notin Owners
    BY <1>1, <1>4 DEF AcceptorAccepts, Owners
  <2>2. FreeFd \in Fds
    BY <2>1, DescriptorsSuffice
  <2>3. /\ fds' \subseteq Fds /\ fd' \in [Clients -> Fds \cup {NoFd}]
        /\ state' \in [Clients -> {"none", "accepted", "alive", "destroyed"}]
        /\ \A d \in Clients : Alive(d) => state'[d] = "alive"
    BY <1>4, <2>1, <2>2 DEF AcceptorAccepts, Alive, AwaitTypeOK
  <2>4. QED
    BY <1>1, <1>4, <2>3 DEF AcceptorAccepts, AwaitTypeOK, Alive, answers
<1>5. ASSUME NEW o \in Origins, Accept(o)
      PROVE  AwaitTypeOK'
  <2>1. loop.at = "wait" /\ AddClient(o) /\ o \in Clients
    BY <1>1, <1>5 DEF Accept
  <2>2. QED
    BY <1>5, <2>1, AddKeepsTypes DEF Accept, AwaitTypeOK, answers
<1>6. ASSUME NEW o \in Origins, HangUp(o) \/ Writes(o)
      PROVE  AwaitTypeOK'
  <2>1. /\ loop.at = "wait"
        /\ o \in Clients
        /\ Destroy(o) \/ UNCHANGED <<fds, state, woken>>
    BY <1>1, <1>6 DEF HangUp, Writes
  <2>2. UNCHANGED <<fd, active, objects, origClient, wsOrigin, call, loop, worker>>
    BY <1>6 DEF HangUp, Writes, answers
  <2>3. QED
    BY <2>1, <2>2, DestroyKeepsTypes DEF AwaitTypeOK
<1>7. ASSUME NEW o \in Origins, HandleOrigin(o)
      PROVE  AwaitTypeOK'
  <2>1. /\ loop' = [at |-> "handler", client |-> o] /\ o \in Clients
        /\ Destroy(o) \/ UNCHANGED <<fds, state, woken>>
    BY <1>1, <1>7 DEF HandleOrigin
  <2>2. UNCHANGED <<fd, active, origClient, wsOrigin, call, worker>> /\ objects' = objects \cup {Request(o)}
    BY <1>7 DEF HandleOrigin
  <2>3. /\ loop'.at = "handler" /\ loop'.client \in Origins
        /\ loop' \in [at : {"sweep", "wait", "handler", "callbacks"}, client : Clients \cup {None}]
    BY <2>1
  <2>4. objects' \subseteq Clients \cup {Request(x) : x \in Origins}
    BY <2>2 DEF AwaitTypeOK
  <2>5. fds' \subseteq Fds /\ state' \in [Clients -> {"none", "accepted", "alive", "destroyed"}]
    BY <2>1, DestroyKeepsTypes
  <2>6. QED
    BY <2>2, <2>3, <2>4, <2>5 DEF AwaitTypeOK
<1>8. ASSUME NEW u \in Upstreams, NEW m \in {"reply", "eof"}, UpstreamSends(u, m)
      PROVE  AwaitTypeOK'
  BY <1>8 DEF UpstreamSends, AwaitTypeOK, Alive, sockets, answers
<1>9. ASSUME NEW u \in Upstreams, Reads(u) \/ Callback(u) \/ CallbackThrows(u)
      PROVE  AwaitTypeOK'
  <2>1. /\ u \in Clients
        /\ Destroy(u) \/ UNCHANGED <<fds, state, woken>>
        /\ call = NoCall
    <3>1. loop.at # "handler"
      BY <1>9 DEF Reads, Callback, CallbackThrows, InCallbacks
    <3>2. QED
      BY <1>1, <1>9, <3>1 DEF Reads, Callback, CallbackThrows, AwaitTypeOK
  <2>2. /\ UNCHANGED <<fd, active, objects, origClient, wsOrigin, call, worker>>
        /\ loop' = [at |-> "callbacks", client |-> u]
    BY <1>9 DEF Reads, Callback, CallbackThrows, InCallbacks, answers
  <2>3. /\ loop'.at = "callbacks"
        /\ loop' \in [at : {"sweep", "wait", "handler", "callbacks"}, client : Clients \cup {None}]
    BY <2>1, <2>2
  <2>4. QED
    BY <2>1, <2>2, <2>3, DestroyKeepsTypes DEF AwaitTypeOK
<1>10. ASSUME NEW u \in Upstreams, CallbacksDone(u)
       PROVE  AwaitTypeOK'
  <2>1. /\ loop' = [at |-> "wait", client |-> None] /\ loop.at # "handler" /\ call' = call
    BY <1>10 DEF CallbacksDone, InCallbacks
  <2>2. QED
    BY <1>10, <2>1 DEF CallbacksDone, AwaitTypeOK, sockets, answers
<1>11. QED
  BY <1>2, <1>3, <1>4, <1>5, <1>6, <1>7, <1>8, <1>9, <1>10 DEF CallbackStep

-----------------------------------------------------------------------------
(* Handlers, Connect and the worker keep the types.                         *)

LEMMA NextCall ==
    ASSUME AwaitTypeOK, NextAddress \/ Retry
    PROVE  call' \in [attempt : 0..MaxRetries, address : 0..MaxAddresses, fh : Fds \cup {NoFd}] /\ call'.fh = NoFd
<1>1. /\ call \in [attempt : 0..MaxRetries, address : 0..MaxAddresses, fh : Fds \cup {NoFd}]
      /\ MaxRetries \in Nat \ {0} /\ MaxAddresses \in Nat \ {0}
  BY AwaitAssumption DEF AwaitTypeOK
<1>2. CASE call.address < MaxAddresses /\ NextAddress
  <2> DEFINE a == call.address + 1
  <2>1. call' = [call EXCEPT !.address = a, !.fh = NoFd]
    BY <1>2 DEF NextAddress
  <2>2. a \in 0..MaxAddresses
    BY <1>1, <1>2
  <2> HIDE DEF a
  <2>3. QED
    BY <1>1, <2>1, <2>2
<1>3. CASE Retry
  <2>1. CASE call.attempt < MaxRetries
    <3> DEFINE a == call.attempt + 1
    <3>1. call' = [attempt |-> a, address |-> 1, fh |-> NoFd]
      BY <1>3, <2>1 DEF Retry
    <3>2. a \in 0..MaxRetries /\ 1 \in 0..MaxAddresses
      BY <1>1, <2>1
    <3> HIDE DEF a
    <3>3. QED
      BY <3>1, <3>2
  <2>2. CASE ~(call.attempt < MaxRetries)
    <3>1. call' = [attempt |-> 0, address |-> 0, fh |-> NoFd]
      BY <1>3, <2>2 DEF Retry, NoCall
    <3>2. 0 \in 0..MaxRetries /\ 0 \in 0..MaxAddresses
      BY <1>1
    <3>3. QED
      BY <3>1, <3>2
  <2>3. QED
    BY <2>1, <2>2
<1>4. QED
  BY <1>2, <1>3 DEF NextAddress

LEMMA ConnectTypes ==
    ASSUME AwaitTypeOK, FdInv, ConnectStep
    PROVE  AwaitTypeOK'
<1>1. loop.at = "handler" /\ loop.client \in Origins
  BY DEF ConnectStep, LookupFails, SocketFails, OpenSocket, ConnectFails, PeerNameFails, Connected,
         Connecting, Opened, NoCall, AwaitTypeOK
<1>2. CASE LookupFails \/ SocketFails \/ ConnectFails \/ PeerNameFails
  <2>1. UNCHANGED Rest /\ (NextAddress \/ Retry)
    BY <1>2 DEF LookupFails, SocketFails, ConnectFails, PeerNameFails
  <2>2. fds' \subseteq Fds
    BY <1>2 DEF LookupFails, SocketFails, ConnectFails, PeerNameFails, AwaitTypeOK
  <2>3. QED
    BY <1>1, <2>1, <2>2, NextCall DEF Rest, answers, AwaitTypeOK, Alive
<1>3. CASE OpenSocket
  <2>1. UNCHANGED Rest /\ fds' = fds \cup {FreeFd} /\ ~Opened
    BY <1>3 DEF OpenSocket, Connecting, Opened
  <2>2. FreeFd \in Fds
    BY <2>1, DescriptorsSuffice
  <2>3. call' \in [attempt : 0..MaxRetries, address : 0..MaxAddresses, fh : Fds \cup {NoFd}]
    BY <1>3, <2>2 DEF OpenSocket, AwaitTypeOK
  <2>4. QED
    BY <1>1, <2>1, <2>2, <2>3 DEF Rest, answers, AwaitTypeOK, Alive
<1>4. ASSUME NEW u \in Upstreams, Connected(u)
      PROVE  AwaitTypeOK'
  <2>1. u \in Clients /\ AddClient(u)
    BY <1>4 DEF Connected, Clients
  <2>2. /\ fd' \in [Clients -> Fds \cup {NoFd}] /\ origClient' \in [Upstreams -> Origins \cup {None}]
        /\ call' = NoCall
    BY <1>1, <1>4, <2>1 DEF Connected, AwaitTypeOK
  <2>3. NoCall \in [attempt : 0..MaxRetries, address : 0..MaxAddresses, fh : Fds \cup {NoFd}]
    <3>1. 0 \in 0..MaxRetries /\ 0 \in 0..MaxAddresses
      BY AwaitAssumption
    <3>2. QED
      BY <3>1 DEF NoCall
  <2>4. UNCHANGED <<fds, wsOrigin, loop, worker>>
    BY <1>4 DEF Connected, answers
  <2>5. QED
    BY <1>1, <2>1, <2>2, <2>3, <2>4, AddKeepsTypes DEF AwaitTypeOK
<1>5. QED
  BY <1>2, <1>3, <1>4 DEF ConnectStep

LEMMA HandlerTypes ==
    ASSUME AwaitTypeOK, NEW o \in Origins, OriginHandler(o)
    PROVE  AwaitTypeOK'
<1>1. loop.at = "handler" /\ call = NoCall
  BY DEF OriginHandler, HandlerSends, WebSocketStart, GiveToWorker, AwaitHTTP, HandlerEnds, InHandler
<1>2. CASE HandlerSends(o) \/ WebSocketStart(o)
  <2>1. UNCHANGED <<fds, fd, state, active, objects, origClient, call, loop, worker>>
    BY <1>2 DEF HandlerSends, WebSocketStart, sockets
  <2>2. wsOrigin' \subseteq Origins
    BY <1>2 DEF HandlerSends, WebSocketStart, AwaitTypeOK
  <2>3. QED
    BY <2>1, <2>2 DEF AwaitTypeOK, Alive
<1>3. CASE GiveToWorker(o)
  <2>1. worker' = [at |-> "has", origin |-> o]
    BY <1>3 DEF GiveToWorker
  <2>2. QED
    BY <1>3, <2>1 DEF GiveToWorker, AwaitTypeOK, Alive, sockets, answers
<1>4. CASE AwaitHTTP(o)
  <2>1. call' = [attempt |-> 1, address |-> 1, fh |-> NoFd] /\ loop' = loop
    BY <1>4 DEF AwaitHTTP
  <2>2. 1 \in 0..MaxRetries /\ 1 \in 0..MaxAddresses
    BY AwaitAssumption
  <2>3. call' \in [attempt : 0..MaxRetries, address : 0..MaxAddresses, fh : Fds \cup {NoFd}]
    BY <2>1, <2>2
  <2>4. UNCHANGED <<fds, fd, state, active, objects, origClient, wsOrigin, worker>>
    BY <1>4 DEF AwaitHTTP, sockets, answers
  <2>5. QED
    BY <1>1, <2>1, <2>3, <2>4 DEF AwaitTypeOK, Alive
<1>5. CASE HandlerEnds(o)
  <2>1. loop' = [at |-> "wait", client |-> None] /\ objects' \subseteq objects /\ call' = call
    BY <1>5, ReleaseOnlyFrees DEF HandlerEnds
  <2>2. UNCHANGED <<fds, fd, state, active, origClient, wsOrigin, worker>>
    BY <1>5 DEF HandlerEnds, sockets, answers
  <2>3. QED
    BY <1>1, <2>1, <2>2 DEF AwaitTypeOK
<1>6. QED
  BY <1>2, <1>3, <1>4, <1>5 DEF OriginHandler

\* What a step of the worker does.
LEMMA WorkerDoes ==
    ASSUME AwaitTypeOK, WorkerStep
    PROVE  /\ UNCHANGED <<sockets, active, origClient, wsOrigin, call, loop>>
           /\ worker' \in [at : {"idle", "has", "respond", "found", "locked"}, origin : Origins \cup {None}]
           /\ \/ objects' = objects /\ (worker'.at = "locked" => worker'.origin \in objects)
              \/ Release(active, loop, worker') /\ worker'.at = "idle"
<1>1. UNCHANGED <<sockets, active, origClient, wsOrigin, call, loop>>
  BY DEF WorkerStep, WorkerSends, WorkerFindsClient, WorkerLocks, WorkerPushes, WorkerGivesUp, ClientThread
<1>2. CASE WorkerPushes \/ WorkerGivesUp
  <2>1. worker' = [at |-> "idle", origin |-> None] /\ Release(active, loop, worker')
    BY <1>2 DEF WorkerPushes, WorkerGivesUp, WorkerEnds
  <2>2. QED
    BY <1>1, <2>1
<1>3. CASE WorkerSends \/ WorkerFindsClient \/ WorkerLocks
  <2>1. PICK to \in {"respond", "found", "locked"} :
          WorkerGoes(to) /\ (to = "locked" => worker.origin \in objects)
    BY <1>3 DEF WorkerSends, WorkerFindsClient, WorkerLocks
  <2>2. /\ worker' \in [at : {"idle", "has", "respond", "found", "locked"}, origin : Origins \cup {None}]
        /\ worker'.at = to /\ worker'.origin = worker.origin /\ objects' = objects
    BY <2>1 DEF WorkerGoes, AwaitTypeOK
  <2>3. QED
    BY <1>1, <2>1, <2>2
<1>4. QED
  BY <1>2, <1>3 DEF WorkerStep

LEMMA AwaitTypeKept ==
    ASSUME AwaitTypeOK, FdInv, [AwaitNext]_awaitVars
    PROVE  AwaitTypeOK'
<1>1. CASE WorkerStep
  <2>1. objects' \subseteq objects
    BY <1>1, WorkerDoes, ReleaseOnlyFrees
  <2>2. QED
    BY <1>1, <2>1, WorkerDoes DEF AwaitTypeOK, Alive, sockets
<1>2. CASE UNCHANGED awaitVars
  BY <1>2 DEF AwaitTypeOK, awaitVars, Alive, sockets, answers
<1>3. QED
  BY <1>1, <1>2, LoopTypes, ConnectTypes, HandlerTypes DEF AwaitNext

-----------------------------------------------------------------------------
(* Every step keeps each descriptor with one owner.                         *)

LEMMA DestroyKeepsFds ==
    ASSUME AwaitTypeOK, FdInv, NEW c \in Clients, Destroy(c) \/ UNCHANGED <<fds, state, woken>>,
           fd' = fd, call' = call
    PROVE  FdInv'
<1>1. CASE UNCHANGED <<fds, state>>
  <2>1. Owners' = Owners
    BY <1>1 DEF Owners
  <2>2. QED
    BY <1>1, <2>1 DEF FdInv
<1>2. CASE Alive(c) /\ state' = [state EXCEPT ![c] = "destroyed"] /\ fds' = fds \ {fd[c]}
  <2>1. c \in Owners /\ Owners' = Owners \ {c}
    BY <1>2 DEF Owners, Alive, AwaitTypeOK
  <2>2. \A d \in Owners : d # c => fd[d] # fd[c]
    BY <2>1 DEF FdInv
  <2>3. fds' = {fd'[d] : d \in Owners'} \cup ({call'.fh} \ {NoFd})
    <3>1. fd[c] # call.fh
      BY <2>1 DEF FdInv
    <3>2. fds' = {fd[d] : d \in Owners \ {c}} \cup ({call.fh} \ {NoFd})
      BY <1>2, <2>1, <2>2, <3>1 DEF FdInv
    <3>3. QED
      BY <2>1, <3>2
  <2>4. QED
    BY <2>1, <2>3 DEF FdInv
<1>3. QED
  BY <1>1, <1>2 DEF Destroy

\* A client gets the descriptor x, which is free or the one Connect has opened.
LEMMA NewOwner ==
    ASSUME AwaitTypeOK, FdInv, NEW c \in Clients, c \notin Owners, NEW x, x # NoFd,
           Owners' = Owners \cup {c}, fd' = [fd EXCEPT ![c] = x], fds' = fds \cup {x},
           \/ x \notin fds /\ call'.fh = call.fh
           \/ x = call.fh /\ call'.fh = NoFd
    PROVE  FdInv'
<1>1. fd'[c] = x /\ \A d \in Owners : fd'[d] = fd[d] /\ d # c
  BY DEF AwaitTypeOK, Owners
<1>2. \A d \in Owners : fd[d] # x
  BY DEF FdInv
<1>3. \A d, e \in Owners' : fd'[d] = fd'[e] => d = e
  BY <1>1, <1>2 DEF FdInv
<1>4. \A d \in Owners' : fd'[d] # NoFd /\ fd'[d] # call'.fh
  <2>1. CASE x \notin fds /\ call'.fh = call.fh
    <3>1. x # call.fh
      BY <2>1 DEF FdInv
    <3>2. QED
      BY <1>1, <2>1, <3>1 DEF FdInv
  <2>2. CASE x = call.fh /\ call'.fh = NoFd
    BY <1>1, <2>2 DEF FdInv
  <2>3. QED
    BY <2>1, <2>2
<1>5. {fd'[d] : d \in Owners'} = {fd[d] : d \in Owners} \cup {x}
  BY <1>1
<1>6. fds' = {fd[d] : d \in Owners} \cup {x} \cup ({call'.fh} \ {NoFd})
  BY DEF FdInv
<1>7. QED
  BY <1>3, <1>4, <1>5, <1>6 DEF FdInv

\* Steps that leave the owners alone, and open or close at most the descriptor of Connect.
LEMMA SameOwners ==
    ASSUME AwaitTypeOK, FdInv, fd' = fd, Owners' = Owners,
           \/ fds' = fds /\ call'.fh = call.fh
           \/ call.fh # NoFd /\ fds' = fds \ {call.fh} /\ call'.fh = NoFd
           \/ call.fh = NoFd /\ call'.fh # NoFd /\ call'.fh \notin fds /\ fds' = fds \cup {call'.fh}
    PROVE  FdInv'
<1>1. CASE fds' = fds /\ call'.fh = call.fh
  BY <1>1 DEF FdInv
<1>2. CASE call.fh # NoFd /\ fds' = fds \ {call.fh} /\ call'.fh = NoFd
  <2>1. fds' = {fd[c] : c \in Owners}
    BY <1>2 DEF FdInv
  <2>2. QED
    BY <1>2, <2>1 DEF FdInv
<1>3. CASE call.fh = NoFd /\ call'.fh # NoFd /\ call'.fh \notin fds /\ fds' = fds \cup {call'.fh}
  <2>1. fds = {fd[c] : c \in Owners}
    BY <1>3 DEF FdInv
  <2>2. QED
    BY <1>3, <2>1 DEF FdInv
<1>4. QED
  BY <1>1, <1>2, <1>3

LEMMA FdKept ==
    ASSUME AwaitTypeOK, FdInv, [AwaitNext]_awaitVars
    PROVE  FdInv'
<1>1. Origins \subseteq Clients /\ Upstreams \subseteq Clients /\ Others \subseteq Clients
  BY DEF Clients
<1>2. ASSUME NEW c \in Origins \cup Others, AcceptorAccepts(c)
      PROVE  FdInv'
  <2>1. c \in Clients /\ c \notin Owners
    BY <1>1, <1>2 DEF AcceptorAccepts, Owners
  <2>2. FreeFd \notin fds /\ FreeFd # NoFd
    BY <2>1, DescriptorsSuffice
  <2>3. Owners' = Owners \cup {c}
    BY <1>2, <2>1 DEF AcceptorAccepts, Owners, AwaitTypeOK
  <2>4. QED
    BY <1>2, <2>1, <2>2, <2>3, NewOwner DEF AcceptorAccepts
<1>3. ASSUME NEW u \in Upstreams, Connected(u)
      PROVE  FdInv'
  <2>1. u \in Clients /\ u \notin Owners /\ call.fh # NoFd
    BY <1>1, <1>3 DEF Connected, Owners, Opened
  <2>2. Owners' = Owners \cup {u}
    BY <1>3, <2>1 DEF Connected, AddClient, Owners, AwaitTypeOK
  <2>3. fds' = fds /\ call.fh \in fds /\ call'.fh = NoFd /\ fd' = [fd EXCEPT ![u] = call.fh]
    BY <1>3, <2>1 DEF Connected, FdInv, NoCall
  <2>4. fds' = fds \cup {call.fh}
    BY <2>3
  <2>5. QED
    BY <2>1, <2>2, <2>3, <2>4, NewOwner
<1>4. ASSUME NEW o \in Origins, Accept(o)
      PROVE  FdInv'
  <2>1. Owners' = Owners
    BY <1>1, <1>4 DEF Accept, AddClient, Owners, AwaitTypeOK
  <2>2. QED
    BY <1>4, <2>1, SameOwners DEF Accept
<1>5. ASSUME NEW c \in Clients,
             HangUp(c) \/ HandleOrigin(c) \/ Writes(c) \/ Reads(c) \/ Callback(c) \/ CallbackThrows(c)
      PROVE  FdInv'
  BY <1>5, DestroyKeepsFds DEF HangUp, HandleOrigin, Writes, Reads, Callback, CallbackThrows
<1>6. CASE LookupFails \/ SocketFails \/ ConnectFails \/ PeerNameFails
  <2>1. Owners' = Owners /\ fd' = fd
    BY <1>6 DEF LookupFails, SocketFails, ConnectFails, PeerNameFails, Rest, Owners
  <2>2. call'.fh = NoFd
    BY <1>6, NextCall DEF LookupFails, SocketFails, ConnectFails, PeerNameFails
  <2>3. \/ fds' = fds /\ call.fh = NoFd
        \/ call.fh # NoFd /\ fds' = fds \ {call.fh}
    BY <1>6 DEF LookupFails, SocketFails, ConnectFails, PeerNameFails, Connecting, Opened
  <2>4. QED
    BY <2>1, <2>2, <2>3, SameOwners
<1>7. CASE OpenSocket
  <2>1. call.fh = NoFd /\ fds' = fds \cup {FreeFd} /\ call'.fh = FreeFd
    BY <1>7 DEF OpenSocket, Connecting, AwaitTypeOK
  <2>2. FreeFd \notin fds /\ FreeFd # NoFd
    BY <2>1, DescriptorsSuffice DEF Opened
  <2>3. Owners' = Owners /\ fd' = fd
    BY <1>7 DEF OpenSocket, Rest, Owners
  <2>4. QED
    BY <2>1, <2>2, <2>3, SameOwners
<1>8. ASSUME NEW o \in Origins, AwaitHTTP(o)
      PROVE  FdInv'
  <2>1. Owners' = Owners /\ fd' = fd /\ fds' = fds /\ call'.fh = call.fh
    BY <1>8 DEF AwaitHTTP, InHandler, NoCall, sockets, Owners
  <2>2. QED
    BY <2>1, SameOwners
<1>9. CASE UNCHANGED <<sockets, call>>
  <2>1. Owners' = Owners /\ fd' = fd /\ fds' = fds /\ call'.fh = call.fh
    BY <1>9 DEF sockets, Owners
  <2>2. QED
    BY <2>1, SameOwners
<1>10. QED
  <2>1. \/ \E c \in Origins \cup Others : AcceptorAccepts(c)
        \/ \E u \in Upstreams : Connected(u)
        \/ \E o \in Origins : Accept(o) \/ AwaitHTTP(o)
        \/ \E c \in Clients :
              HangUp(c) \/ HandleOrigin(c) \/ Writes(c) \/ Reads(c) \/ Callback(c) \/ CallbackThrows(c)
        \/ LookupFails \/ SocketFails \/ ConnectFails \/ PeerNameFails \/ OpenSocket
        \/ UNCHANGED <<sockets, call>>
    <3>1. CASE WorkerStep
      BY <3>1, WorkerDoes
    <3>2. CASE WaitReturns \/ Sweep \/ ConnectStep
      BY <3>2 DEF WaitReturns, Sweep, ConnectStep
    <3>3. ASSUME NEW o \in Origins, Accept(o) \/ HangUp(o) \/ HandleOrigin(o) \/ OriginHandler(o) \/ Writes(o)
          PROVE  \/ Accept(o) \/ AwaitHTTP(o) \/ HangUp(o) \/ HandleOrigin(o) \/ Writes(o)
                 \/ UNCHANGED <<sockets, call>>
      BY <3>3 DEF OriginHandler, HandlerSends, WebSocketStart, GiveToWorker, HandlerEnds
    <3>4. ASSUME NEW u \in Upstreams,
                 (\E m \in {"reply", "eof"} : UpstreamSends(u, m)) \/ Reads(u) \/ CallbackStep(u)
          PROVE  Reads(u) \/ Callback(u) \/ CallbackThrows(u) \/ UNCHANGED <<sockets, call>>
      BY <3>4 DEF UpstreamSends, CallbackStep, CallbacksDone
    <3>5. CASE UNCHANGED awaitVars
      BY <3>5 DEF awaitVars
    <3>6. QED
      BY <1>1, <3>1, <3>2, <3>3, <3>4, <3>5 DEF AwaitNext
  <2>2. QED
    BY <1>2, <1>3, <1>4, <1>5, <1>6, <1>7, <1>8, <1>9, <2>1

-----------------------------------------------------------------------------
(* Every step keeps what is in use allocated.                               *)

\* Nothing that the stacks, ActiveClients or a strong pointer of a survivor leads to is freed.
LEMMA ReleaseKeepsHeld ==
    ASSUME NEW keeps, NEW l, NEW w, Release(keeps, l, w),
           \A h \in objects : Refs(h) \subseteq objects
    PROVE  /\ objects' \subseteq objects
           /\ \A x \in objects : x \in keeps \cup LoopRoots(l) \cup WorkerRoots(w) => x \in objects'
           /\ \A h \in objects' : Refs(h) \subseteq objects'
<1> DEFINE roots == keeps \cup LoopRoots(l) \cup WorkerRoots(w)
           Held(S) == \A x \in S : x \in roots \/ \E h \in S : x \in Refs(h)
<1>1. /\ \A x \in objects' : \E S \in SUBSET objects : x \in S /\ Held(S)
      /\ \A S \in SUBSET objects : Held(S) => S \subseteq objects'
  BY DEF Release, Survivors
<1>2. ASSUME NEW x \in objects, x \in roots
      PROVE  x \in objects'
  <2>1. {x} \in SUBSET objects /\ Held({x})
    BY <1>2
  <2>2. QED
    BY <1>1, <2>1
<1>3. ASSUME NEW h \in objects', NEW x \in Refs(h)
      PROVE  x \in objects'
  <2>1. PICK S \in SUBSET objects : h \in S /\ Held(S)
    BY <1>1
  <2>2. S \cup {x} \in SUBSET objects /\ Held(S \cup {x})
    BY <2>1
  <2>3. QED
    BY <1>1, <2>2
<1>4. QED
  BY <1>1, <1>2, <1>3

\* A step that frees nothing, adds no pointer and starts no work.
LEMMA ObjUnchanged ==
    ASSUME AwaitTypeOK, ObjInv,
           UNCHANGED <<active, objects, origClient, wsOrigin>>,
           \A c \in Clients : Alive(c)' => Alive(c),
           \A o \in Origins : state[o] \in {"alive", "destroyed"} => state'[o] \in {"alive", "destroyed"},
           loop' = loop \/ loop'.at \in {"sweep", "wait"},
           worker' = worker \/ worker'.at # "locked"
    PROVE  ObjInv'
<1>1. \A h : Refs(h)' = Refs(h)
  BY DEF Refs
<1>2. \A c \in Clients : Alive(c)' => c \in active' /\ c \in objects'
  BY DEF ObjInv
<1>3. loop'.at = "handler" => HandledInv'
  BY DEF ObjInv, HandledInv, AwaitTypeOK
<1>4. \A u \in Upstreams : InCallbacks(u)' => u \in active' /\ u \in objects'
  BY DEF ObjInv, InCallbacks
<1>5. worker'.at = "locked" => worker'.origin \in objects'
  BY DEF ObjInv
<1>6. \A o \in wsOrigin' : state'[o] \in {"alive", "destroyed"}
  BY DEF ObjInv, AwaitTypeOK
<1>7. QED
  BY <1>1, <1>2, <1>3, <1>4, <1>5, <1>6 DEF ObjInv

\* A step that frees what nothing leads to.
LEMMA ObjReleased ==
    ASSUME AwaitTypeOK, ObjInv, UNCHANGED <<state, origClient, wsOrigin>>,
           Release(active', loop', worker'),
           active' = active \/ (active' = {c \in active : Alive(c)} /\ loop'.at = "wait"),
           loop' = loop \/ loop'.at = "wait",
           worker' = worker \/ worker'.at = "idle"
    PROVE  ObjInv'
<1>1. \A h : Refs(h)' = Refs(h)
  BY DEF Refs
<1>2. /\ objects' \subseteq objects
      /\ \A x \in objects : x \in active' \cup LoopRoots(loop') \cup WorkerRoots(worker') => x \in objects'
      /\ \A h \in objects' : Refs(h) \subseteq objects'
  BY ReleaseKeepsHeld DEF ObjInv
<1>3. \A c \in Clients : Alive(c)' => c \in active' /\ c \in objects'
  BY <1>2 DEF ObjInv, Alive
<1>4. loop'.at = "handler" => HandledInv'
  BY <1>2 DEF ObjInv, HandledInv, LoopRoots
<1>5. \A u \in Upstreams : InCallbacks(u)' => u \in active' /\ u \in objects'
  BY <1>2 DEF ObjInv, InCallbacks
<1>6. worker'.at = "locked" => worker'.origin \in objects'
  BY <1>2 DEF ObjInv, WorkerRoots
<1>7. \A o \in wsOrigin' : state'[o] \in {"alive", "destroyed"}
  BY DEF ObjInv
<1>8. QED
  BY <1>1, <1>2, <1>3, <1>4, <1>5, <1>6, <1>7 DEF ObjInv

LEMMA ObjKept ==
    ASSUME AwaitTypeOK, ObjInv, [AwaitNext]_awaitVars
    PROVE  ObjInv'
<1>1. Origins \subseteq Clients /\ Upstreams \subseteq Clients /\ Others \subseteq Clients
  BY DEF Clients
<1>2. \A c \in Clients : Destroy(c) \/ UNCHANGED <<fds, state, woken>> =>
         /\ \A d \in Clients : Alive(d)' => Alive(d)
         /\ \A o \in Origins : state[o] \in {"alive", "destroyed"} => state'[o] \in {"alive", "destroyed"}
  <2>1. ASSUME NEW c \in Clients, state' = [state EXCEPT ![c] = "destroyed"]
        PROVE  /\ \A d \in Clients : Alive(d)' => Alive(d)
               /\ \A o \in Origins : state[o] \in {"alive", "destroyed"} => state'[o] \in {"alive", "destroyed"}
    <3>1. \A d \in Clients : state'[d] = IF d = c THEN "destroyed" ELSE state[d]
      BY <2>1 DEF AwaitTypeOK
    <3>2. QED
      BY <1>1, <3>1 DEF Alive
  <2>2. ASSUME state' = state
        PROVE  /\ \A d \in Clients : Alive(d)' => Alive(d)
               /\ \A o \in Origins : state[o] \in {"alive", "destroyed"} => state'[o] \in {"alive", "destroyed"}
    BY <2>2 DEF Alive
  <2>3. \A c \in Clients : Destroy(c) \/ UNCHANGED <<fds, state, woken>> =>
           state' = state \/ state' = [state EXCEPT ![c] = "destroyed"]
    BY DEF Destroy
  <2>4. QED
    BY <2>1, <2>2, <2>3
<1>3. CASE WorkerStep
  <2>1. CASE objects' = objects /\ (worker'.at = "locked" => worker'.origin \in objects)
    <3>1. \A h : Refs(h)' = Refs(h)
      BY <1>3, WorkerDoes DEF Refs
    <3>2. UNCHANGED <<state, active, wsOrigin, loop>>
      BY <1>3, WorkerDoes DEF sockets
    <3>3. \A c \in Clients : Alive(c)' => c \in active' /\ c \in objects'
      BY <2>1, <3>2 DEF ObjInv, Alive
    <3>4. loop'.at = "handler" => HandledInv'
      BY <2>1, <3>2 DEF ObjInv, HandledInv
    <3>5. \A u \in Upstreams : InCallbacks(u)' => u \in active' /\ u \in objects'
      BY <2>1, <3>2 DEF ObjInv, InCallbacks
    <3>6. \A h \in objects' : Refs(h)' \subseteq objects'
      BY <2>1, <3>1 DEF ObjInv
    <3>7. \A o \in wsOrigin' : state'[o] \in {"alive", "destroyed"}
      BY <3>2 DEF ObjInv
    <3>8. worker'.at = "locked" => worker'.origin \in objects'
      BY <2>1
    <3>9. QED
      BY <3>3, <3>4, <3>5, <3>6, <3>7, <3>8 DEF ObjInv
  <2>2. CASE Release(active, loop, worker') /\ worker'.at = "idle"
    <3>1. UNCHANGED <<state, active, origClient, wsOrigin, loop>>
      BY <1>3, WorkerDoes DEF sockets
    <3>2. Release(active', loop', worker')
      BY <2>2, <3>1 DEF Release
    <3>3. active' = active /\ loop' = loop /\ worker'.at = "idle"
      BY <2>2, <3>1
    <3>4. UNCHANGED <<state, origClient, wsOrigin>>
      BY <3>1
    <3>5. /\ active' = active \/ (active' = {c \in active : Alive(c)} /\ loop'.at = "wait")
          /\ loop' = loop \/ loop'.at = "wait"
          /\ worker' = worker \/ worker'.at = "idle"
      BY <3>3
    <3>6. QED
      BY <3>2, <3>4, <3>5, ObjReleased
  <2>3. QED
    BY <1>3, <2>1, <2>2, WorkerDoes
<1>4. CASE WaitReturns
  <2>1. UNCHANGED <<active, objects, origClient, wsOrigin, state, worker>>
    BY <1>4 DEF WaitReturns, sockets, answers
  <2>2. loop'.at = "sweep"
    BY <1>4 DEF WaitReturns, AwaitTypeOK
  <2>3. QED
    BY <2>1, <2>2, ObjUnchanged DEF Alive
<1>5. CASE Sweep
  <2>1. UNCHANGED <<state, origClient, wsOrigin, worker>> /\ active' = {c \in active : Alive(c)}
    BY <1>5 DEF Sweep, sockets, answers
  <2>2. loop'.at = "wait"
    BY <1>5 DEF Sweep, AwaitTypeOK
  <2>3. Release(active', loop', worker')
    BY <1>5, <2>1 DEF Sweep
  <2>4. QED
    BY <2>1, <2>2, <2>3, ObjReleased
<1>6. CASE ConnectStep
  <2>1. CASE LookupFails \/ SocketFails \/ OpenSocket \/ ConnectFails \/ PeerNameFails
    <3>1. UNCHANGED Rest
      BY <2>1 DEF LookupFails, SocketFails, OpenSocket, ConnectFails, PeerNameFails
    <3>2. QED
      BY <3>1, ObjUnchanged DEF Rest, answers, Alive
  <2>2. ASSUME NEW u \in Upstreams, Connected(u)
        PROVE  ObjInv'
    <3>1. /\ loop.at = "handler" /\ loop.client \in Origins
      BY <2>2 DEF Connected, Opened, NoCall, AwaitTypeOK
    <3>2. HandledInv
      BY <3>1 DEF ObjInv
    <3>3. /\ origClient'[u] = loop.client /\ \A v \in Upstreams : v # u => origClient'[v] = origClient[v]
          /\ objects' = objects \cup {u} /\ active' = active \cup {u}
          /\ state' = [state EXCEPT ![u] = "alive"] /\ state[u] = "none"
          /\ UNCHANGED <<wsOrigin, loop, worker>>
      BY <2>2 DEF Connected, AddClient, AwaitTypeOK, answers
    <3>4. ASSUME NEW h \in objects'
          PROVE  Refs(h)' \subseteq objects'
      <4>1. CASE h = u
        BY <3>2, <3>3, <4>1 DEF Refs, HandledInv
      <4>2. CASE h # u
        <5>1. Refs(h)' = Refs(h) /\ h \in objects
          BY <3>3, <3>4, <4>2 DEF Refs
        <5>2. QED
          BY <3>3, <5>1 DEF ObjInv
      <4>3. QED
        BY <4>1, <4>2
    <3>5. \A c \in Clients : Alive(c)' => c \in active' /\ c \in objects'
      BY <1>1, <3>3 DEF ObjInv, Alive, AwaitTypeOK
    <3>6. \A o \in wsOrigin' : state'[o] \in {"alive", "destroyed"}
      BY <1>1, <3>3 DEF ObjInv, AwaitTypeOK
    <3>7. HandledInv'
      BY <1>1, <3>1, <3>2, <3>3 DEF HandledInv, AwaitTypeOK
    <3>8. QED
      BY <3>3, <3>4, <3>5, <3>6, <3>7 DEF ObjInv, InCallbacks
  <2>3. QED
    BY <1>6, <2>1, <2>2 DEF ConnectStep
<1>7. ASSUME NEW c \in Origins \cup Others, AcceptorAccepts(c)
      PROVE  ObjInv'
  <2>1. UNCHANGED <<active, objects, origClient, wsOrigin, loop, worker>>
    BY <1>7 DEF AcceptorAccepts, answers
  <2>2. state' = [state EXCEPT ![c] = "accepted"] /\ state[c] = "none" /\ c \in Clients
    BY <1>1, <1>7 DEF AcceptorAccepts
  <2>3. /\ \A d \in Clients : Alive(d)' => Alive(d)
        /\ \A o \in Origins : state[o] \in {"alive", "destroyed"} => state'[o] \in {"alive", "destroyed"}
    BY <1>1, <2>2 DEF Alive, AwaitTypeOK
  <2>4. QED
    BY <2>1, <2>3, ObjUnchanged
<1>8. ASSUME NEW o \in Origins, Accept(o)
      PROVE  ObjInv'
  <2>1. /\ UNCHANGED <<origClient, wsOrigin, loop, worker>> /\ state[o] = "accepted" /\ loop.at = "wait"
        /\ objects' = objects \cup {o} /\ active' = active \cup {o}
        /\ state' = [state EXCEPT ![o] = "alive"]
    BY <1>8 DEF Accept, AddClient, answers
  <2>2. Refs(o) = {} /\ o \in Clients
    BY <1>1, <2>1, AwaitAssumption DEF Refs, ObjInv
  <2>3. \A h : Refs(h)' = Refs(h)
    BY <2>1 DEF Refs
  <2>4. \A h \in objects' : Refs(h)' \subseteq objects'
    BY <2>1, <2>2, <2>3 DEF ObjInv
  <2>5. \A c \in Clients : Alive(c)' => c \in active' /\ c \in objects'
    BY <2>1, <2>2 DEF ObjInv, Alive, AwaitTypeOK
  <2>6. \A x \in wsOrigin' : state'[x] \in {"alive", "destroyed"}
    BY <1>1, <2>1, <2>2 DEF ObjInv, AwaitTypeOK
  <2>7. QED
    BY <2>1, <2>4, <2>5, <2>6 DEF ObjInv, InCallbacks
<1>9. ASSUME NEW o \in Origins, HangUp(o) \/ Writes(o)
      PROVE  ObjInv'
  <2>1. UNCHANGED <<active, objects, origClient, wsOrigin, loop, worker>>
    BY <1>9 DEF HangUp, Writes, answers
  <2>2. /\ o \in Clients
        /\ Destroy(o) \/ UNCHANGED <<fds, state, woken>>
    BY <1>1, <1>9 DEF HangUp, Writes
  <2>3. QED
    BY <1>2, <2>1, <2>2, ObjUnchanged
<1>10. ASSUME NEW o \in Origins, HandleOrigin(o)
       PROVE  ObjInv'
  <2>1. /\ UNCHANGED <<active, origClient, wsOrigin, worker>> /\ Alive(o) /\ o \in Clients
        /\ Destroy(o) \/ UNCHANGED <<fds, state, woken>>
        /\ objects' = objects \cup {Request(o)} /\ loop' = [at |-> "handler", client |-> o]
    BY <1>1, <1>10 DEF HandleOrigin
  <2>2. Refs(Request(o)) = {}
    BY <1>1, AwaitAssumption DEF Refs, AwaitTypeOK
  <2>3. \A h : Refs(h)' = Refs(h)
    BY <2>1 DEF Refs
  <2>4. \A h \in objects' : Refs(h)' \subseteq objects'
    BY <2>1, <2>2, <2>3 DEF ObjInv
  <2>5. /\ \A d \in Clients : Alive(d)' => Alive(d)
        /\ \A x \in Origins : state[x] \in {"alive", "destroyed"} => state'[x] \in {"alive", "destroyed"}
    BY <1>2, <2>1
  <2>6. HandledInv' /\ loop'.at = "handler"
    BY <2>1, <2>5 DEF HandledInv, ObjInv, Alive
  <2>7. \A c \in Clients : Alive(c)' => c \in active' /\ c \in objects'
    BY <2>1, <2>5 DEF ObjInv
  <2>8. \A x \in wsOrigin' : state'[x] \in {"alive", "destroyed"}
    BY <2>1, <2>5 DEF ObjInv, AwaitTypeOK
  <2>9. QED
    BY <2>1, <2>4, <2>6, <2>7, <2>8 DEF ObjInv, InCallbacks
<1>11. ASSUME NEW o \in Origins, HandlerSends(o) \/ GiveToWorker(o) \/ AwaitHTTP(o)
       PROVE  ObjInv'
  <2>1. UNCHANGED <<active, objects, origClient, wsOrigin, loop, state>>
    BY <1>11 DEF HandlerSends, GiveToWorker, AwaitHTTP, sockets, answers
  <2>2. worker' = worker \/ worker'.at # "locked"
    BY <1>11 DEF HandlerSends, GiveToWorker, AwaitHTTP
  <2>3. QED
    BY <2>1, <2>2, ObjUnchanged DEF Alive
<1>12. ASSUME NEW o \in Origins, WebSocketStart(o)
       PROVE  ObjInv'
  <2>1. /\ UNCHANGED <<active, objects, origClient, loop, state, worker>>
        /\ wsOrigin' = wsOrigin \cup {o} /\ loop.at = "handler" /\ loop.client = o
    BY <1>12 DEF WebSocketStart, InHandler, sockets
  <2>2. HandledInv /\ Request(o) \in objects /\ state[o] \in {"alive", "destroyed"}
    BY <2>1 DEF ObjInv, HandledInv
  <2>3. \A h : Refs(h)' \subseteq Refs(h) \cup {Request(o)}
    BY <2>1 DEF Refs
  <2>4. \A h \in objects' : Refs(h)' \subseteq objects'
    BY <2>1, <2>2, <2>3 DEF ObjInv
  <2>5. HandledInv'
    BY <2>1, <2>2 DEF HandledInv
  <2>6. QED
    BY <2>1, <2>2, <2>4, <2>5 DEF ObjInv, Alive, InCallbacks
<1>13. ASSUME NEW o \in Origins, HandlerEnds(o)
       PROVE  ObjInv'
  <2>1. UNCHANGED <<state, active, origClient, wsOrigin, worker>> /\ loop'.at = "wait"
    BY <1>13 DEF HandlerEnds, sockets, answers
  <2>2. Release(active', loop', worker')
    BY <1>13, <2>1 DEF HandlerEnds
  <2>3. QED
    BY <2>1, <2>2, ObjReleased
<1>14. ASSUME NEW u \in Upstreams, NEW m \in {"reply", "eof"}, UpstreamSends(u, m)
       PROVE  ObjInv'
  BY <1>14, ObjUnchanged DEF UpstreamSends, sockets, answers, Alive
<1>15. ASSUME NEW u \in Upstreams, Reads(u) \/ Callback(u) \/ CallbackThrows(u)
       PROVE  ObjInv'
  <2>1. /\ UNCHANGED <<active, objects, origClient, wsOrigin, worker>>
        /\ loop' = [at |-> "callbacks", client |-> u]
    BY <1>15 DEF Reads, Callback, CallbackThrows, InCallbacks, answers
  <2>2. u \in active /\ u \in objects
    BY <1>1, <1>15 DEF Reads, Callback, CallbackThrows, ObjInv
  <2>3. /\ \A d \in Clients : Alive(d)' => Alive(d)
        /\ \A o \in Origins : state[o] \in {"alive", "destroyed"} => state'[o] \in {"alive", "destroyed"}
    BY <1>1, <1>2, <1>15 DEF Reads, Callback, CallbackThrows
  <2>4. \A h : Refs(h)' = Refs(h)
    BY <2>1 DEF Refs
  <2>5. \A v \in Upstreams : InCallbacks(v)' => v \in active' /\ v \in objects'
    BY <2>1, <2>2 DEF InCallbacks
  <2>6. loop'.at # "handler"
    BY <2>1
  <2>7. \A o \in wsOrigin' : state'[o] \in {"alive", "destroyed"}
    BY <2>1, <2>3 DEF ObjInv, AwaitTypeOK
  <2>8. QED
    BY <2>1, <2>3, <2>4, <2>5, <2>6, <2>7 DEF ObjInv
<1>16. ASSUME NEW u \in Upstreams, CallbacksDone(u)
       PROVE  ObjInv'
  BY <1>16, ObjUnchanged DEF CallbacksDone, sockets, answers, Alive
<1>17. CASE UNCHANGED awaitVars
  BY <1>17, ObjUnchanged DEF awaitVars, sockets, answers, Alive
<1>18. QED
  BY <1>3, <1>4, <1>5, <1>6, <1>7, <1>8, <1>9, <1>10, <1>11, <1>12, <1>13, <1>14, <1>15, <1>16,
     <1>17 DEF AwaitNext, OriginHandler, CallbackStep

-----------------------------------------------------------------------------
(***************************************************************************)
(* Theorems.                                                               *)
(***************************************************************************)

LEMMA InitInv ==
    ASSUME AwaitInit
    PROVE  AwaitTypeOK /\ FdInv /\ ObjInv
<1>1. AwaitTypeOK
  BY AwaitAssumption DEF AwaitInit, AwaitTypeOK, NoCall, Alive
<1>2. Owners = {} /\ call.fh = NoFd
  BY DEF AwaitInit, Owners, NoCall
<1>3. FdInv
  BY <1>2 DEF AwaitInit, FdInv
<1>4. ObjInv
  BY DEF AwaitInit, ObjInv, Alive, InCallbacks
<1>5. QED
  BY <1>1, <1>3, <1>4

\* In every reachable state of every instance the three parts of the invariant hold.
THEOREM AwaitInvariance == AwaitSpec => [](AwaitTypeOK /\ FdInv /\ ObjInv)
<1>1. AwaitInit => AwaitTypeOK /\ FdInv /\ ObjInv
  BY InitInv
<1>2. AwaitTypeOK /\ FdInv /\ ObjInv /\ [AwaitNext]_awaitVars => (AwaitTypeOK /\ FdInv /\ ObjInv)'
  BY AwaitTypeKept, FdKept, ObjKept
<1>3. QED
  BY <1>1, <1>2, PTL DEF AwaitSpec

\* The variables keep their types, handlers run for origins and Connect within a handler, and
\* Connect never goes beyond its addresses and retries.
THEOREM AwaitTypeCorrect == AwaitSpec => []AwaitTypeOK
<1>1. QED
  BY AwaitInvariance, PTL

LEMMA OwnersOfDescriptors ==
    ASSUME AwaitTypeOK, FdInv
    PROVE  DescriptorsHaveOwners
<1>1. fds = {fd[c] : c \in Owners} \cup ({call.fh} \ {NoFd})
  BY DEF FdInv
<1>2. QED
  BY <1>1, OneEach DEF DescriptorsHaveOwners

\* Whatever fails on the way to an upstream (lookup, socket, connect, getpeername), and however
\* often Destroy is called, the open descriptors are exactly those of the live connections and of
\* the connect in progress, each with a number of its own: none leaks and none is closed twice.
THEOREM DescriptorsAreOwned == AwaitSpec => []DescriptorsHaveOwners
<1>1. AwaitTypeOK /\ FdInv => DescriptorsHaveOwners
  BY OwnersOfDescriptors
<1>2. QED
  BY <1>1, AwaitInvariance, PTL

LEMMA HeldIsAllocated ==
    ASSUME AwaitTypeOK, ObjInv
    PROVE  NothingDangles
<1>1. \A c \in Clients : Alive(c) => c \in objects
  BY DEF ObjInv
<1>2. loop.at = "handler" => {loop.client, Request(loop.client)} \subseteq objects
  BY DEF ObjInv, HandledInv
<1>3. ASSUME NEW u \in Upstreams, InCallbacks(u)
      PROVE  {u, origClient[u], Request(origClient[u])} \subseteq objects
  <2>1. u \in objects /\ Refs(u) \subseteq objects
    BY <1>3 DEF ObjInv
  <2>2. QED
    BY <2>1 DEF Refs
<1>4. QED
  BY <1>1, <1>2, <1>3 DEF NothingDangles, ObjInv

\* The pointers the event loop, a handler, a callback and a worker use lead to allocated clients
\* and requests, although an object is freed as soon as no strong pointer leads to it.
THEOREM NoUseAfterFree == AwaitSpec => []NothingDangles
<1>1. AwaitTypeOK /\ ObjInv => NothingDangles
  BY HeldIsAllocated
<1>2. QED
  BY <1>1, AwaitInvariance, PTL
=============================================================================
