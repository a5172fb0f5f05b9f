------------------------------ MODULE AwaitHTTP ------------------------------
(***************************************************************************)
(* A server that asks another server before it answers: TResponder's       *)
(* AwaitHTTP (http/server/responder.cpp), the connect with its addresses   *)
(* and retries (net/client/connect.cpp, TBaseClient::Connect), the await   *)
(* client and its callback (http/server/await_client.hpp), and who owns    *)
(* what: ActiveClients, OrigClient, the closures and the weak pointers.    *)
(*                                                                         *)
(* Accepting, handlers, callbacks and sweeps run on one client thread; the *)
(* acceptor takes descriptors and a worker may answer in between.  An      *)
(* origin is a connection somebody opened to this server, with one         *)
(* request; an upstream is a connection this server opened.  An object is  *)
(* freed as soon as no strong pointer leads to it.                         *)
(***************************************************************************)
EXTENDS Naturals, Sequences, FiniteSets, FiniteSetsExt

CONSTANTS
    Origins, Upstreams,
    Others,         \* connections of other client threads: they only take a descriptor
    None,           \* no client
    MaxAddresses,   \* addresses getaddrinfo finds for the host
    MaxRetries,     \* maxRetries of Connect
    MaxReplies      \* replies the upstreams send together, asked for or not

Clients == Origins \cup Upstreams \cup Others
Request(o) == <<"request", o>>

ASSUME AwaitAssumption ==
    /\ IsFiniteSet(Clients)
    /\ Origins \cap Upstreams = {} /\ Others \cap (Origins \cup Upstreams) = {}
    /\ None \notin Clients
    /\ \A o \in Origins : Request(o) \notin Clients
    /\ MaxAddresses \in Nat \ {0} /\ MaxRetries \in Nat \ {0} /\ MaxReplies \in Nat

NoFd == 0
Fds == 1 .. Cardinality(Clients) + 1
NoCall == [attempt |-> 0, address |-> 0, fh |-> NoFd]

VARIABLES
    fds,            \* the descriptors the process has open
    fd,             \* Args->Fh of each client, kept when the client is destroyed
    state,          \* "none", "accepted" (no client yet), "alive" or "destroyed"
    active,         \* ActiveClients
    objects,        \* the clients and requests that are allocated
    origClient,     \* OrigClient of an await client
    wsOrigin,       \* origins whose WebSocketOrigin is set
    requested,      \* origins that have sent their request
    answered,       \* origins whose request has ResponseSent set
    response,       \* of each origin: "none", "queued" or "written"
    inbox,          \* what an upstream has sent and was not read yet
    replies,        \* replies that upstreams have sent
    parsed,         \* replies in the parser of an await client
    call,           \* the Connect in progress
    loop,           \* what the client thread is doing: [at, client]
    worker,         \* what the worker is doing: [at, origin]
    woken           \* the next Wait returns

sockets == <<fds, fd, state>>
answers == <<wsOrigin, requested, answered, response>>
streams == <<inbox, replies, parsed>>
awaitVars == <<sockets, active, objects, origClient, answers, streams, call, loop, worker, woken>>

AwaitInit ==
    /\ fds = {} /\ fd = [c \in Clients |-> NoFd] /\ state = [c \in Clients |-> "none"]
    /\ active = {} /\ objects = {} /\ origClient = [u \in Upstreams |-> None]
    /\ wsOrigin = {} /\ requested = {} /\ answered = {}
    /\ response = [o \in Origins |-> "none"]
    /\ inbox = [u \in Upstreams |-> <<>>] /\ replies = 0
    /\ parsed = [u \in Upstreams |-> 0]
    /\ call = NoCall
    /\ loop = [at |-> "sweep", client |-> None]
    /\ worker = [at |-> "idle", origin |-> None]
    /\ woken = FALSE

Alive(c) == state[c] = "alive"

----------------------------------------------------------------------------
\* Strong pointers.  The callback of an await client holds its request, the request
\* holds its client weakly.

\* Mutant: TResponder holds the client strongly.
RefsOfStrongResponder(h) ==
    IF h \in Upstreams THEN {origClient[h], Request(origClient[h])}
    ELSE IF h \in wsOrigin THEN {Request(h)}
    ELSE {o \in Origins : h = Request(o)}

Refs(h) ==
    IF h \in Upstreams THEN {origClient[h], Request(origClient[h])}
    ELSE IF h \in wsOrigin THEN {Request(h)}
    ELSE {}

\* what the stacks of the worker and of the client thread hold
WorkerRoots(w) ==
    (IF w.at = "idle" THEN {} ELSE {Request(w.origin)})
        \cup (IF w.at = "locked" THEN {w.origin} ELSE {})
LoopRoots(l) == IF l.at = "handler" THEN {Request(l.client)} ELSE {}

\* What is left when nothing without a strong pointer to it remains: a cycle stays.
Survivors(roots) ==
    UNION {S \in SUBSET objects :
              \A x \in S : x \in roots \/ \E h \in S : x \in Refs(h)}

Release(keeps, l, w) == objects' = Survivors(keeps \cup LoopRoots(l) \cup WorkerRoots(w))

----------------------------------------------------------------------------
\* Descriptors are numbers, and the lowest free one is given out.
FreeFd == Min(Fds \ fds)

\* Mutant: Destroyed is not consulted.
DestroyAgain(c) ==
    /\ state' = [state EXCEPT ![c] = "destroyed"]
    /\ fds' = fds \ {fd[c]}
    /\ woken' = TRUE

Destroy(c) ==
    /\ woken' = TRUE
    /\ \/ ~Alive(c) /\ UNCHANGED <<fds, state>>
       \/ /\ Alive(c)
          /\ state' = [state EXCEPT ![c] = "destroyed"]
          /\ fds' = fds \ {fd[c]}

AcceptorAccepts(c) ==
    /\ state[c] = "none"
    /\ fds' = fds \cup {FreeFd}
    /\ fd' = [fd EXCEPT ![c] = FreeFd]
    /\ state' = [state EXCEPT ![c] = "accepted"]
    /\ UNCHANGED <<active, objects, origClient, answers, streams, call, loop, worker, woken>>

\* the lambda AddClient, for a client that Accept or Connect has made
AddClient(c) ==
    /\ state' = [state EXCEPT ![c] = "alive"]
    /\ active' = active \cup {c}
    /\ objects' = objects \cup {c}

Accept(o) ==
    /\ loop.at = "wait" /\ state[o] = "accepted"
    /\ AddClient(o)
    /\ UNCHANGED <<fds, fd, origClient, answers, streams, call, loop, worker, woken>>

\* the peer of an origin goes away
HangUp(o) ==
    /\ loop.at = "wait" /\ Alive(o)
    /\ Destroy(o)
    /\ UNCHANGED <<fd, active, objects, origClient, answers, streams, call, loop, worker>>

WaitReturns ==
    /\ loop.at = "wait" /\ woken
    /\ woken' = FALSE
    /\ loop' = [loop EXCEPT !.at = "sweep"]
    /\ UNCHANGED <<sockets, active, objects, origClient, answers, streams, call, worker>>

Sweep ==
    /\ loop.at = "sweep"
    /\ active' = {c \in active : Alive(c)}
    /\ loop' = [loop EXCEPT !.at = "wait"]
    /\ Release(active', loop', worker)
    /\ UNCHANGED <<sockets, origClient, answers, streams, call, worker, woken>>

----------------------------------------------------------------------------
\* The handler of an origin's request.

\* TRequest::Send and TResponder::Respond in the client thread, which holds the client
Send(o) ==
    /\ o \notin answered
    /\ answered' = answered \cup {o}
    /\ response' = [response EXCEPT ![o] = "queued"]

\* TNetClient::Cb reads the request, and the end of the stream perhaps, which drops the client
\* before its handler runs
HandleOrigin(o) ==
    /\ loop.at = "wait" /\ Alive(o) /\ o \notin requested
    /\ Destroy(o) \/ UNCHANGED <<fds, state, woken>>
    /\ requested' = requested \cup {o}
    /\ objects' = objects \cup {Request(o)}
    /\ loop' = [at |-> "handler", client |-> o]
    /\ UNCHANGED <<fd, active, origClient, wsOrigin, answered, response, streams, call, worker>>

InHandler(o) == loop = [at |-> "handler", client |-> o] /\ call = NoCall

HandlerSends(o) ==
    /\ InHandler(o)
    /\ Send(o)
    /\ UNCHANGED <<sockets, active, objects, origClient, wsOrigin, requested, streams, call,
                   loop, worker, woken>>

WebSocketStart(o) ==
    /\ InHandler(o)
    /\ Send(o)
    /\ wsOrigin' = wsOrigin \cup {o}
    /\ UNCHANGED <<sockets, active, objects, origClient, requested, streams, call, loop, worker,
                   woken>>

\* the handler gives the shared request to a worker
GiveToWorker(o) ==
    /\ InHandler(o) /\ worker.at = "idle" /\ o \notin answered
    /\ worker' = [at |-> "has", origin |-> o]
    /\ UNCHANGED <<sockets, active, objects, origClient, answers, streams, call, loop, woken>>

Awaited(o) == \E u \in Upstreams : origClient[u] = o

\* The request has been answered, kept, or will be answered by a callback; when Connect
\* returned null the handler must answer.
HandlerEnds(o) ==
    /\ InHandler(o)
    /\ o \in answered \/ worker.origin = o \/ Awaited(o)
    /\ loop' = [at |-> "wait", client |-> None]
    /\ Release(active, loop', worker)
    /\ UNCHANGED <<sockets, active, origClient, answers, streams, call, worker, woken>>

----------------------------------------------------------------------------
\* AwaitHTTP: Connect, run to its end in the client thread.

AwaitHTTP(o) ==
    /\ InHandler(o)
    /\ \E u \in Upstreams : state[u] = "none"
    /\ call' = [attempt |-> 1, address |-> 1, fh |-> NoFd]
    /\ UNCHANGED <<sockets, active, objects, origClient, answers, streams, loop, worker, woken>>

Rest == <<fd, state, active, objects, origClient, answers, streams, loop, worker, woken>>

Connecting == call # NoCall /\ call.fh = NoFd
Opened == call.fh # NoFd

\* ConnectImpl has failed: the next round of Connect, or null
Retry ==
    call' = IF call.attempt < MaxRetries
            THEN [attempt |-> call.attempt + 1, address |-> 1, fh |-> NoFd]
            ELSE NoCall

NextAddress ==
    IF call.address < MaxAddresses
    THEN call' = [call EXCEPT !.address = @ + 1, !.fh = NoFd]
    ELSE Retry

LookupFails == Connecting /\ call.address = 1 /\ Retry /\ UNCHANGED <<fds, Rest>>

SocketFails == Connecting /\ NextAddress /\ UNCHANGED <<fds, Rest>>

OpenSocket ==
    /\ Connecting
    /\ fds' = fds \cup {FreeFd}
    /\ call' = [call EXCEPT !.fh = FreeFd]
    /\ UNCHANGED Rest

\* SetupSocket or connect(2) fails
ConnectFails ==
    /\ Opened
    /\ fds' = fds \ {call.fh}
    /\ NextAddress
    /\ UNCHANGED Rest

\* Mutant: the descriptor stays open.
PeerNameFailsOpen == Opened /\ Retry /\ UNCHANGED <<fds, Rest>>

\* connect(2) succeeded or is in progress, but the socket has no peer: the other
\* addresses are not tried
PeerNameFails ==
    /\ Opened
    /\ fds' = fds \ {call.fh}
    /\ Retry
    /\ UNCHANGED Rest

\* Mutant: the await client is only given its weak pointer.
ConnectedUnowned(u) ==
    /\ Opened /\ state[u] = "none"
    /\ fd' = [fd EXCEPT ![u] = call.fh]
    /\ origClient' = [origClient EXCEPT ![u] = loop.client]
    /\ state' = [state EXCEPT ![u] = "alive"]
    /\ objects' = objects \cup {u}
    /\ call' = NoCall
    /\ UNCHANGED <<fds, active, answers, streams, loop, worker, woken>>

\* the rest of TBaseClient::Connect; the handler then pushes its request to u
Connected(u) ==
    /\ Opened /\ state[u] = "none"
    /\ fd' = [fd EXCEPT ![u] = call.fh]
    /\ origClient' = [origClient EXCEPT ![u] = loop.client]
    /\ AddClient(u)
    /\ call' = NoCall
    /\ UNCHANGED <<fds, answers, streams, loop, worker, woken>>

----------------------------------------------------------------------------
\* The await client.

Replies(s) == Len(SelectSeq(s, LAMBDA m : m = "reply"))
AtEnd(u) == \E i \in DOMAIN inbox[u] : inbox[u][i] = "eof"

\* the upstream replies, more often than it was asked perhaps, or closes
UpstreamSends(u, m) ==
    /\ Alive(u) /\ ~AtEnd(u)
    /\ replies' = replies + Replies(<<m>>) /\ replies' <= MaxReplies
    /\ inbox' = [inbox EXCEPT ![u] = Append(@, m)]
    /\ UNCHANGED <<sockets, active, objects, origClient, answers, parsed, call, loop, worker,
                   woken>>

\* Mutant: a client that was dropped while it read does not run its callbacks.
ReadsDroppingParsed(u) ==
    /\ loop.at = "wait" /\ Alive(u) /\ inbox[u] # <<>>
    /\ inbox' = [inbox EXCEPT ![u] = <<>>]
    /\ parsed' = [parsed EXCEPT ![u] = @ + Replies(inbox[u])]
    /\ \/ AtEnd(u) /\ Destroy(u) /\ UNCHANGED loop
       \/ /\ ~AtEnd(u) /\ UNCHANGED <<fds, state, woken>>
          /\ loop' = [at |-> "callbacks", client |-> u]
    /\ UNCHANGED <<fd, active, objects, origClient, answers, replies, call, worker>>

\* TNetClient::Cb: everything is read and parsed, and the end of the stream drops the
\* client before its callbacks run
Reads(u) ==
    /\ loop.at = "wait" /\ Alive(u) /\ inbox[u] # <<>>
    /\ inbox' = [inbox EXCEPT ![u] = <<>>]
    /\ parsed' = [parsed EXCEPT ![u] = @ + Replies(inbox[u])]
    /\ \/ AtEnd(u) /\ Destroy(u)
       \/ ~AtEnd(u) /\ UNCHANGED <<fds, state, woken>>
    /\ loop' = [at |-> "callbacks", client |-> u]
    /\ UNCHANGED <<fd, active, objects, origClient, answers, replies, call, worker>>

InCallbacks(u) == loop = [at |-> "callbacks", client |-> u]

\* TAwaitClient::HandleRequest: the callback answers the request, and may drop its client
Callback(u) ==
    /\ InCallbacks(u) /\ parsed[u] > 0
    /\ parsed' = [parsed EXCEPT ![u] = @ - 1]
    /\ Send(origClient[u])
    /\ Destroy(u) \/ UNCHANGED <<fds, state, woken>>
    /\ UNCHANGED <<fd, active, objects, origClient, wsOrigin, requested, inbox, replies, call, loop,
                   worker>>

\* "Response sent twice": TClientBase::OnData drops the await client
CallbackThrows(u) ==
    /\ InCallbacks(u) /\ parsed[u] > 0 /\ origClient[u] \in answered
    /\ parsed' = [parsed EXCEPT ![u] = @ - 1]
    /\ Destroy(u)
    /\ UNCHANGED <<fd, active, objects, origClient, answers, inbox, replies, call, loop, worker>>

CallbacksDone(u) ==
    /\ InCallbacks(u) /\ parsed[u] = 0
    /\ loop' = [at |-> "wait", client |-> None]
    /\ UNCHANGED <<sockets, active, objects, origClient, answers, streams, call, worker, woken>>

\* the response is written, and its callback drops the origin if it is to close
Writes(o) ==
    /\ loop.at = "wait" /\ Alive(o) /\ response[o] = "queued"
    /\ response' = [response EXCEPT ![o] = "written"]
    /\ Destroy(o) \/ UNCHANGED <<fds, state, woken>>
    /\ UNCHANGED <<fd, active, objects, origClient, wsOrigin, requested, answered, streams,
                   call, loop, worker>>

----------------------------------------------------------------------------
\* A worker answers a request it was given.  TResponder::Respond asks whether the client
\* has expired, and then locks the weak pointer.

WorkerGoes(at) == worker' = [worker EXCEPT !.at = at] /\ UNCHANGED objects
WorkerEnds ==
    /\ worker' = [at |-> "idle", origin |-> None]
    /\ Release(active, loop, worker')
ClientThread == <<sockets, active, origClient, wsOrigin, requested, streams, call, loop, woken>>

WorkerSends ==
    /\ worker.at = "has" /\ worker.origin \notin answered
    /\ answered' = answered \cup {worker.origin}
    /\ WorkerGoes("respond")
    /\ UNCHANGED <<ClientThread, response>>

WorkerFindsClient ==
    /\ worker.at = "respond" /\ worker.origin \in objects
    /\ WorkerGoes("found")
    /\ UNCHANGED <<ClientThread, answered, response>>

WorkerLocks ==
    /\ worker.at = "found" /\ worker.origin \in objects
    /\ WorkerGoes("locked")
    /\ UNCHANGED <<ClientThread, answered, response>>

\* PushWriteQueue, and the pointers go
WorkerPushes ==
    /\ worker.at = "locked"
    /\ response' = [response EXCEPT ![worker.origin] = "queued"]
    /\ WorkerEnds
    /\ UNCHANGED <<ClientThread, answered>>

\* Send or the conversion of the weak pointer throws, or the client had expired
WorkerGivesUp ==
    /\ \/ worker.at = "has" /\ worker.origin \in answered
       \/ worker.at \in {"respond", "found"} /\ worker.origin \notin objects
    /\ WorkerEnds
    /\ UNCHANGED <<ClientThread, answered, response>>

----------------------------------------------------------------------------
ConnectStep ==
    \/ LookupFails \/ SocketFails \/ OpenSocket \/ ConnectFails \/ PeerNameFails
    \/ \E u \in Upstreams : Connected(u)

OriginHandler(o) ==
    \/ HandlerSends(o) \/ WebSocketStart(o) \/ GiveToWorker(o) \/ AwaitHTTP(o) \/ HandlerEnds(o)

CallbackStep(u) == Callback(u) \/ CallbackThrows(u) \/ CallbacksDone(u)

WorkerStep ==
    \/ WorkerSends \/ WorkerFindsClient \/ WorkerLocks \/ WorkerPushes \/ WorkerGivesUp

AwaitNext ==
    \/ WaitReturns \/ Sweep \/ ConnectStep \/ WorkerStep
    \/ \E c \in Origins \cup Others : AcceptorAccepts(c)
    \/ \E o \in Origins :
          \/ Accept(o) \/ HangUp(o) \/ HandleOrigin(o)
          \/ OriginHandler(o) \/ Writes(o)
    \/ \E u \in Upstreams :
          \/ \E m \in {"reply", "eof"} : UpstreamSends(u, m)
          \/ Reads(u) \/ CallbackStep(u)

AwaitSpec == AwaitInit /\ [][AwaitNext]_awaitVars

\* Both threads go on, a handler does not connect for ever but answers or returns, and a Wait
\* that was woken returns.  Nothing makes an upstream reply or a peer hang up, and nothing a
\* response be written: a worker's push may leave WRITE disarmed.
AwaitFairness ==
    /\ WF_awaitVars(Sweep) /\ WF_awaitVars(ConnectStep) /\ WF_awaitVars(WorkerStep)
    /\ SF_awaitVars(WaitReturns)
    /\ \A o \in Origins : SF_awaitVars(HandlerSends(o) \/ HandlerEnds(o))
    /\ \A u \in Upstreams : WF_awaitVars(CallbackStep(u))

AwaitFairSpec == AwaitSpec /\ AwaitFairness

----------------------------------------------------------------------------
\* Properties.

\* Types; handlers run for origins, and Connect within a handler.
AwaitTypeOK ==
    /\ fds \subseteq Fds /\ fd \in [Clients -> Fds \cup {NoFd}]
    /\ state \in [Clients -> {"none", "accepted", "alive", "destroyed"}]
    /\ active \subseteq Clients /\ objects \subseteq Clients \cup {Request(o) : o \in Origins}
    /\ origClient \in [Upstreams -> Origins \cup {None}]
    /\ wsOrigin \subseteq Origins
    /\ call \in [attempt : 0..MaxRetries, address : 0..MaxAddresses, fh : Fds \cup {NoFd}]
    /\ loop \in [at : {"sweep", "wait", "handler", "callbacks"}, client : Clients \cup {None}]
    /\ worker \in [at : {"idle", "has", "respond", "found", "locked"}, origin : Origins \cup {None}]
    /\ loop.at = "handler" => loop.client \in Origins
    /\ call # NoCall => loop.at = "handler"

\* Whatever fails on the way to an upstream, and however often a client is dropped, the
\* open descriptors are those of the live connections and of the connect in progress,
\* each with a number of its own: none leaks and none is closed under its new owner.
Owners ==
    {c \in Clients : state[c] \in {"accepted", "alive"}}
DescriptorsHaveOwners ==
    /\ fds = {fd[c] : c \in Owners} \cup ({call.fh} \ {NoFd})
    /\ Cardinality(fds) = Cardinality(Owners) + (IF Opened THEN 1 ELSE 0)

\* What a thread may touch through a plain pointer is allocated: the clients the event
\* loop has registered, the one it runs a handler or a callback for with the request it
\* belongs to, and the client a worker pushes to.
NothingDangles ==
    /\ \A c \in Clients : Alive(c) => c \in objects
    /\ loop.at = "handler" => {loop.client, Request(loop.client)} \subseteq objects
    /\ \A u \in Upstreams :
          InCallbacks(u) => {u, origClient[u], Request(origClient[u])} \subseteq objects
    /\ worker.at = "locked" => worker.origin \in objects

\* A reply that was read is followed by a response to the origin, in its write queue or
\* written, or the origin has gone: also when the upstream closed behind the reply, replied twice, or another
\* upstream or a worker was quicker.
ReplyReachesOrigin ==
    \A u \in Upstreams : \A o \in Origins :
        (parsed[u] > 0 /\ origClient[u] = o)
            ~> (response[o] \in {"queued", "written"} \/ state[o] = "destroyed")

\* A connection that has ended is freed with its request, also when it was upgraded,
\* unless an upstream it waits for stays open; there is no timeout for that.
DroppedIsFreed ==
    \A o \in Origins :
        state[o] = "destroyed" ~>
            \/ objects \cap {o, Request(o)} = {}
            \/ \E u \in Upstreams : Alive(u) /\ origClient[u] = o
=============================================================================
