------------------------------ MODULE NetClient ------------------------------
(***************************************************************************)
(* One connection of the server or of a client: TNetClient of              *)
(* net/server/client.{hpp,cpp}, with the event-loop thread that runs its   *)
(* Cb and sweeps it out of ActiveClients (net/server/client_thread.cpp),   *)
(* and other threads that call PushWriteQueue and Drop on it.              *)
(*                                                                         *)
(* A call is a sequence of steps, one per access to state that another     *)
(* thread can touch; pc[t] is the step thread t is about to take.  The     *)
(* event loop, the socket and OpenSSL are external: what they may answer   *)
(* is chosen freely.                                                       *)
(***************************************************************************)
EXTENDS Integers, Sequences

CONSTANTS Workers,      \* threads, other than the loop's, that use the client
          Droppers,     \* the workers that may call Drop
          Loop,         \* the thread of the event loop
          MaxItems,     \* bound: items pushed in a behaviour
          Size,         \* Size[i]: bytes of the i-th item pushed
          MaxDummies    \* bound: handshake items put in the queue in a behaviour

ASSUME ThreadsAssumption == Loop \notin Workers /\ Droppers \subseteq Workers
ASSUME BoundsAssumption  == MaxItems \in Nat /\ MaxDummies \in Nat
ASSUME SizeAssumption    == Size \in [1..MaxItems -> Nat]

Threads == Workers \cup {Loop}

Items   == 1..MaxItems  \* an item is the number of its push
Dummy   == 0            \* TWriteQueueItem with Dummy = true
Filters == {{"READ"}, {"READ", "WRITE"}}

(***************************************************************************)
(* Steps.  "idle" is a worker outside of any call; "sweep" and "wait" are  *)
(* the two halves of TClientThread::Run; "dispatch" is the loop about to   *)
(* call Cb; "read", "ondata", "write", "writing", "callback" and "pop" are *)
(* Cb; the others are PushWriteQueue, UnshiftDummyWriteQueueItem,          *)
(* UpdateEvent and Destroy.                                                *)
(***************************************************************************)
CbSteps     == {"dispatch", "read", "ondata", "write", "writing", "callback", "pop"}
UpdateSteps == {"alive", "should", "compare", "add"}
DropSteps   == {"wakeDrop", "remove", "close"}
Steps       == CbSteps \cup UpdateSteps \cup DropSteps
                 \cup {"idle", "sweep", "wait", "unshift", "wake"}

VARIABLES
    queue,      \* WriteQueue
    pos,        \* pos[i]: TWriteQueueItem::Pos of item i
    evFilter,   \* EvFilter of the node
    registered, \* the filter the event loop has for the descriptor, {} if none
    destroyed,  \* Destroyed
    ssl,        \* whether the connection has an SSL object
    open,       \* whether the descriptor is open
    swept,      \* whether Run has dropped the client from ActiveClients
    woken,      \* a Wake() that Wait() has not yet returned for
    strayed,    \* history: the node was registered after the close, with the number of
                \* its descriptor in the hands of a new owner
    pc,         \* the step each thread is about to take
    after,      \* where UpdateEvent returns to
    ret,        \* where PushWriteQueue, Unshift... or Destroy returns to
    filter,     \* UpdateEvent's local variable
    events,     \* the events of the Cb call under way
    item,       \* Cb's local variable, the item being written
    appended,   \* history: the number of items pushed
    unshifted,  \* history: the number of handshake items put in front
    called,     \* history: the items whose callback has run, in order
    wire,       \* history: the item of each byte written to the open descriptor
    closes      \* history: the number of close(2) calls

clientVars == <<queue, pos, evFilter, destroyed, ssl>>
envVars    == <<registered, open, swept, woken, strayed>>
callVars    == <<after, ret, filter, events, item>>
historyVars == <<appended, unshifted, called, wire, closes>>
vars == <<clientVars, envVars, pc, callVars, historyVars>>

\* The client is owned by ActiveClients, and by a worker for the time of a call.
Referenced == ~swept \/ \E w \in Workers : pc[w] # "idle"

\* Where user code runs and may call into the client: a worker at any time
\* (it locks a weak pointer), the loop thread in OnData, in an item's
\* callback, or in the handlers of its other clients.
InUserCode(t) ==
    IF t = Loop THEN pc[t] \in {"ondata", "callback", "wait"} /\ (pc[t] = "wait" => Referenced)
                ELSE pc[t] = "idle" /\ Referenced

Goto(t, step) == pc' = [pc EXCEPT ![t] = step]

\* A step of the loop thread that changes nothing but where it is.
Jump(from, to) ==
    /\ pc[Loop] = from
    /\ Goto(Loop, to)
    /\ UNCHANGED <<clientVars, envVars, callVars, historyVars>>

Init ==
    /\ queue = << >>
    /\ pos = [i \in Items |-> 0]
    /\ evFilter = {"READ"}
    /\ registered = {"READ"}
    /\ destroyed = FALSE
    /\ ssl \in BOOLEAN
    /\ open = TRUE
    /\ swept = FALSE
    /\ woken = FALSE
    /\ strayed = FALSE
    /\ pc = [t \in Threads |-> IF t = Loop THEN "sweep" ELSE "idle"]
    /\ after = [t \in Threads |-> "wake"]
    /\ ret = [t \in Threads |-> "idle"]
    /\ filter = [t \in Threads |-> {"READ"}]
    /\ events = {}
    /\ item = Dummy
    /\ appended = 0
    /\ unshifted = 0
    /\ called = << >>
    /\ wire = << >>
    /\ closes = 0

-----------------------------------------------------------------------------
(* PushWriteQueue and UnshiftDummyWriteQueueItem.                           *)

\* Mutant: the push does not call UpdateEvent.
PushWithoutUpdate(t) ==
    /\ InUserCode(t)
    /\ appended < MaxItems
    /\ queue' = Append(queue, appended + 1)
    /\ appended' = appended + 1
    /\ Goto(t, "wake")
    /\ after' = [after EXCEPT ![t] = "wake"]
    /\ ret' = [ret EXCEPT ![t] = pc[t]]
    /\ UNCHANGED <<pos, evFilter, destroyed, ssl, envVars, filter, events, item,
                   unshifted, called, wire, closes>>

\* Mutant: the item goes to the front.
PushFront(t) ==
    /\ InUserCode(t)
    /\ appended < MaxItems
    /\ queue' = <<appended + 1>> \o queue
    /\ appended' = appended + 1
    /\ Goto(t, "alive")
    /\ after' = [after EXCEPT ![t] = "wake"]
    /\ ret' = [ret EXCEPT ![t] = pc[t]]
    /\ UNCHANGED <<pos, evFilter, destroyed, ssl, envVars, filter, events, item,
                   unshifted, called, wire, closes>>

PushWriteQueue(t) ==
    /\ InUserCode(t)
    /\ appended < MaxItems
    /\ queue' = Append(queue, appended + 1)
    /\ appended' = appended + 1
    /\ Goto(t, "alive")
    /\ after' = [after EXCEPT ![t] = "wake"]
    /\ ret' = [ret EXCEPT ![t] = pc[t]]
    /\ UNCHANGED <<pos, evFilter, destroyed, ssl, envVars, filter, events, item,
                   unshifted, called, wire, closes>>

\* Mutant: the handshake item goes to the back.
AppendDummy ==
    /\ pc[Loop] = "unshift"
    /\ queue' = Append(queue, Dummy)
    /\ unshifted' = unshifted + 1
    /\ Goto(Loop, "alive")
    /\ after' = [after EXCEPT ![Loop] = "wake"]
    /\ UNCHANGED <<pos, evFilter, destroyed, ssl, envVars, ret, filter, events, item,
                   appended, called, wire, closes>>

UnshiftDummyWriteQueueItem ==
    /\ pc[Loop] = "unshift"
    /\ queue' = <<Dummy>> \o queue
    /\ unshifted' = unshifted + 1
    /\ Goto(Loop, "alive")
    /\ after' = [after EXCEPT ![Loop] = "wake"]
    /\ UNCHANGED <<pos, evFilter, destroyed, ssl, envVars, ret, filter, events, item,
                   appended, called, wire, closes>>

WakeLoop(t) ==
    /\ pc[t] = "wake"
    /\ woken' = TRUE
    /\ Goto(t, ret[t])
    /\ UNCHANGED <<clientVars, registered, open, swept, strayed, callVars, historyVars>>

-----------------------------------------------------------------------------
(* UpdateEvent.                                                             *)

IsAlive(t) ==
    /\ pc[t] = "alive"
    /\ Goto(t, IF destroyed THEN after[t] ELSE "should")
    /\ UNCHANGED <<clientVars, envVars, callVars, historyVars>>

ShouldWrite(t) ==
    /\ pc[t] = "should"
    /\ filter' = [filter EXCEPT ![t] =
                     {"READ"} \cup (IF queue # << >> THEN {"WRITE"} ELSE {})]
    /\ Goto(t, "compare")
    /\ UNCHANGED <<clientVars, envVars, after, ret, events, item, historyVars>>

\* Mutant: only an arming filter is handed to the loop.
SetEvFilterArmOnly(t) ==
    /\ pc[t] = "compare"
    /\ evFilter' = filter[t]
    /\ Goto(t, IF "WRITE" \in filter[t] \ evFilter THEN "add" ELSE after[t])
    /\ UNCHANGED <<queue, pos, destroyed, ssl, envVars, callVars, historyVars>>

SetEvFilter(t) ==
    /\ pc[t] = "compare"
    /\ evFilter' = filter[t]
    /\ Goto(t, IF filter[t] # evFilter THEN "add" ELSE after[t])
    /\ UNCHANGED <<queue, pos, destroyed, ssl, envVars, callVars, historyVars>>

\* TLoop::AddEvent (external) hands the node and its EvFilter to the kernel.  It
\* may fail on a descriptor that was removed or closed; when it comes after the
\* close, the number may have a new owner, and the kernel then keeps this node
\* for it.
AddEvent(t) ==
    /\ pc[t] = "add"
    /\ registered' \in {evFilter} \cup (IF open /\ registered # {} THEN {} ELSE {registered})
    /\ strayed' = (strayed \/ (~open /\ registered' # {}))
    /\ Goto(t, after[t])
    /\ UNCHANGED <<clientVars, open, swept, woken, callVars, historyVars>>

-----------------------------------------------------------------------------
(* Destroy.                                                                 *)

\* Mutants: every caller tears down; nobody does; the first does not wake the loop.
ExchangeUnchecked(t, r) ==
    /\ destroyed' = TRUE
    /\ Goto(t, "wakeDrop")
    /\ ret' = [ret EXCEPT ![t] = r]

ExchangeKeepsEvent(t, r) ==
    /\ destroyed' = TRUE
    /\ Goto(t, "wake")
    /\ ret' = [ret EXCEPT ![t] = r]

\* Destroyed.exchange(true) by thread t, to continue at step r.
Exchange(t, r) ==
    /\ destroyed' = TRUE
    /\ Goto(t, IF destroyed THEN "wake" ELSE "wakeDrop")
    /\ ret' = [ret EXCEPT ![t] = r]

Drop(t) ==
    /\ InUserCode(t)
    /\ t \in Droppers \cup {Loop}
    /\ Exchange(t, pc[t])
    /\ UNCHANGED <<queue, pos, evFilter, ssl, envVars, after, filter, events, item, historyVars>>

WakeFromDestroy(t) ==
    /\ pc[t] = "wakeDrop"
    /\ woken' = TRUE
    /\ Goto(t, "remove")
    /\ UNCHANGED <<clientVars, registered, open, swept, strayed, callVars, historyVars>>

RemoveEvent(t) ==
    /\ pc[t] = "remove"
    /\ registered' = {}
    /\ Goto(t, "close")
    /\ UNCHANGED <<clientVars, open, swept, woken, strayed, callVars, historyVars>>

\* The kernel forgets the registration of a closed descriptor.
Close(t) ==
    /\ pc[t] = "close"
    /\ open' = FALSE
    /\ closes' = closes + 1
    /\ registered' = {}
    /\ Goto(t, ret[t])
    /\ UNCHANGED <<clientVars, swept, woken, strayed, callVars, appended, unshifted, called, wire>>

-----------------------------------------------------------------------------
(* TClientThread::Run.                                                      *)

\* Mutant: the sweep keeps the dead and drops the live.
SweepAlive ==
    /\ pc[Loop] = "sweep"
    /\ swept' = (swept \/ ~destroyed)
    /\ Goto(Loop, "wait")
    /\ UNCHANGED <<clientVars, registered, open, woken, strayed, callVars, historyVars>>

Sweep ==
    /\ pc[Loop] = "sweep"
    /\ swept' = (swept \/ destroyed)
    /\ Goto(Loop, "wait")
    /\ UNCHANGED <<clientVars, registered, open, woken, strayed, callVars, historyVars>>

\* Wait() returns for a Wake() ...
WaitWoken ==
    /\ pc[Loop] = "wait"
    /\ woken
    /\ woken' = FALSE
    /\ Goto(Loop, "sweep")
    /\ UNCHANGED <<clientVars, registered, open, swept, strayed, callVars, historyVars>>

\* ... or for events of other nodes ...
WaitOther == Jump("wait", "sweep")

\* ... or the kernel reports events of this descriptor.  (When it strayed, a Cb of
\* a node that is freed by then is followed as if its memory were untouched.)
Poll(f) ==
    /\ pc[Loop] = "wait"
    /\ f # {} /\ f \subseteq registered
    /\ events' = f
    /\ Goto(Loop, "dispatch")
    /\ UNCHANGED <<clientVars, envVars, after, ret, filter, item, historyVars>>

-----------------------------------------------------------------------------
(* Cb: the read part, then the write part.                                  *)

WritePart == IF "WRITE" \in events THEN "write" ELSE "sweep"

Dispatch == Jump("dispatch", IF "READ" \in events THEN "read" ELSE WritePart)

ReadData == Jump("read", "ondata")

OnDataReturns == Jump("ondata", "read")

\* EAGAIN; SSL_ERROR_WANT_READ.
ReadAgain == Jump("read", WritePart)

\* SSL_ERROR_WANT_WRITE: a handshake item, unless one is in front already.
ReadWantsWrite ==
    /\ ssl
    /\ pc[Loop] = "read"
    /\ LET push == queue = << >> \/ Head(queue) # Dummy
       IN  /\ push => unshifted < MaxDummies
           /\ Goto(Loop, IF push THEN "unshift" ELSE WritePart)
    /\ ret' = [ret EXCEPT ![Loop] = WritePart]
    /\ UNCHANGED <<clientVars, envVars, after, filter, events, item, historyVars>>

\* End of file, or an error that is neither EAGAIN nor EINTR.
ReadFails ==
    /\ pc[Loop] = "read"
    /\ Exchange(Loop, "sweep")
    /\ UNCHANGED <<queue, pos, evFilter, ssl, envVars, after, filter, events, item, historyVars>>

\* Mutant: an empty queue does not disarm WRITE.
GetWriteItemNoUpdate ==
    /\ pc[Loop] = "write"
    /\ IF queue = << >>
         THEN /\ Goto(Loop, "sweep")
              /\ after' = [after EXCEPT ![Loop] = "sweep"]
              /\ item' = item
         ELSE /\ Goto(Loop, "writing")
              /\ item' = Head(queue)
              /\ after' = after
    /\ UNCHANGED <<clientVars, envVars, ret, filter, events, historyVars>>

GetWriteItem ==
    /\ pc[Loop] = "write"
    /\ IF queue = << >>
         THEN /\ Goto(Loop, "alive")
              /\ after' = [after EXCEPT ![Loop] = "sweep"]
              /\ item' = item
         ELSE /\ Goto(Loop, "writing")
              /\ item' = Head(queue)
              /\ after' = after
    /\ UNCHANGED <<clientVars, envVars, ret, filter, events, historyVars>>

\* One write(2) of Write(): n bytes of the item; they reach the peer only
\* while the descriptor is this connection's.
WriteSome ==
    /\ pc[Loop] = "writing"
    /\ item # Dummy
    /\ \E n \in 1..(Size[item] - pos[item]) :
         /\ pos' = [pos EXCEPT ![item] = @ + n]
         /\ wire' = IF open THEN wire \o [k \in 1..n |-> item] ELSE wire
    /\ UNCHANGED <<queue, evFilter, destroyed, ssl, envVars, pc, callVars,
                   appended, unshifted, called, closes>>

\* Mutant: an item counts as written after any write.
WrittenPartly ==
    /\ pc[Loop] = "writing"
    /\ IF item = Dummy
         THEN Goto(Loop, "pop") /\ called' = called
         ELSE Goto(Loop, "callback") /\ called' = Append(called, item)
    /\ UNCHANGED <<clientVars, envVars, callVars, appended, unshifted, wire, closes>>

\* Write() is through with the item, or SSL_do_handshake is done.
Written ==
    /\ pc[Loop] = "writing"
    /\ item # Dummy => pos[item] >= Size[item]
    /\ IF item = Dummy
         THEN Goto(Loop, "pop") /\ called' = called
         ELSE Goto(Loop, "callback") /\ called' = Append(called, item)
    /\ UNCHANGED <<clientVars, envVars, callVars, appended, unshifted, wire, closes>>

CallbackReturns == Jump("callback", "pop")

PopWriteItem ==
    /\ pc[Loop] = "pop"
    /\ queue' = Tail(queue)
    /\ Goto(Loop, "write")
    /\ UNCHANGED <<pos, evFilter, destroyed, ssl, envVars, callVars, historyVars>>

\* Write() made a system call: an item with nothing left makes none.
Unfinished == item # Dummy => pos[item] < Size[item]

WriteAgain ==
    /\ Unfinished
    /\ Jump("writing", "sweep")

WriteInterrupted ==
    /\ Unfinished /\ ~ssl
    /\ Jump("writing", "write")

\* SSL_ERROR_WANT_WRITE of SSL_do_handshake: one more handshake item.
HandshakeWantsWrite ==
    /\ pc[Loop] = "writing"
    /\ item = Dummy
    /\ unshifted < MaxDummies
    /\ Goto(Loop, "unshift")
    /\ ret' = [ret EXCEPT ![Loop] = "sweep"]
    /\ UNCHANGED <<clientVars, envVars, after, filter, events, item, historyVars>>

WriteFails ==
    /\ pc[Loop] = "writing"
    /\ Unfinished
    /\ Exchange(Loop, "sweep")
    /\ UNCHANGED <<queue, pos, evFilter, ssl, envVars, after, filter, events, item, historyVars>>

-----------------------------------------------------------------------------
Call(t) ==
    \/ PushWriteQueue(t) \/ Drop(t)

Step(t) ==
    \/ WakeLoop(t) \/ IsAlive(t) \/ ShouldWrite(t) \/ SetEvFilter(t) \/ AddEvent(t)
    \/ WakeFromDestroy(t) \/ RemoveEvent(t) \/ Close(t)

LoopStep ==
    \/ UnshiftDummyWriteQueueItem
    \/ Sweep \/ WaitWoken \/ WaitOther \/ (\E f \in SUBSET {"READ", "WRITE"} : Poll(f))
    \/ Dispatch
    \/ ReadData \/ OnDataReturns \/ ReadAgain \/ ReadWantsWrite \/ ReadFails
    \/ GetWriteItem \/ WriteSome \/ Written \/ CallbackReturns \/ PopWriteItem
    \/ WriteAgain \/ WriteInterrupted \/ HandshakeWantsWrite \/ WriteFails

Next == (\E t \in Threads : Call(t) \/ Step(t)) \/ LoopStep

Spec == Init /\ [][Next]_vars

(***************************************************************************)
(* Fairness.  Threads run, handlers and callbacks return, and a pending    *)
(* Wake() ends a Wait().  The registration is level-triggered: a wait that *)
(* starts over and over reports WRITE as long as it is registered and the  *)
(* peer takes data.  A socket does not answer EAGAIN, or have more to      *)
(* read, for ever.                                                         *)
(***************************************************************************)
LoopRuns ==
    UnshiftDummyWriteQueueItem \/ Sweep \/ Dispatch \/ OnDataReturns \/ GetWriteItem
      \/ CallbackReturns \/ PopWriteItem

Fairness ==
    /\ \A t \in Threads : WF_vars(Step(t))
    /\ SF_vars(LoopRuns)
    /\ SF_vars(WaitWoken)
    /\ SF_vars(Poll({"WRITE"}) \/ Poll({"READ", "WRITE"}))
    /\ SF_vars(ReadAgain)
    /\ SF_vars(WriteSome)
    /\ SF_vars(Written)

FairSpec == Spec /\ Fairness

-----------------------------------------------------------------------------
(* Properties.                                                              *)

\* Every variable has its type.
TypeOK ==
    /\ queue \in Seq(Items \cup {Dummy})
    /\ pos \in [Items -> Nat]
    /\ evFilter \in Filters
    /\ registered \in Filters \cup {{}}
    /\ destroyed \in BOOLEAN /\ open \in BOOLEAN /\ swept \in BOOLEAN /\ woken \in BOOLEAN
    /\ strayed \in BOOLEAN
    /\ ssl \in BOOLEAN
    /\ pc \in [Threads -> Steps]
    /\ after \in [Threads -> {"wake", "sweep"}]
    /\ ret \in [Threads -> {"idle", "wait", "ondata", "callback", "write", "sweep"}]
    /\ filter \in [Threads -> Filters]
    /\ events \in SUBSET {"READ", "WRITE"}
    /\ item \in Items \cup {Dummy}
    /\ appended \in 0..MaxItems
    /\ unshifted \in 0..MaxDummies
    /\ called \in Seq(Items)
    /\ wire \in Seq(Items)
    /\ closes \in Nat

\* The write queue, its handshake items and the threads around it implement
\* the ordered channel of WriteChannel: bytes of two items are never
\* interleaved on the wire, and callbacks run once each, in push order.
Channel == INSTANCE WriteChannel
             WITH accepted <- appended, completed <- Len(called)

ImplementsChannel == Channel!Spec

\* The deque holds the handshake items first and then, in the order of their
\* pushes, every item whose turn has not passed: none lost, none twice.  The
\* item that Cb holds outside of the lock is still the front one when popped.
QueueInOrder ==
    /\ \A k \in DOMAIN queue :
          queue[k] = Dummy \/ queue[k] = appended - (Len(queue) - k)
    /\ \A j, k \in DOMAIN queue : j < k /\ queue[k] = Dummy => queue[j] = Dummy
    /\ pc[Loop] = "pop" => queue # << >> /\ Head(queue) = item

\* Callbacks run once per item and in the order of the pushes, handshake
\* items and pushes made from within a callback included.
CallbacksInOrder == \A k \in DOMAIN called : called[k] = k

\* However many threads drop the client, its descriptor (a number the
\* process reuses) is closed once, by the thread that won the exchange.
ClosedOnce == closes = (IF open THEN 0 ELSE 1)

\* The event loop keeps a plain pointer to the node: while the node is registered,
\* something still owns the client.  There is one way out of this, and it takes two
\* threads: an UpdateEvent that found the client alive reaches the loop after another
\* thread closed the descriptor and its number has a new owner.
RegisteredNodeIsOwned == registered # {} => Referenced \/ (strayed /\ Workers # {})

\* Cb only ever runs on a client that something owns, whatever the workers'
\* pushes and the sweeping of ActiveClients do.
CbOnOwnedClient == pc[Loop] \in CbSteps => Referenced

\* When no UpdateEvent is under way, the kernel waits for what EvFilter says.
FilterIsRegistered ==
    (~destroyed /\ \A t \in Threads : pc[t] \notin UpdateSteps) => registered = evFilter

\* When the client is used from the loop's thread only, a loop that waits has
\* the descriptor armed for writing exactly when there is something to write:
\* neither a stuck item nor a loop that spins on a writable socket.
ArmedWhenPending ==
    (pc[Loop] = "wait" /\ ~destroyed) => ("WRITE" \in registered <=> queue # << >>)

\* When the client is used from the loop's thread only, every item pushed is
\* written and called back, unless the connection is dropped first.
EveryItemCompletes ==
    \A i \in Items : appended >= i ~> (Len(called) >= i \/ destroyed)
=============================================================================
