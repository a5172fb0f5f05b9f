---------------------------- MODULE ClientThread ----------------------------
(***************************************************************************)
(* How a connection gets from accept(2) to the client that serves it:      *)
(* TAcceptor::Cb in the thread of TServer::Run (net/server/server.cpp),    *)
(* the queue, spin lock and trigger of each TClientThread, and the         *)
(* thread's own loop, Accept and sweep (net/server/client_thread.cpp).     *)
(* What a client does with its socket is NetClient; here a live client may *)
(* run its Cb, drop itself, or Connect to a peer.                          *)
(***************************************************************************)
EXTENDS Naturals, Sequences, FiniteSets

CONSTANTS ThreadCount,  \* the number of client threads
          Incoming,     \* connections that peers open
          Outgoing,     \* connections that clients open with Connect
          MaxFailures,  \* bound: factories or OnWire handlers that throw
          NoConn        \* no connection: not one of the others

ASSUME ThreadsAssumption == ThreadCount \in Nat \ {0}
ASSUME ConnsAssumption ==
    Incoming \cap Outgoing = {} /\ NoConn \notin Incoming \cup Outgoing
ASSUME FailuresAssumption == MaxFailures \in Nat

Conns   == Incoming \cup Outgoing
Threads == 0..(ThreadCount - 1)

VARIABLES
    acceptor,   \* the step of TAcceptor::Cb and the connection it holds
    next,       \* TRoundRobinVector: the thread the next connection goes to
    queue,      \* queue[t]: Args->Queue of thread t
    mutex,      \* mutex[t]: who holds Args->Mutex: "free", "acceptor", "thread"
    triggered,  \* triggered[t]: Acceptor->Trigger() not yet served
    pc,         \* the step of each client thread
    current,    \* current[t]: Accept's newClient
    active,     \* active[t][c]: how often c is in ActiveClients, whose order is irrelevant
    fd,         \* fd[c]: "none", "open" or "closed"
    alive,      \* the clients made and not dropped
    woken,      \* woken[t]: a Wake() that Wait() has not returned for
    leaked,     \* history: connections whose factory or OnWire threw
    stranded    \* history: threads whose last Accept ended by an exception

vars == <<acceptor, next, queue, mutex, triggered, pc, current, active, fd, alive,
          woken, leaked, stranded>>

acceptVars == <<acceptor, next>>

Init ==
    /\ acceptor = [at |-> "wait", conn |-> NoConn]
    /\ next = 0
    /\ queue = [t \in Threads |-> << >>]
    /\ mutex = [t \in Threads |-> "free"]
    /\ triggered = [t \in Threads |-> FALSE]
    /\ pc = [t \in Threads |-> "sweep"]
    /\ current = [t \in Threads |-> NoConn]
    /\ active = [t \in Threads |-> [c \in Conns |-> 0]]
    /\ fd = [c \in Conns |-> "none"]
    /\ alive = {}
    /\ woken = [t \in Threads |-> FALSE]
    /\ leaked = {}
    /\ stranded = {}

Set(f, t, v) == [f EXCEPT ![t] = v]

-----------------------------------------------------------------------------
(* TAcceptor::Cb: accept, pick a thread, and under its lock push and trigger.*)

AcceptorAccepts(c) ==
    /\ acceptor.at = "wait"
    /\ c \in Incoming /\ fd[c] = "none"
    /\ fd' = Set(fd, c, "open")
    /\ acceptor' = [at |-> "lock", conn |-> c]
    /\ UNCHANGED <<next, queue, mutex, triggered, pc, current, active, alive, woken,
                   leaked, stranded>>

AcceptorLocks ==
    /\ acceptor.at = "lock"
    /\ mutex[next] = "free"
    /\ mutex' = Set(mutex, next, "acceptor")
    /\ acceptor' = [acceptor EXCEPT !.at = "push"]
    /\ UNCHANGED <<next, queue, triggered, pc, current, active, fd, alive, woken,
                   leaked, stranded>>

AcceptorPushes ==
    /\ acceptor.at = "push"
    /\ queue' = Set(queue, next, Append(queue[next], acceptor.conn))
    /\ acceptor' = [at |-> "trigger", conn |-> NoConn]
    /\ UNCHANGED <<next, mutex, triggered, pc, current, active, fd, alive, woken,
                   leaked, stranded>>

\* Mutant: the round robin has moved on before the trigger.
AcceptorTriggersNext ==
    /\ acceptor.at = "trigger"
    /\ triggered' = Set(triggered, (next + 1) % ThreadCount, TRUE)
    /\ stranded' = stranded \ {next}
    /\ mutex' = Set(mutex, next, "free")
    /\ next' = (next + 1) % ThreadCount
    /\ acceptor' = [acceptor EXCEPT !.at = "wait"]
    /\ UNCHANGED <<queue, pc, current, active, fd, alive, woken, leaked>>

\* TriggerAcceptor, then the end of the guard's scope.
AcceptorTriggers ==
    /\ acceptor.at = "trigger"
    /\ triggered' = Set(triggered, next, TRUE)
    /\ stranded' = stranded \ {next}
    /\ mutex' = Set(mutex, next, "free")
    /\ next' = (next + 1) % ThreadCount
    /\ acceptor' = [acceptor EXCEPT !.at = "wait"]
    /\ UNCHANGED <<queue, pc, current, active, fd, alive, woken, leaked>>

-----------------------------------------------------------------------------
(* TClientThread::Run.                                                      *)

\* Mutant: the rebuilt list is not swapped in.
SweepNothing(t) ==
    /\ pc[t] = "sweep"
    /\ active' = Set(active, t, active[t])
    /\ pc' = Set(pc, t, "wait")
    /\ UNCHANGED <<acceptVars, queue, mutex, triggered, current, fd, alive, woken,
                   leaked, stranded>>

\* ActiveClients is rebuilt without the clients that were dropped.
Sweep(t) ==
    /\ pc[t] = "sweep"
    /\ active' = Set(active, t, [c \in Conns |-> IF c \in alive THEN active[t][c] ELSE 0])
    /\ pc' = Set(pc, t, "wait")
    /\ UNCHANGED <<acceptVars, queue, mutex, triggered, current, fd, alive, woken,
                   leaked, stranded>>

WaitReturns(t) ==
    /\ pc[t] = "wait"
    /\ woken[t]
    /\ woken' = Set(woken, t, FALSE)
    /\ pc' = Set(pc, t, "sweep")
    /\ UNCHANGED <<acceptVars, queue, mutex, triggered, current, active, fd, alive,
                   leaked, stranded>>

\* A dispatched client drops itself: its Destroy wakes the loop.
ClientDrops(t, c) ==
    /\ pc[t] = "wait"
    /\ c \in alive /\ active[t][c] > 0
    /\ alive' = alive \ {c}
    /\ fd' = Set(fd, c, "closed")
    /\ woken' = Set(woken, t, TRUE)
    /\ UNCHANGED <<acceptVars, queue, mutex, triggered, pc, current, active,
                   leaked, stranded>>

\* A dispatched client Connects: the new client shares its loop and AddClient.
ClientConnects(t, c) ==
    /\ pc[t] = "wait"
    /\ \E d \in alive : active[t][d] > 0
    /\ c \in Outgoing /\ fd[c] = "none"
    /\ fd' = Set(fd, c, "open")
    /\ alive' = alive \cup {c}
    /\ active' = [active EXCEPT ![t][c] = @ + 1]
    /\ UNCHANGED <<acceptVars, queue, mutex, triggered, pc, current, woken,
                   leaked, stranded>>

-----------------------------------------------------------------------------
(* TClientThread::Accept, called for the trigger from inside Wait().        *)

AcceptStarts(t) ==
    /\ pc[t] = "wait"
    /\ triggered[t]
    /\ triggered' = Set(triggered, t, FALSE)
    /\ pc' = Set(pc, t, "lock")
    /\ UNCHANGED <<acceptVars, queue, mutex, current, active, fd, alive, woken,
                   leaked, stranded>>

AcceptLocks(t) ==
    /\ pc[t] = "lock"
    /\ mutex[t] = "free"
    /\ mutex' = Set(mutex, t, "thread")
    /\ pc' = Set(pc, t, "take")
    /\ UNCHANGED <<acceptVars, queue, triggered, current, active, fd, alive, woken,
                   leaked, stranded>>

\* Mutant: the entry stays in the queue.
AcceptPeeks(t) ==
    /\ pc[t] = "take"
    /\ queue[t] # << >>
    /\ current' = Set(current, t, Head(queue[t]))
    /\ queue' = Set(queue, t, queue[t])
    /\ pc' = Set(pc, t, "make")
    /\ UNCHANGED <<acceptVars, mutex, triggered, active, fd, alive, woken,
                   leaked, stranded>>

AcceptTakes(t) ==
    /\ pc[t] = "take"
    /\ queue[t] # << >>
    /\ current' = Set(current, t, Head(queue[t]))
    /\ queue' = Set(queue, t, Tail(queue[t]))
    /\ pc' = Set(pc, t, "make")
    /\ UNCHANGED <<acceptVars, mutex, triggered, active, fd, alive, woken,
                   leaked, stranded>>

\* ClientFactory, the client's constructor included.
AcceptMakes(t) ==
    /\ pc[t] = "make"
    /\ alive' = alive \cup {current[t]}
    /\ pc' = Set(pc, t, "wire")
    /\ UNCHANGED <<acceptVars, queue, mutex, triggered, current, active, fd, woken,
                   leaked, stranded>>

\* addClient: SetWeakPtr, OnWire (which may drop the client), ActiveClients.
AcceptWires(t) ==
    /\ pc[t] = "wire"
    /\ active' = [active EXCEPT ![t][current[t]] = @ + 1]
    /\ current' = Set(current, t, NoConn)
    /\ \/ UNCHANGED <<alive, fd, woken>>
       \/ /\ alive' = alive \ {current[t]}
          /\ fd' = Set(fd, current[t], "closed")
          /\ woken' = Set(woken, t, TRUE)
    /\ pc' = Set(pc, t, "take")
    /\ UNCHANGED <<acceptVars, queue, mutex, triggered, leaked, stranded>>

\* ClientFactory or OnWire throws; Accept unwinds, and the trigger's handler
\* swallows the exception.  Nothing closes the descriptor.
AcceptThrows(t) ==
    /\ pc[t] \in {"make", "wire"}
    /\ Cardinality(leaked) < MaxFailures
    /\ leaked' = leaked \cup {current[t]}
    /\ stranded' = stranded \cup {t}
    /\ alive' = alive \ {current[t]}
    /\ current' = Set(current, t, NoConn)
    /\ mutex' = Set(mutex, t, "free")
    /\ pc' = Set(pc, t, "sweep")
    /\ UNCHANGED <<acceptVars, queue, triggered, active, fd, woken>>

\* Mutant: one connection per trigger.
AcceptEndsAfterOne(t) ==
    /\ pc[t] = "take"
    /\ mutex' = Set(mutex, t, "free")
    /\ stranded' = stranded \ {t}
    /\ pc' = Set(pc, t, "sweep")
    /\ UNCHANGED <<acceptVars, queue, triggered, current, active, fd, alive, woken, leaked>>

AcceptEnds(t) ==
    /\ pc[t] = "take"
    /\ queue[t] = << >>
    /\ mutex' = Set(mutex, t, "free")
    /\ stranded' = stranded \ {t}
    /\ pc' = Set(pc, t, "sweep")
    /\ UNCHANGED <<acceptVars, queue, triggered, current, active, fd, alive, woken, leaked>>

-----------------------------------------------------------------------------
Acceptor == (\E c \in Incoming : AcceptorAccepts(c))
              \/ AcceptorLocks \/ AcceptorPushes \/ AcceptorTriggers

Accept(t) == \/ AcceptLocks(t) \/ AcceptTakes(t) \/ AcceptMakes(t) \/ AcceptWires(t)
             \/ AcceptThrows(t) \/ AcceptEnds(t)

Thread(t) == \/ Sweep(t) \/ WaitReturns(t) \/ AcceptStarts(t) \/ Accept(t)
             \/ \E c \in Conns : ClientDrops(t, c) \/ ClientConnects(t, c)

Next == Acceptor \/ \E t \in Threads : Thread(t)

Spec == Init /\ [][Next]_vars

\* Threads run and handlers return.  The lock is a spin lock: the acceptor gets
\* it because it is free again and again, not because it queues for it.
Fairness ==
    /\ SF_vars(AcceptorLocks)
    /\ WF_vars(AcceptorPushes \/ AcceptorTriggers)
    /\ \A t \in Threads :
          /\ WF_vars(Sweep(t) \/ AcceptTakes(t) \/ AcceptMakes(t) \/ AcceptWires(t) \/ AcceptEnds(t))
          /\ WF_vars(WaitReturns(t))
          /\ SF_vars(AcceptStarts(t))
          /\ SF_vars(AcceptLocks(t))

FairSpec == Spec /\ Fairness

-----------------------------------------------------------------------------
(* Properties.                                                              *)

\* Every variable has its type.
TypeOK ==
    /\ acceptor \in [at : {"wait", "lock", "push", "trigger"}, conn : Incoming \cup {NoConn}]
    /\ next \in Threads
    /\ queue \in [Threads -> Seq(Incoming)]
    /\ mutex \in [Threads -> {"free", "acceptor", "thread"}]
    /\ triggered \in [Threads -> BOOLEAN] /\ woken \in [Threads -> BOOLEAN]
    /\ pc \in [Threads -> {"sweep", "wait", "lock", "take", "make", "wire"}]
    /\ current \in [Threads -> Incoming \cup {NoConn}]
    /\ active \in [Threads -> [Conns -> Nat]]
    /\ fd \in [Conns -> {"none", "open", "closed"}]
    /\ alive \subseteq Conns
    /\ leaked \subseteq Incoming
    /\ stranded \subseteq Threads

Queued(t, c) == \E k \in DOMAIN queue[t] : queue[t][k] = c

\* The places that refer to connection c.
Holders(c) ==
    {h \in {"acceptor", "queue", "current", "active"} \X Threads :
        \/ h[1] = "acceptor" /\ h[2] = next /\ acceptor.conn = c
        \/ h[1] = "queue" /\ Queued(h[2], c)
        \/ h[1] = "current" /\ current[h[2]] = c
        \/ h[1] = "active" /\ active[h[2]][c] > 0}

\* An open connection is always in one place, and there once, whichever of the
\* two threads is in the middle of passing it on, and never with two client
\* threads; only a handler that throws loses one.
OneOwner ==
    \A c \in Conns :
        /\ \A g, h \in Holders(c) : g = h
        /\ \A t \in Threads : active[t][c] <= 1
        /\ \A t \in Threads : \A j, k \in DOMAIN queue[t] :
              queue[t][j] = c /\ queue[t][k] = c => j = k
        /\ fd[c] = "open" => (Holders(c) # {} <=> c \notin leaked)
        /\ c \in alive => fd[c] = "open"

\* A thread that goes to sleep on a nonempty queue has a trigger to come,
\* unless its last Accept was ended by an exception: pushing and triggering
\* under the lock that Accept drains the queue under loses no wake-up.
NoLostTrigger ==
    \A t \in Threads :
        (pc[t] = "wait" /\ queue[t] # << >> /\ t \notin stranded) =>
            triggered[t] \/ (acceptor.at = "trigger" /\ next = t)

\* A thread drains its queue, unless an exception of one connection's handler
\* strands the connections behind it.
QueueIsDrained ==
    \A t \in Threads : queue[t] # << >> ~> (queue[t] = << >> \/ t \in stranded)

\* Clients that were dropped, in their Cb or as soon as OnWire, are swept.
DroppedAreSwept ==
    \A t \in Threads :
        (\E c \in Conns : active[t][c] > 0 /\ c \notin alive)
          ~> (\A c \in Conns : active[t][c] > 0 => c \in alive)
=============================================================================
