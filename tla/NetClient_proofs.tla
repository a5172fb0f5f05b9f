--------------------------- MODULE NetClient_proofs ---------------------------
(***************************************************************************)
(* Proofs about NetClient, for every set of worker threads, with or        *)
(* without SSL, and every number and size of the items.                    *)
(***************************************************************************)
EXTENDS NetClient, FiniteSetTheorems, SequenceTheorems, TLAPS

(***************************************************************************)
(* The inductive invariant.                                                *)
(***************************************************************************)

\* A worker only ever is in the steps of PushWriteQueue and Destroy.
WorkersInv ==
    \A w \in Workers :
        /\ pc[w] \in {"idle", "wake"} \cup UpdateSteps \cup DropSteps
        /\ ret[w] = "idle"
        /\ after[w] = "wake"

\* Cb has taken the front item and not yet popped it: also while a callback
\* of the item has called into the client.
Holding ==
    \/ pc[Loop] \in {"writing", "callback", "pop"}
    \/ pc[Loop] \in {"wake"} \cup DropSteps /\ ret[Loop] = "callback"
    \/ pc[Loop] \in UpdateSteps /\ after[Loop] = "wake" /\ ret[Loop] = "callback"

\* The item Cb works on outside of the lock stays the front of the queue.
HoldInv ==
    Holding => queue # << >> /\ Head(queue) = item

\* The loop thread puts a handshake item in front from Cb only.
UnshiftInv ==
    pc[Loop] = "unshift" => ret[Loop] \in {"write", "sweep"} /\ unshifted < MaxDummies

TypeInv == TypeOK /\ WorkersInv /\ HoldInv /\ UnshiftInv

\* Of the threads that drop the client one tears it down.
TearDownInv ==
    /\ ~destroyed => open /\ ~swept /\ \A t \in Threads : pc[t] \notin DropSteps
    /\ \A t \in Threads : pc[t] \in DropSteps => open
    /\ \A t, u \in Threads : pc[t] \in DropSteps /\ pc[u] \in DropSteps => t = u
    /\ destroyed /\ open => \E t \in Threads : pc[t] \in DropSteps
    /\ pc[Loop] \in DropSteps => ~swept
    /\ ~open => registered = {} \/ strayed
    /\ ClosedOnce

\* Between IsAlive and AddEvent only another thread can drop the client: with none, no
\* registration comes late.
StrayInv ==
    Workers = {} => ~strayed /\ (pc[Loop] \in UpdateSteps \ {"alive"} => ~destroyed)

\* A step keeps the types.
LEMMA TypeOKStep ==
    ASSUME TypeInv, [Next]_vars
    PROVE  TypeOK'
<1> USE DEF vars, clientVars, envVars, callVars, historyVars, Goto, Threads, Steps,
   CbSteps, UpdateSteps, DropSteps, TypeOK, TypeInv, Filters, Items, Dummy
<1>1. ASSUME NEW t \in Threads, PushWriteQueue(t) PROVE TypeOK'
  <2>1. queue' \in Seq(Items \cup {Dummy}) /\ appended' \in 0..MaxItems
    BY <1>1, BoundsAssumption DEF PushWriteQueue
  <2>2. pc[t] \in {"idle", "wait", "ondata", "callback"}
    BY <1>1 DEF PushWriteQueue, InUserCode
  <2>3. /\ pc' \in [Threads -> Steps]
        /\ after' \in [Threads -> {"wake", "sweep"}]
        /\ ret' \in [Threads -> {"idle", "wait", "ondata", "callback", "write", "sweep"}]
    BY <1>1, <2>2 DEF PushWriteQueue
  <2>4. QED
    BY <1>1, <2>1, <2>3 DEF PushWriteQueue
<1>2. ASSUME NEW t \in Threads, Drop(t) PROVE TypeOK'
  <2>1. pc[t] \in {"idle", "wait", "ondata", "callback"}
    BY <1>2 DEF Drop, InUserCode
  <2>2. /\ pc' \in [Threads -> Steps]
        /\ ret' \in [Threads -> {"idle", "wait", "ondata", "callback", "write", "sweep"}]
    BY <1>2, <2>1 DEF Drop, Exchange
  <2>3. QED
    BY <1>2, <2>2 DEF Drop, Exchange
<1>3. ASSUME NEW t \in Threads, WakeLoop(t) PROVE TypeOK'
  BY <1>3, ThreadsAssumption, BoundsAssumption DEF WakeLoop
<1>4. ASSUME NEW t \in Threads, IsAlive(t) PROVE TypeOK'
  BY <1>4, ThreadsAssumption, BoundsAssumption DEF IsAlive
<1>5. ASSUME NEW t \in Threads, ShouldWrite(t) PROVE TypeOK'
  BY <1>5, ThreadsAssumption, BoundsAssumption DEF ShouldWrite
<1>6. ASSUME NEW t \in Threads, SetEvFilter(t) PROVE TypeOK'
  <2>1. evFilter' \in Filters \ {{}}
    BY <1>6 DEF SetEvFilter
  <2>2. QED
    BY <1>6, <2>1 DEF SetEvFilter
<1>7. ASSUME NEW t \in Threads, AddEvent(t) PROVE TypeOK'
  BY <1>7, ThreadsAssumption, BoundsAssumption DEF AddEvent
<1>8. ASSUME NEW t \in Threads, WakeFromDestroy(t) PROVE TypeOK'
  BY <1>8, ThreadsAssumption, BoundsAssumption DEF WakeFromDestroy
<1>9. ASSUME NEW t \in Threads, RemoveEvent(t) PROVE TypeOK'
  BY <1>9, ThreadsAssumption, BoundsAssumption DEF RemoveEvent
<1>10. ASSUME NEW t \in Threads, Close(t) PROVE TypeOK'
  <2>1. ret[t] \in Steps /\ closes' \in Nat
    BY <1>10 DEF Close
  <2>2. QED
    BY <1>10, <2>1 DEF Close
<1>11. CASE UnshiftDummyWriteQueueItem
  <2>1. queue' \in Seq(Items \cup {Dummy})
    BY <1>11, BoundsAssumption DEF UnshiftDummyWriteQueueItem
  <2>2. unshifted' \in 0..MaxDummies
    BY <1>11, BoundsAssumption DEF UnshiftDummyWriteQueueItem, UnshiftInv
  <2>3. QED
    BY <1>11, <2>1, <2>2, ThreadsAssumption DEF UnshiftDummyWriteQueueItem
<1>12. CASE Sweep
  BY <1>12, ThreadsAssumption, BoundsAssumption DEF Sweep
<1>13. CASE WaitWoken
  BY <1>13, ThreadsAssumption, BoundsAssumption DEF WaitWoken
<1>14. CASE WaitOther
  BY <1>14, ThreadsAssumption, BoundsAssumption DEF WaitOther, Jump
<1>15. ASSUME NEW f \in SUBSET {"READ", "WRITE"}, Poll(f) PROVE TypeOK'
  BY <1>15, ThreadsAssumption, BoundsAssumption DEF Poll
<1>16. CASE Dispatch
  BY <1>16, ThreadsAssumption, BoundsAssumption DEF Dispatch, Jump, WritePart
<1>17. CASE ReadData
  BY <1>17, ThreadsAssumption, BoundsAssumption DEF ReadData, Jump
<1>18. CASE OnDataReturns
  BY <1>18, ThreadsAssumption, BoundsAssumption DEF OnDataReturns, Jump
<1>19. CASE ReadAgain
  BY <1>19, ThreadsAssumption, BoundsAssumption DEF ReadAgain, Jump, WritePart
<1>20. CASE ReadWantsWrite
  BY <1>20, ThreadsAssumption, BoundsAssumption DEF ReadWantsWrite, WritePart
<1>21. CASE ReadFails
  BY <1>21, ThreadsAssumption, BoundsAssumption DEF ReadFails, Exchange
<1>22. CASE GetWriteItem
  <2>1. item' \in Items \cup {Dummy}
    BY <1>22 DEF GetWriteItem
  <2>2. pc' \in [Threads -> Steps]
    BY <1>22, ThreadsAssumption DEF GetWriteItem
  <2>3. after' \in [Threads -> {"wake", "sweep"}]
    BY <1>22, ThreadsAssumption DEF GetWriteItem
  <2>4. QED
    BY <1>22, <2>1, <2>2, <2>3 DEF GetWriteItem
<1>23. CASE WriteSome
  <2>1. item \in Items
    BY <1>23 DEF WriteSome
  <2>2. PICK n \in 1..(Size[item] - pos[item]) :
           /\ pos' = [pos EXCEPT ![item] = @ + n]
           /\ wire' = IF open THEN wire \o [k \in 1..n |-> item] ELSE wire
    BY <1>23 DEF WriteSome
  <2>3. Size[item] \in Nat
    BY <2>1, SizeAssumption
  <2>4. n \in Nat
    BY <2>1, <2>2, <2>3
  <2>5. [k \in 1..n |-> item] \in Seq(Items)
    BY <2>1, <2>4
  <2>6. wire' \in Seq(Items)
    <3>1. wire \o [k \in 1..n |-> item] \in Seq(Items)
      BY <2>5, ConcatProperties
    <3>2. QED
      BY <2>2, <3>1
  <2>7. pos' \in [Items -> Nat]
    <3>1. pos[item] \in Nat
      BY <2>1
    <3>2. pos[item] + n \in Nat
      BY <2>4, <3>1
    <3>3. QED
      BY <2>1, <2>2, <3>2
  <2>8. UNCHANGED <<queue, evFilter, destroyed, ssl, envVars, pc, callVars, appended, unshifted,
                    called, closes>>
    BY <1>23 DEF WriteSome
  <2>9. QED
    BY <2>6, <2>7, <2>8
<1>24. CASE Written
  <2>1. called' \in Seq(Items)
    <3>1. CASE item = Dummy
      BY <1>24, <3>1 DEF Written
    <3>2. CASE item # Dummy
      <4>1. item \in Items
        BY <3>2
      <4>2. called' = Append(called, item)
        BY <1>24, <3>2 DEF Written
      <4>3. QED
        BY <4>1, <4>2
    <3>3. QED
      BY <3>1, <3>2
  <2>2. QED
    BY <1>24, <2>1, ThreadsAssumption DEF Written
<1>25. CASE CallbackReturns
  BY <1>25, ThreadsAssumption, BoundsAssumption DEF CallbackReturns, Jump
<1>26. CASE PopWriteItem
  <2>1. queue # << >>
    BY <1>26 DEF PopWriteItem, HoldInv, Holding
  <2>2. queue' \in Seq(Items \cup {Dummy})
    BY <1>26, <2>1 DEF PopWriteItem
  <2>3. QED
    BY <1>26, <2>2, ThreadsAssumption DEF PopWriteItem
<1>27. CASE WriteAgain
  BY <1>27, ThreadsAssumption, BoundsAssumption DEF WriteAgain, Jump, Unfinished
<1>28. CASE WriteInterrupted
  BY <1>28, ThreadsAssumption, BoundsAssumption DEF WriteInterrupted, Jump, Unfinished
<1>29. CASE HandshakeWantsWrite
  BY <1>29, ThreadsAssumption, BoundsAssumption DEF HandshakeWantsWrite
<1>30. CASE WriteFails
  BY <1>30, ThreadsAssumption, BoundsAssumption DEF WriteFails, Exchange, Unfinished
<1>31. CASE UNCHANGED vars
  BY <1>31, ThreadsAssumption, BoundsAssumption
<1>32. QED
  BY <1>1, <1>2, <1>3, <1>4, <1>5, <1>6, <1>7, <1>8, <1>9, <1>10, <1>11, <1>12, <1>13,
     <1>14, <1>15, <1>16, <1>17, <1>18, <1>19, <1>20, <1>21, <1>22, <1>23, <1>24, <1>25,
     <1>26, <1>27, <1>28, <1>29, <1>30, <1>31 DEF Next, Call, Step, LoopStep

\* A step keeps the workers out of the loop thread's steps.
LEMMA WorkersStep ==
    ASSUME TypeInv, [Next]_vars
    PROVE  WorkersInv'
<1> USE DEF vars, clientVars, envVars, callVars, historyVars, Goto, Threads, Steps,
   CbSteps, UpdateSteps, DropSteps, TypeInv, TypeOK, WorkersInv, InUserCode
<1>1. ASSUME NEW t \in Threads, PushWriteQueue(t) PROVE WorkersInv'
  BY <1>1, ThreadsAssumption DEF PushWriteQueue
<1>2. ASSUME NEW t \in Threads, Drop(t) PROVE WorkersInv'
  BY <1>2, ThreadsAssumption DEF Drop, Exchange
<1>3. ASSUME NEW t \in Threads, WakeLoop(t) PROVE WorkersInv'
  BY <1>3, ThreadsAssumption DEF WakeLoop
<1>4. ASSUME NEW t \in Threads, IsAlive(t) PROVE WorkersInv'
  BY <1>4, ThreadsAssumption DEF IsAlive
<1>5. ASSUME NEW t \in Threads, ShouldWrite(t) PROVE WorkersInv'
  BY <1>5, ThreadsAssumption DEF ShouldWrite
<1>6. ASSUME NEW t \in Threads, SetEvFilter(t) PROVE WorkersInv'
  BY <1>6, ThreadsAssumption DEF SetEvFilter
<1>7. ASSUME NEW t \in Threads, AddEvent(t) PROVE WorkersInv'
  BY <1>7, ThreadsAssumption DEF AddEvent
<1>8. ASSUME NEW t \in Threads, WakeFromDestroy(t) PROVE WorkersInv'
  BY <1>8, ThreadsAssumption DEF WakeFromDestroy
<1>9. ASSUME NEW t \in Threads, RemoveEvent(t) PROVE WorkersInv'
  BY <1>9, ThreadsAssumption DEF RemoveEvent
<1>10. ASSUME NEW t \in Threads, Close(t) PROVE WorkersInv'
  BY <1>10, ThreadsAssumption DEF Close
<1>11. CASE UnshiftDummyWriteQueueItem
  BY <1>11, ThreadsAssumption DEF UnshiftDummyWriteQueueItem
<1>12. CASE Sweep
  BY <1>12, ThreadsAssumption DEF Sweep
<1>13. CASE WaitWoken
  BY <1>13, ThreadsAssumption DEF WaitWoken
<1>14. CASE WaitOther
  BY <1>14, ThreadsAssumption DEF WaitOther, Jump
<1>15. ASSUME NEW f \in SUBSET {"READ", "WRITE"}, Poll(f) PROVE WorkersInv'
  BY <1>15, ThreadsAssumption DEF Poll
<1>16. CASE Dispatch
  BY <1>16, ThreadsAssumption DEF Dispatch, Jump, WritePart
<1>17. CASE ReadData
  BY <1>17, ThreadsAssumption DEF ReadData, Jump
<1>18. CASE OnDataReturns
  BY <1>18, ThreadsAssumption DEF OnDataReturns, Jump
<1>19. CASE ReadAgain
  BY <1>19, ThreadsAssumption DEF ReadAgain, Jump, WritePart
<1>20. CASE ReadWantsWrite
  BY <1>20, ThreadsAssumption DEF ReadWantsWrite, WritePart
<1>21. CASE ReadFails
  BY <1>21, ThreadsAssumption DEF ReadFails, Exchange
<1>22. CASE GetWriteItem
  BY <1>22, ThreadsAssumption DEF GetWriteItem
<1>23. CASE WriteSome
  BY <1>23, ThreadsAssumption DEF WriteSome
<1>24. CASE Written
  BY <1>24, ThreadsAssumption DEF Written
<1>25. CASE CallbackReturns
  BY <1>25, ThreadsAssumption DEF CallbackReturns, Jump
<1>26. CASE PopWriteItem
  BY <1>26, ThreadsAssumption DEF PopWriteItem
<1>27. CASE WriteAgain
  BY <1>27, ThreadsAssumption DEF WriteAgain, Jump, Unfinished
<1>28. CASE WriteInterrupted
  BY <1>28, ThreadsAssumption DEF WriteInterrupted, Jump, Unfinished
<1>29. CASE HandshakeWantsWrite
  BY <1>29, ThreadsAssumption DEF HandshakeWantsWrite
<1>30. CASE WriteFails
  BY <1>30, ThreadsAssumption DEF WriteFails, Exchange, Unfinished
<1>31. CASE UNCHANGED vars
  BY <1>31, ThreadsAssumption
<1>32. QED
  BY <1>1, <1>2, <1>3, <1>4, <1>5, <1>6, <1>7, <1>8, <1>9, <1>10, <1>11, <1>12, <1>13,
     <1>14, <1>15, <1>16, <1>17, <1>18, <1>19, <1>20, <1>21, <1>22, <1>23, <1>24, <1>25,
     <1>26, <1>27, <1>28, <1>29, <1>30, <1>31 DEF Next, Call, Step, LoopStep

\* An item that is appended does not come to the front of a queue with items.
LEMMA FrontOfAppend ==
    ASSUME NEW S, NEW s \in Seq(S), NEW e \in S, s # << >>
    PROVE  Append(s, e) # << >> /\ Head(Append(s, e)) = Head(s)
<1>1. Len(s) \in Nat \ {0} /\ Len(Append(s, e)) = Len(s) + 1
  OBVIOUS
<1>2. Append(s, e)[1] = s[1]
  BY <1>1
<1>3. QED
  BY <1>1, <1>2

\* A step keeps the item of Cb at the front of the queue.
LEMMA HoldStep ==
    ASSUME TypeInv, [Next]_vars
    PROVE  HoldInv'
<1> USE DEF vars, clientVars, envVars, callVars, historyVars, Goto, Threads, Steps,
   CbSteps, UpdateSteps, DropSteps, TypeInv, TypeOK, WorkersInv, HoldInv, Holding,
   InUserCode
<1>1. ASSUME NEW t \in Threads, PushWriteQueue(t) PROVE HoldInv'
  <2>1. /\ ret' = [ret EXCEPT ![t] = pc[t]] /\ pc' = [pc EXCEPT ![t] = "alive"]
        /\ after' = [after EXCEPT ![t] = "wake"] /\ item' = item
    BY <1>1 DEF PushWriteQueue
  <2>2. Holding' => Holding
    <3>1. CASE t = Loop
      BY <1>1, <2>1, <3>1 DEF PushWriteQueue
    <3>2. CASE t # Loop
      BY <2>1, <3>2
    <3>3. QED
      BY <3>1, <3>2
  <2>3. queue # << >> => queue' # << >> /\ Head(queue') = Head(queue)
    <3>1. queue \in Seq(Items \cup {Dummy})
      OBVIOUS
    <3>2. queue' = Append(queue, appended + 1) /\ appended + 1 \in Items \cup {Dummy}
      BY <1>1, BoundsAssumption DEF PushWriteQueue, Items
    <3>3. QED
      BY <3>1, <3>2, FrontOfAppend
  <2>4. QED
    BY <2>1, <2>2, <2>3
<1>2. ASSUME NEW t \in Threads, Drop(t) PROVE HoldInv'
  BY <1>2, ThreadsAssumption DEF Drop, Exchange
<1>3. ASSUME NEW t \in Threads, WakeLoop(t) PROVE HoldInv'
  <2>1. ret[Loop] \in {"idle", "wait", "ondata", "callback", "write", "sweep"}
    OBVIOUS
  <2>2. CASE t = Loop
    <3>1. pc'[Loop] = ret[Loop] /\ ret' = ret /\ after' = after /\ queue' = queue /\ item' = item
      BY <1>3, <2>2 DEF WakeLoop
    <3>2. pc[Loop] \in {"wake", "close"}
      BY <1>3, <2>2 DEF WakeLoop
    <3>3. Holding' => ret[Loop] = "callback"
      BY <2>1, <3>1
    <3>4. Holding' => Holding
      BY <3>2, <3>3
    <3>5. QED
      BY <3>1, <3>4
  <2>3. CASE t # Loop
    BY <1>3, <2>3 DEF WakeLoop
  <2>4. QED
    BY <2>2, <2>3
<1>4. ASSUME NEW t \in Threads, IsAlive(t) PROVE HoldInv'
  BY <1>4, ThreadsAssumption DEF IsAlive
<1>5. ASSUME NEW t \in Threads, ShouldWrite(t) PROVE HoldInv'
  BY <1>5, ThreadsAssumption DEF ShouldWrite
<1>6. ASSUME NEW t \in Threads, SetEvFilter(t) PROVE HoldInv'
  BY <1>6, ThreadsAssumption DEF SetEvFilter
<1>7. ASSUME NEW t \in Threads, AddEvent(t) PROVE HoldInv'
  BY <1>7, ThreadsAssumption DEF AddEvent
<1>8. ASSUME NEW t \in Threads, WakeFromDestroy(t) PROVE HoldInv'
  BY <1>8, ThreadsAssumption DEF WakeFromDestroy
<1>9. ASSUME NEW t \in Threads, RemoveEvent(t) PROVE HoldInv'
  BY <1>9, ThreadsAssumption DEF RemoveEvent
<1>10. ASSUME NEW t \in Threads, Close(t) PROVE HoldInv'
  <2>1. ret[Loop] \in {"idle", "wait", "ondata", "callback", "write", "sweep"}
    OBVIOUS
  <2>2. CASE t = Loop
    <3>1. pc'[Loop] = ret[Loop] /\ ret' = ret /\ after' = after /\ queue' = queue /\ item' = item
      BY <1>10, <2>2 DEF Close
    <3>2. pc[Loop] \in {"wake", "close"}
      BY <1>10, <2>2 DEF Close
    <3>3. Holding' => ret[Loop] = "callback"
      BY <2>1, <3>1
    <3>4. Holding' => Holding
      BY <3>2, <3>3
    <3>5. QED
      BY <3>1, <3>4
  <2>3. CASE t # Loop
    BY <1>10, <2>3 DEF Close
  <2>4. QED
    BY <2>2, <2>3
<1>11. CASE UnshiftDummyWriteQueueItem
  BY <1>11, ThreadsAssumption DEF UnshiftDummyWriteQueueItem, UnshiftInv
<1>12. CASE Sweep
  BY <1>12, ThreadsAssumption DEF Sweep
<1>13. CASE WaitWoken
  BY <1>13, ThreadsAssumption DEF WaitWoken
<1>14. CASE WaitOther
  BY <1>14, ThreadsAssumption DEF WaitOther, Jump
<1>15. ASSUME NEW f \in SUBSET {"READ", "WRITE"}, Poll(f) PROVE HoldInv'
  BY <1>15, ThreadsAssumption DEF Poll
<1>16. CASE Dispatch
  BY <1>16, ThreadsAssumption DEF Dispatch, Jump, WritePart
<1>17. CASE ReadData
  BY <1>17, ThreadsAssumption DEF ReadData, Jump
<1>18. CASE OnDataReturns
  BY <1>18, ThreadsAssumption DEF OnDataReturns, Jump
<1>19. CASE ReadAgain
  BY <1>19, ThreadsAssumption DEF ReadAgain, Jump, WritePart
<1>20. CASE ReadWantsWrite
  BY <1>20, ThreadsAssumption DEF ReadWantsWrite, WritePart
<1>21. CASE ReadFails
  BY <1>21, ThreadsAssumption DEF ReadFails, Exchange
<1>22. CASE GetWriteItem
  BY <1>22, ThreadsAssumption DEF GetWriteItem
<1>23. CASE WriteSome
  BY <1>23, ThreadsAssumption DEF WriteSome
<1>24. CASE Written
  BY <1>24, ThreadsAssumption DEF Written
<1>25. CASE CallbackReturns
  BY <1>25, ThreadsAssumption DEF CallbackReturns, Jump
<1>26. CASE PopWriteItem
  BY <1>26, ThreadsAssumption DEF PopWriteItem
<1>27. CASE WriteAgain
  BY <1>27, ThreadsAssumption DEF WriteAgain, Jump, Unfinished
<1>28. CASE WriteInterrupted
  BY <1>28, ThreadsAssumption DEF WriteInterrupted, Jump, Unfinished
<1>29. CASE HandshakeWantsWrite
  BY <1>29, ThreadsAssumption DEF HandshakeWantsWrite
<1>30. CASE WriteFails
  BY <1>30, ThreadsAssumption DEF WriteFails, Exchange, Unfinished
<1>31. CASE UNCHANGED vars
  BY <1>31, ThreadsAssumption
<1>32. QED
  BY <1>1, <1>2, <1>3, <1>4, <1>5, <1>6, <1>7, <1>8, <1>9, <1>10, <1>11, <1>12, <1>13,
     <1>14, <1>15, <1>16, <1>17, <1>18, <1>19, <1>20, <1>21, <1>22, <1>23, <1>24, <1>25,
     <1>26, <1>27, <1>28, <1>29, <1>30, <1>31 DEF Next, Call, Step, LoopStep

\* A step keeps the handshake items within their bound.
LEMMA UnshiftStep ==
    ASSUME TypeInv, [Next]_vars
    PROVE  UnshiftInv'
<1> USE DEF vars, clientVars, envVars, callVars, historyVars, Goto, Threads, Steps,
   CbSteps, UpdateSteps, DropSteps, TypeInv, TypeOK, WorkersInv, UnshiftInv, InUserCode
<1>1. ASSUME NEW t \in Threads, PushWriteQueue(t) PROVE UnshiftInv'
  BY <1>1, ThreadsAssumption, BoundsAssumption DEF PushWriteQueue
<1>2. ASSUME NEW t \in Threads, Drop(t) PROVE UnshiftInv'
  BY <1>2, ThreadsAssumption, BoundsAssumption DEF Drop, Exchange
<1>3. ASSUME NEW t \in Threads, WakeLoop(t) PROVE UnshiftInv'
  BY <1>3, ThreadsAssumption, BoundsAssumption DEF WakeLoop
<1>4. ASSUME NEW t \in Threads, IsAlive(t) PROVE UnshiftInv'
  BY <1>4, ThreadsAssumption, BoundsAssumption DEF IsAlive
<1>5. ASSUME NEW t \in Threads, ShouldWrite(t) PROVE UnshiftInv'
  BY <1>5, ThreadsAssumption, BoundsAssumption DEF ShouldWrite
<1>6. ASSUME NEW t \in Threads, SetEvFilter(t) PROVE UnshiftInv'
  BY <1>6, ThreadsAssumption, BoundsAssumption DEF SetEvFilter
<1>7. ASSUME NEW t \in Threads, AddEvent(t) PROVE UnshiftInv'
  BY <1>7, ThreadsAssumption, BoundsAssumption DEF AddEvent
<1>8. ASSUME NEW t \in Threads, WakeFromDestroy(t) PROVE UnshiftInv'
  BY <1>8, ThreadsAssumption, BoundsAssumption DEF WakeFromDestroy
<1>9. ASSUME NEW t \in Threads, RemoveEvent(t) PROVE UnshiftInv'
  BY <1>9, ThreadsAssumption, BoundsAssumption DEF RemoveEvent
<1>10. ASSUME NEW t \in Threads, Close(t) PROVE UnshiftInv'
  BY <1>10, ThreadsAssumption, BoundsAssumption DEF Close
<1>11. CASE UnshiftDummyWriteQueueItem
  BY <1>11, ThreadsAssumption, BoundsAssumption DEF UnshiftDummyWriteQueueItem
<1>12. CASE Sweep
  BY <1>12, ThreadsAssumption, BoundsAssumption DEF Sweep
<1>13. CASE WaitWoken
  BY <1>13, ThreadsAssumption, BoundsAssumption DEF WaitWoken
<1>14. CASE WaitOther
  BY <1>14, ThreadsAssumption, BoundsAssumption DEF WaitOther, Jump
<1>15. ASSUME NEW f \in SUBSET {"READ", "WRITE"}, Poll(f) PROVE UnshiftInv'
  BY <1>15, ThreadsAssumption, BoundsAssumption DEF Poll
<1>16. CASE Dispatch
  BY <1>16, ThreadsAssumption, BoundsAssumption DEF Dispatch, Jump, WritePart
<1>17. CASE ReadData
  BY <1>17, ThreadsAssumption, BoundsAssumption DEF ReadData, Jump
<1>18. CASE OnDataReturns
  BY <1>18, ThreadsAssumption, BoundsAssumption DEF OnDataReturns, Jump
<1>19. CASE ReadAgain
  BY <1>19, ThreadsAssumption, BoundsAssumption DEF ReadAgain, Jump, WritePart
<1>20. CASE ReadWantsWrite
  BY <1>20, ThreadsAssumption, BoundsAssumption DEF ReadWantsWrite, WritePart
<1>21. CASE ReadFails
  BY <1>21, ThreadsAssumption, BoundsAssumption DEF ReadFails, Exchange
<1>22. CASE GetWriteItem
  BY <1>22, ThreadsAssumption, BoundsAssumption DEF GetWriteItem
<1>23. CASE WriteSome
  BY <1>23, ThreadsAssumption, BoundsAssumption DEF WriteSome
<1>24. CASE Written
  BY <1>24, ThreadsAssumption, BoundsAssumption DEF Written
<1>25. CASE CallbackReturns
  BY <1>25, ThreadsAssumption, BoundsAssumption DEF CallbackReturns, Jump
<1>26. CASE PopWriteItem
  BY <1>26, ThreadsAssumption, BoundsAssumption DEF PopWriteItem
<1>27. CASE WriteAgain
  BY <1>27, ThreadsAssumption, BoundsAssumption DEF WriteAgain, Jump, Unfinished
<1>28. CASE WriteInterrupted
  BY <1>28, ThreadsAssumption, BoundsAssumption DEF WriteInterrupted, Jump, Unfinished
<1>29. CASE HandshakeWantsWrite
  BY <1>29, ThreadsAssumption, BoundsAssumption DEF HandshakeWantsWrite
<1>30. CASE WriteFails
  BY <1>30, ThreadsAssumption, BoundsAssumption DEF WriteFails, Exchange, Unfinished
<1>31. CASE UNCHANGED vars
  BY <1>31, ThreadsAssumption, BoundsAssumption
<1>32. QED
  BY <1>1, <1>2, <1>3, <1>4, <1>5, <1>6, <1>7, <1>8, <1>9, <1>10, <1>11, <1>12, <1>13,
     <1>14, <1>15, <1>16, <1>17, <1>18, <1>19, <1>20, <1>21, <1>22, <1>23, <1>24, <1>25,
     <1>26, <1>27, <1>28, <1>29, <1>30, <1>31 DEF Next, Call, Step, LoopStep

\* A step keeps TearDownInv.
LEMMA TearDownStep ==
    ASSUME TypeInv, TearDownInv, [Next]_vars
    PROVE  TearDownInv'
<1> USE DEF vars, clientVars, envVars, callVars, historyVars, Goto, Threads, Steps,
   CbSteps, UpdateSteps, DropSteps, TearDownInv, ClosedOnce, TypeInv, TypeOK,
   WorkersInv, InUserCode
<1>1. ASSUME NEW t \in Threads, PushWriteQueue(t) PROVE TearDownInv'
  BY <1>1, ThreadsAssumption DEF PushWriteQueue
<1>2. ASSUME NEW t \in Threads, Drop(t) PROVE TearDownInv'
  BY <1>2, ThreadsAssumption DEF Drop, Exchange
<1>3. ASSUME NEW t \in Threads, WakeLoop(t) PROVE TearDownInv'
  BY <1>3, ThreadsAssumption DEF WakeLoop
<1>4. ASSUME NEW t \in Threads, IsAlive(t) PROVE TearDownInv'
  BY <1>4, ThreadsAssumption DEF IsAlive
<1>5. ASSUME NEW t \in Threads, ShouldWrite(t) PROVE TearDownInv'
  BY <1>5, ThreadsAssumption DEF ShouldWrite
<1>6. ASSUME NEW t \in Threads, SetEvFilter(t) PROVE TearDownInv'
  BY <1>6, ThreadsAssumption DEF SetEvFilter
<1>7. ASSUME NEW t \in Threads, AddEvent(t) PROVE TearDownInv'
  BY <1>7, ThreadsAssumption DEF AddEvent
<1>8. ASSUME NEW t \in Threads, WakeFromDestroy(t) PROVE TearDownInv'
  BY <1>8, ThreadsAssumption DEF WakeFromDestroy
<1>9. ASSUME NEW t \in Threads, RemoveEvent(t) PROVE TearDownInv'
  BY <1>9, ThreadsAssumption DEF RemoveEvent
<1>10. ASSUME NEW t \in Threads, Close(t) PROVE TearDownInv'
  <2>1. open /\ destroyed /\ closes = 0
    BY <1>10 DEF Close
  <2>2. open' = FALSE /\ closes' = 1 /\ registered' = {} /\ destroyed' /\ swept' = swept
    BY <1>10, <2>1 DEF Close
  <2>3. \A u \in Threads : pc'[u] \notin DropSteps
    BY <1>10 DEF Close
  <2>4. QED
    BY <2>2, <2>3, ThreadsAssumption
<1>11. CASE UnshiftDummyWriteQueueItem
  BY <1>11, ThreadsAssumption DEF UnshiftDummyWriteQueueItem
<1>12. CASE Sweep
  BY <1>12, ThreadsAssumption DEF Sweep
<1>13. CASE WaitWoken
  BY <1>13, ThreadsAssumption DEF WaitWoken
<1>14. CASE WaitOther
  BY <1>14, ThreadsAssumption DEF WaitOther, Jump
<1>15. ASSUME NEW f \in SUBSET {"READ", "WRITE"}, Poll(f) PROVE TearDownInv'
  BY <1>15, ThreadsAssumption DEF Poll
<1>16. CASE Dispatch
  BY <1>16, ThreadsAssumption DEF Dispatch, Jump, WritePart
<1>17. CASE ReadData
  BY <1>17, ThreadsAssumption DEF ReadData, Jump
<1>18. CASE OnDataReturns
  BY <1>18, ThreadsAssumption DEF OnDataReturns, Jump
<1>19. CASE ReadAgain
  BY <1>19, ThreadsAssumption DEF ReadAgain, Jump, WritePart
<1>20. CASE ReadWantsWrite
  BY <1>20, ThreadsAssumption DEF ReadWantsWrite, WritePart
<1>21. CASE ReadFails
  BY <1>21, ThreadsAssumption DEF ReadFails, Exchange
<1>22. CASE GetWriteItem
  BY <1>22, ThreadsAssumption DEF GetWriteItem
<1>23. CASE WriteSome
  BY <1>23, ThreadsAssumption DEF WriteSome
<1>24. CASE Written
  BY <1>24, ThreadsAssumption DEF Written
<1>25. CASE CallbackReturns
  BY <1>25, ThreadsAssumption DEF CallbackReturns, Jump
<1>26. CASE PopWriteItem
  BY <1>26, ThreadsAssumption DEF PopWriteItem
<1>27. CASE WriteAgain
  BY <1>27, ThreadsAssumption DEF WriteAgain, Jump, Unfinished
<1>28. CASE WriteInterrupted
  BY <1>28, ThreadsAssumption DEF WriteInterrupted, Jump, Unfinished
<1>29. CASE HandshakeWantsWrite
  BY <1>29, ThreadsAssumption DEF HandshakeWantsWrite
<1>30. CASE WriteFails
  BY <1>30, ThreadsAssumption DEF WriteFails, Exchange, Unfinished
<1>31. CASE UNCHANGED vars
  BY <1>31, ThreadsAssumption
<1>32. QED
  BY <1>1, <1>2, <1>3, <1>4, <1>5, <1>6, <1>7, <1>8, <1>9, <1>10, <1>11, <1>12, <1>13,
     <1>14, <1>15, <1>16, <1>17, <1>18, <1>19, <1>20, <1>21, <1>22, <1>23, <1>24, <1>25,
     <1>26, <1>27, <1>28, <1>29, <1>30, <1>31 DEF Next, Call, Step, LoopStep

\* A step keeps StrayInv.
LEMMA StrayStep ==
    ASSUME TypeInv, TearDownInv, StrayInv, [Next]_vars
    PROVE  StrayInv'
<1> SUFFICES ASSUME Workers = {}
             PROVE  ~strayed' /\ (pc'[Loop] \in UpdateSteps \ {"alive"} => ~destroyed')
  BY DEF StrayInv
<1> USE DEF vars, clientVars, envVars, callVars, historyVars, Goto, Jump, Steps,
   CbSteps, UpdateSteps, DropSteps, TypeInv, TypeOK, StrayInv, InUserCode
<1>1. Threads = {Loop}
  BY DEF Threads
<1>2. CASE PushWriteQueue(Loop) \/ Drop(Loop)
  BY <1>1, <1>2 DEF PushWriteQueue, Drop, Exchange
<1>3. CASE WakeLoop(Loop) \/ IsAlive(Loop) \/ ShouldWrite(Loop) \/ SetEvFilter(Loop)
  BY <1>1, <1>3 DEF WakeLoop, IsAlive, ShouldWrite, SetEvFilter
<1>4. CASE AddEvent(Loop)
  <2>1. pc[Loop] = "add" /\ ~destroyed /\ open
    BY <1>4 DEF AddEvent, TearDownInv
  <2>2. QED
    BY <1>1, <1>4, <2>1 DEF AddEvent
<1>5. CASE WakeFromDestroy(Loop) \/ RemoveEvent(Loop) \/ Close(Loop)
  BY <1>1, <1>5 DEF WakeFromDestroy, RemoveEvent, Close
<1>6. CASE UnshiftDummyWriteQueueItem
  BY <1>1, <1>6 DEF UnshiftDummyWriteQueueItem
<1>7. CASE Sweep \/ WaitWoken \/ WaitOther \/ (\E f \in SUBSET {"READ", "WRITE"} : Poll(f))
  BY <1>1, <1>7 DEF Sweep, WaitWoken, WaitOther, Poll
<1>8. CASE Dispatch \/ ReadData \/ OnDataReturns \/ ReadAgain \/ ReadWantsWrite
  BY <1>1, <1>8 DEF Dispatch, ReadData, OnDataReturns, ReadAgain, ReadWantsWrite, WritePart
<1>9. CASE ReadFails \/ WriteFails
  BY <1>1, <1>9 DEF ReadFails, WriteFails, Exchange
<1>10. CASE GetWriteItem \/ WriteSome \/ Written
  BY <1>1, <1>10 DEF GetWriteItem, WriteSome, Written
<1>11. CASE CallbackReturns \/ PopWriteItem
  BY <1>1, <1>11 DEF CallbackReturns, PopWriteItem
<1>12. CASE WriteAgain \/ WriteInterrupted \/ HandshakeWantsWrite
  BY <1>1, <1>12 DEF WriteAgain, WriteInterrupted, HandshakeWantsWrite
<1>13. CASE UNCHANGED vars
  BY <1>13
<1>14. QED
  BY <1>1, <1>2, <1>3, <1>4, <1>5, <1>6, <1>7, <1>8, <1>9, <1>10, <1>11, <1>12, <1>13
     DEF Next, Call, Step, LoopStep

\* The initial states satisfy every part of the invariant.
LEMMA InitInv == Init => TypeInv /\ TearDownInv /\ StrayInv
<1> SUFFICES ASSUME Init PROVE TypeInv /\ TearDownInv /\ StrayInv
  OBVIOUS
<1> USE ThreadsAssumption, BoundsAssumption DEF Init, Threads, DropSteps
<1>1. TypeOK
  <2>1. queue \in Seq(Items \cup {Dummy}) /\ called \in Seq(Items) /\ wire \in Seq(Items)
    OBVIOUS
  <2>2. pos \in [Items -> Nat] /\ item \in Items \cup {Dummy}
    OBVIOUS
  <2>3. evFilter \in Filters /\ registered \in Filters /\ events \in SUBSET {"READ", "WRITE"}
    BY DEF Filters
  <2>4. pc \in [Threads -> Steps]
    BY DEF Steps
  <2>5. filter \in [Threads -> Filters]
    BY DEF Filters
  <2>6. /\ after \in [Threads -> {"wake", "sweep"}]
        /\ ret \in [Threads -> {"idle", "wait", "ondata", "callback", "write", "sweep"}]
    OBVIOUS
  <2>7. appended \in 0..MaxItems /\ unshifted \in 0..MaxDummies /\ closes \in Nat
    BY BoundsAssumption
  <2>8. /\ destroyed \in BOOLEAN /\ open \in BOOLEAN /\ swept \in BOOLEAN /\ woken \in BOOLEAN
        /\ strayed \in BOOLEAN
    OBVIOUS
  <2>9. QED
    BY <2>1, <2>2, <2>3, <2>4, <2>5, <2>6, <2>7, <2>8 DEF TypeOK
<1>2. WorkersInv /\ HoldInv /\ UnshiftInv
  BY DEF WorkersInv, HoldInv, Holding, UnshiftInv
<1>3. TearDownInv
  BY DEF TearDownInv, ClosedOnce
<1>4. StrayInv
  BY DEF StrayInv, UpdateSteps
<1>5. QED
  BY <1>1, <1>2, <1>3, <1>4 DEF TypeInv

\* Every step keeps TypeInv.
LEMMA TypeInvStep == TypeInv /\ [Next]_vars => TypeInv'
  BY TypeOKStep, WorkersStep, HoldStep, UnshiftStep DEF TypeInv

\* Type correctness, with what it rests on.
THEOREM TypeInvariant == Spec => []TypeInv
<1>1. Init => TypeInv
  BY InitInv
<1>2. TypeInv /\ [Next]_vars => TypeInv'
  BY TypeInvStep
<1>3. QED
  BY <1>1, <1>2, PTL DEF Spec

\* Every variable keeps its type.
THEOREM TypeCorrect == Spec => []TypeOK
<1>1. TypeInv => TypeOK
  BY DEF TypeInv
<1>2. QED
  BY <1>1, TypeInvariant, PTL

\* At most one thread tears the client down, and a closed client is registered only if the
\* registration came late.
THEOREM TearDown == Spec => []TearDownInv
<1>1. Init => TearDownInv
  BY InitInv
<1>2. TypeInv /\ TearDownInv /\ [Next]_vars => TearDownInv'
  BY TearDownStep
<1>3. QED
  BY <1>1, <1>2, TypeInvariant, PTL DEF Spec

\* A client that only the loop's thread uses is never registered late.
THEOREM NeverLate == Spec => []StrayInv
<1>1. Init => StrayInv
  BY InitInv
<1>2. TypeInv /\ TearDownInv /\ StrayInv /\ [Next]_vars => StrayInv'
  BY StrayStep
<1>3. QED
  BY <1>1, <1>2, TypeInvariant, TearDown, PTL DEF Spec

\* However many threads drop the client, its descriptor is closed once.
THEOREM ClosesOnce == Spec => []ClosedOnce
<1>1. TearDownInv => ClosedOnce
  BY DEF TearDownInv
<1>2. QED
  BY <1>1, TearDown, PTL

\* The plain pointer the event loop keeps outlives the client's owners in one way only: an
\* UpdateEvent, passed by a close of another thread, has registered the node under the
\* number of a descriptor that is somebody else's by then.  A client that only the loop's
\* thread uses is owned as long as it is registered.
THEOREM NoDanglingRegistration == Spec => []RegisteredNodeIsOwned
<1>1. TypeInv /\ TearDownInv /\ StrayInv => RegisteredNodeIsOwned
  <2> SUFFICES ASSUME TypeInv, TearDownInv, StrayInv, registered # {}, swept
               PROVE  \/ \E w \in Workers : pc[w] # "idle"
                      \/ strayed /\ Workers # {}
    BY DEF RegisteredNodeIsOwned, Referenced
  <2>1. CASE strayed
    BY <2>1 DEF StrayInv
  <2>2. CASE ~strayed
    <3>1. open /\ destroyed
      BY <2>2 DEF TearDownInv
    <3>2. PICK t \in Threads : pc[t] \in DropSteps
      BY <3>1 DEF TearDownInv
    <3>3. t # Loop
      BY <3>2 DEF TearDownInv
    <3>4. QED
      BY <3>2, <3>3 DEF Threads, DropSteps
  <2>3. QED
    BY <2>1, <2>2
<1>2. QED
  BY <1>1, TypeInvariant, TearDown, NeverLate, PTL

(***************************************************************************)
(* The order of the items.                                                 *)
(***************************************************************************)

\* The callback of Cb's item has run and the item is still in the queue.
CalledFront == Holding /\ pc[Loop] # "writing" /\ item # Dummy

\* The number of items popped: their callbacks ran and they left the queue.
Popped == Len(called) - (IF CalledFront THEN 1 ELSE 0)

\* The items still in the queue are those pushed and not popped.
PendingInv ==
    /\ \A k \in DOMAIN queue :
          queue[k] # Dummy /\ (k = 1 \/ queue[k - 1] = Dummy) => queue[k] = Popped + 1
    /\ (queue = << >> \/ queue[Len(queue)] = Dummy) => Popped = appended

OrderInv == QueueInOrder /\ CallbacksInOrder /\ PendingInv

\* The steps that touch neither the queue nor the callbacks keep the order.
LEMMA QuietStep ==
    ASSUME TypeInv, TypeInv', OrderInv,
           queue' = queue, called' = called, appended' = appended,
           CalledFront' <=> CalledFront
    PROVE  OrderInv'
<1>1. Popped' = Popped
  BY DEF Popped
<1>2. PendingInv' /\ CallbacksInOrder'
  BY <1>1 DEF OrderInv, PendingInv, CallbacksInOrder
<1>3. (pc[Loop] = "pop" => queue # << >> /\ Head(queue) = item)'
  BY DEF TypeInv, HoldInv, Holding
<1>4. QueueInOrder'
  BY <1>3 DEF OrderInv, QueueInOrder
<1>5. QED
  BY <1>2, <1>4 DEF OrderInv

\* A step keeps the order of the items.
LEMMA OrderStep ==
    ASSUME TypeInv, OrderInv, [Next]_vars
    PROVE  OrderInv'
<1> USE DEF vars, clientVars, envVars, callVars, historyVars, Goto, Threads, Steps,
   CbSteps, UpdateSteps, DropSteps
<1>1. ASSUME NEW t \in Threads, PushWriteQueue(t) PROVE OrderInv'
  <2>1. /\ queue' = Append(queue, appended + 1) /\ appended' = appended + 1
        /\ called' = called
    BY <1>1 DEF PushWriteQueue
  <2>2. CalledFront' <=> CalledFront
    BY <1>1, ThreadsAssumption
       DEF PushWriteQueue, CalledFront, Holding, InUserCode, TypeInv, TypeOK, WorkersInv
  <2>3. Popped' = Popped
    BY <2>1, <2>2 DEF Popped
  <2>4. queue \in Seq(Nat) /\ appended \in Nat /\ Popped \in Int
    BY BoundsAssumption DEF TypeInv, TypeOK, Items, Dummy, Popped
  <2>5. /\ Len(queue') = Len(queue) + 1 /\ DOMAIN queue' = 1..(Len(queue) + 1)
        /\ \A k \in 1..Len(queue) : queue'[k] = queue[k]
        /\ queue'[Len(queue) + 1] = appended + 1
    BY <2>1, <2>4
  <2>6. PendingInv'
    <3>1. /\ \A k \in 1..Len(queue) :
                queue[k] # Dummy /\ (k = 1 \/ queue[k - 1] = Dummy) => queue[k] = Popped + 1
          /\ Len(queue) = 0 \/ queue[Len(queue)] = Dummy => Popped = appended
      <4>1. DOMAIN queue = 1..Len(queue) /\ (Len(queue) = 0 => queue = << >>)
        BY <2>4
      <4>2. QED
        BY <4>1 DEF PendingInv, OrderInv
    <3>2. ASSUME NEW k \in 1..(Len(queue) + 1),
                 queue'[k] # Dummy, k = 1 \/ queue'[k - 1] = Dummy
          PROVE  queue'[k] = Popped + 1
      <4>1. CASE k \in 1..Len(queue)
        <5>1. queue'[k] = queue[k] /\ (k # 1 => queue'[k - 1] = queue[k - 1])
          BY <2>4, <2>5, <4>1
        <5>2. QED
          BY <3>1, <3>2, <4>1, <5>1
      <4>2. CASE k = Len(queue) + 1
        <5>1. Len(queue) = 0 \/ queue[Len(queue)] = Dummy
          BY <2>4, <2>5, <3>2, <4>2
        <5>2. QED
          BY <2>5, <3>1, <4>2, <5>1
      <4>3. QED
        BY <2>4, <4>1, <4>2
    <3>3. queue' # << >> /\ queue'[Len(queue')] # Dummy
      BY <2>4, <2>5 DEF Dummy
    <3>4. QED
      BY <2>3, <2>5, <3>2, <3>3 DEF PendingInv
  <2>7. (pc[Loop] = "pop" => queue # << >> /\ Head(queue) = item)'
    BY TypeInvStep DEF TypeInv, HoldInv, Holding
  <2>8. QueueInOrder'
    BY <2>1, <2>4, <2>5, <2>7 DEF OrderInv, QueueInOrder, Dummy
  <2>9. QED
    BY <2>1, <2>6, <2>8 DEF OrderInv, CallbacksInOrder
<1>2. ASSUME NEW t \in Threads, Drop(t) PROVE OrderInv'
  <2>1. queue' = queue /\ called' = called /\ appended' = appended
    BY <1>2 DEF Drop, Exchange
  <2>2. CalledFront' <=> CalledFront
    BY <1>2, ThreadsAssumption DEF Drop, Exchange, CalledFront, Holding, InUserCode, TypeInv, TypeOK, WorkersInv, UnshiftInv
  <2>3. QED
    BY <2>1, <2>2, QuietStep, TypeInvStep
<1>3. ASSUME NEW t \in Threads, WakeLoop(t) PROVE OrderInv'
  <2>1. queue' = queue /\ called' = called /\ appended' = appended
    BY <1>3 DEF WakeLoop
  <2>2. CalledFront' <=> CalledFront
    BY <1>3, ThreadsAssumption DEF WakeLoop, CalledFront, Holding, InUserCode, TypeInv, TypeOK, WorkersInv, UnshiftInv
  <2>3. QED
    BY <2>1, <2>2, QuietStep, TypeInvStep
<1>4. ASSUME NEW t \in Threads, IsAlive(t) PROVE OrderInv'
  <2>1. queue' = queue /\ called' = called /\ appended' = appended
    BY <1>4 DEF IsAlive
  <2>2. CalledFront' <=> CalledFront
    BY <1>4, ThreadsAssumption DEF IsAlive, CalledFront, Holding, InUserCode, TypeInv, TypeOK, WorkersInv, UnshiftInv
  <2>3. QED
    BY <2>1, <2>2, QuietStep, TypeInvStep
<1>5. ASSUME NEW t \in Threads, ShouldWrite(t) PROVE OrderInv'
  <2>1. queue' = queue /\ called' = called /\ appended' = appended
    BY <1>5 DEF ShouldWrite
  <2>2. CalledFront' <=> CalledFront
    BY <1>5, ThreadsAssumption DEF ShouldWrite, CalledFront, Holding, InUserCode, TypeInv, TypeOK, WorkersInv, UnshiftInv
  <2>3. QED
    BY <2>1, <2>2, QuietStep, TypeInvStep
<1>6. ASSUME NEW t \in Threads, SetEvFilter(t) PROVE OrderInv'
  <2>1. queue' = queue /\ called' = called /\ appended' = appended
    BY <1>6 DEF SetEvFilter
  <2>2. CalledFront' <=> CalledFront
    BY <1>6, ThreadsAssumption DEF SetEvFilter, CalledFront, Holding, InUserCode, TypeInv, TypeOK, WorkersInv, UnshiftInv
  <2>3. QED
    BY <2>1, <2>2, QuietStep, TypeInvStep
<1>7. ASSUME NEW t \in Threads, AddEvent(t) PROVE OrderInv'
  <2>1. queue' = queue /\ called' = called /\ appended' = appended
    BY <1>7 DEF AddEvent
  <2>2. CalledFront' <=> CalledFront
    BY <1>7, ThreadsAssumption DEF AddEvent, CalledFront, Holding, InUserCode, TypeInv, TypeOK, WorkersInv, UnshiftInv
  <2>3. QED
    BY <2>1, <2>2, QuietStep, TypeInvStep
<1>8. ASSUME NEW t \in Threads, WakeFromDestroy(t) PROVE OrderInv'
  <2>1. queue' = queue /\ called' = called /\ appended' = appended
    BY <1>8 DEF WakeFromDestroy
  <2>2. CalledFront' <=> CalledFront
    BY <1>8, ThreadsAssumption DEF WakeFromDestroy, CalledFront, Holding, InUserCode, TypeInv, TypeOK, WorkersInv, UnshiftInv
  <2>3. QED
    BY <2>1, <2>2, QuietStep, TypeInvStep
<1>9. ASSUME NEW t \in Threads, RemoveEvent(t) PROVE OrderInv'
  <2>1. queue' = queue /\ called' = called /\ appended' = appended
    BY <1>9 DEF RemoveEvent
  <2>2. CalledFront' <=> CalledFront
    BY <1>9, ThreadsAssumption DEF RemoveEvent, CalledFront, Holding, InUserCode, TypeInv, TypeOK, WorkersInv, UnshiftInv
  <2>3. QED
    BY <2>1, <2>2, QuietStep, TypeInvStep
<1>10. ASSUME NEW t \in Threads, Close(t) PROVE OrderInv'
  <2>1. queue' = queue /\ called' = called /\ appended' = appended
    BY <1>10 DEF Close
  <2>2. CalledFront' <=> CalledFront
    BY <1>10, ThreadsAssumption DEF Close, CalledFront, Holding, InUserCode, TypeInv, TypeOK, WorkersInv, UnshiftInv
  <2>3. QED
    BY <2>1, <2>2, QuietStep, TypeInvStep
<1>11. CASE UnshiftDummyWriteQueueItem
  <2>1. queue' = <<Dummy>> \o queue /\ appended' = appended /\ called' = called
    BY <1>11 DEF UnshiftDummyWriteQueueItem
  <2>2. CalledFront' <=> CalledFront
    BY <1>11, ThreadsAssumption
       DEF UnshiftDummyWriteQueueItem, CalledFront, Holding, TypeInv, TypeOK, UnshiftInv
  <2>3. Popped' = Popped
    BY <2>1, <2>2 DEF Popped
  <2>4. queue \in Seq(Nat) /\ appended \in Nat /\ Popped \in Int
    BY BoundsAssumption DEF TypeInv, TypeOK, Items, Dummy, Popped
  <2>5. /\ Len(queue') = Len(queue) + 1 /\ DOMAIN queue' = 1..(Len(queue) + 1)
        /\ \A k \in 2..(Len(queue) + 1) : queue'[k] = queue[k - 1]
        /\ queue'[1] = Dummy
    BY <2>1, <2>4 DEF Dummy
  <2>6. PendingInv'
    <3>1. /\ \A k \in 1..Len(queue) :
                queue[k] # Dummy /\ (k = 1 \/ queue[k - 1] = Dummy) => queue[k] = Popped + 1
          /\ Len(queue) = 0 \/ queue[Len(queue)] = Dummy => Popped = appended
      <4>1. DOMAIN queue = 1..Len(queue) /\ (Len(queue) = 0 => queue = << >>)
        BY <2>4
      <4>2. QED
        BY <4>1 DEF PendingInv, OrderInv
    <3>2. ASSUME NEW k \in 1..(Len(queue) + 1),
                 queue'[k] # Dummy, k = 1 \/ queue'[k - 1] = Dummy
          PROVE  queue'[k] = Popped + 1
      <4>1. k \in 2..(Len(queue) + 1) /\ k - 1 \in 1..Len(queue) /\ queue'[k] = queue[k - 1]
        BY <2>4, <2>5, <3>2
      <4>2. k - 1 = 1 \/ queue[(k - 1) - 1] = Dummy
        <5>1. CASE k = 2
          BY <5>1
        <5>2. CASE k # 2
          <6>1. k - 1 \in 2..(Len(queue) + 1) /\ queue'[k - 1] = Dummy
            BY <2>4, <3>2, <4>1, <5>2
          <6>2. QED
            BY <2>5, <6>1
        <5>3. QED
          BY <5>1, <5>2
      <4>3. QED
        BY <3>1, <3>2, <4>1, <4>2
    <3>3. queue' # << >> /\ (queue'[Len(queue')] = Dummy => Len(queue) = 0 \/ queue[Len(queue)] = Dummy)
      <4>1. CASE Len(queue) = 0
        BY <2>4, <2>5, <4>1
      <4>2. CASE Len(queue) # 0
        <5>1. queue'[Len(queue) + 1] = queue[Len(queue)]
          BY <2>4, <2>5, <4>2
        <5>2. QED
          BY <2>4, <2>5, <5>1
      <4>3. QED
        BY <4>1, <4>2
    <3>4. QED
      BY <2>1, <2>3, <2>5, <3>1, <3>2, <3>3 DEF PendingInv
  <2>7. (pc[Loop] = "pop" => queue # << >> /\ Head(queue) = item)'
    BY TypeInvStep DEF TypeInv, HoldInv, Holding
  <2>8. QueueInOrder'
    <3>1. /\ \A k \in 1..Len(queue) : queue[k] = Dummy \/ queue[k] = appended - (Len(queue) - k)
          /\ \A j, k \in 1..Len(queue) : j < k /\ queue[k] = Dummy => queue[j] = Dummy
      BY <2>4 DEF OrderInv, QueueInOrder
    <3>2. ASSUME NEW k \in 1..(Len(queue) + 1)
          PROVE  queue'[k] = Dummy \/ queue'[k] = appended - (Len(queue') - k)
      <4>1. CASE k = 1
        BY <2>5, <4>1
      <4>2. CASE k # 1
        <5>1. k - 1 \in 1..Len(queue) /\ queue'[k] = queue[k - 1]
          BY <2>4, <2>5, <4>2
        <5>2. Len(queue) - (k - 1) = Len(queue') - k
          BY <2>4, <2>5
        <5>3. QED
          BY <3>1, <5>1, <5>2
      <4>3. QED
        BY <4>1, <4>2
    <3>3. ASSUME NEW j \in 1..(Len(queue) + 1), NEW k \in 1..(Len(queue) + 1),
                 j < k, queue'[k] = Dummy
          PROVE  queue'[j] = Dummy
      <4>1. CASE j = 1
        BY <2>5, <4>1
      <4>2. CASE j # 1
        <5>1. /\ j - 1 \in 1..Len(queue) /\ k - 1 \in 1..Len(queue) /\ j - 1 < k - 1
              /\ queue'[j] = queue[j - 1] /\ queue'[k] = queue[k - 1]
          BY <2>4, <2>5, <3>3, <4>2
        <5>2. QED
          BY <3>1, <3>3, <5>1
      <4>3. QED
        BY <4>1, <4>2
    <3>4. QED
      BY <2>1, <2>5, <2>7, <3>2, <3>3 DEF QueueInOrder
  <2>9. QED
    BY <2>1, <2>6, <2>8 DEF OrderInv, CallbacksInOrder
<1>12. CASE Sweep
  <2>1. queue' = queue /\ called' = called /\ appended' = appended
    BY <1>12 DEF Sweep
  <2>2. CalledFront' <=> CalledFront
    BY <1>12, ThreadsAssumption DEF Sweep, CalledFront, Holding, InUserCode, TypeInv, TypeOK, WorkersInv, UnshiftInv
  <2>3. QED
    BY <2>1, <2>2, QuietStep, TypeInvStep
<1>13. CASE WaitWoken
  <2>1. queue' = queue /\ called' = called /\ appended' = appended
    BY <1>13 DEF WaitWoken
  <2>2. CalledFront' <=> CalledFront
    BY <1>13, ThreadsAssumption DEF WaitWoken, CalledFront, Holding, InUserCode, TypeInv, TypeOK, WorkersInv, UnshiftInv
  <2>3. QED
    BY <2>1, <2>2, QuietStep, TypeInvStep
<1>14. CASE WaitOther
  <2>1. queue' = queue /\ called' = called /\ appended' = appended
    BY <1>14 DEF WaitOther, Jump
  <2>2. CalledFront' <=> CalledFront
    BY <1>14, ThreadsAssumption DEF WaitOther, Jump, CalledFront, Holding, InUserCode, TypeInv, TypeOK, WorkersInv, UnshiftInv
  <2>3. QED
    BY <2>1, <2>2, QuietStep, TypeInvStep
<1>15. ASSUME NEW f \in SUBSET {"READ", "WRITE"}, Poll(f) PROVE OrderInv'
  <2>1. queue' = queue /\ called' = called /\ appended' = appended
    BY <1>15 DEF Poll
  <2>2. CalledFront' <=> CalledFront
    BY <1>15, ThreadsAssumption DEF Poll, CalledFront, Holding, InUserCode, TypeInv, TypeOK, WorkersInv, UnshiftInv
  <2>3. QED
    BY <2>1, <2>2, QuietStep, TypeInvStep
<1>16. CASE Dispatch
  <2>1. queue' = queue /\ called' = called /\ appended' = appended
    BY <1>16 DEF Dispatch, Jump, WritePart
  <2>2. CalledFront' <=> CalledFront
    BY <1>16, ThreadsAssumption DEF Dispatch, Jump, WritePart, CalledFront, Holding, InUserCode, TypeInv, TypeOK, WorkersInv, UnshiftInv
  <2>3. QED
    BY <2>1, <2>2, QuietStep, TypeInvStep
<1>17. CASE ReadData
  <2>1. queue' = queue /\ called' = called /\ appended' = appended
    BY <1>17 DEF ReadData, Jump
  <2>2. CalledFront' <=> CalledFront
    BY <1>17, ThreadsAssumption DEF ReadData, Jump, CalledFront, Holding, InUserCode, TypeInv, TypeOK, WorkersInv, UnshiftInv
  <2>3. QED
    BY <2>1, <2>2, QuietStep, TypeInvStep
<1>18. CASE OnDataReturns
  <2>1. queue' = queue /\ called' = called /\ appended' = appended
    BY <1>18 DEF OnDataReturns, Jump
  <2>2. CalledFront' <=> CalledFront
    BY <1>18, ThreadsAssumption DEF OnDataReturns, Jump, CalledFront, Holding, InUserCode, TypeInv, TypeOK, WorkersInv, UnshiftInv
  <2>3. QED
    BY <2>1, <2>2, QuietStep, TypeInvStep
<1>19. CASE ReadAgain
  <2>1. queue' = queue /\ called' = called /\ appended' = appended
    BY <1>19 DEF ReadAgain, Jump, WritePart
  <2>2. CalledFront' <=> CalledFront
    BY <1>19, ThreadsAssumption DEF ReadAgain, Jump, WritePart, CalledFront, Holding, InUserCode, TypeInv, TypeOK, WorkersInv, UnshiftInv
  <2>3. QED
    BY <2>1, <2>2, QuietStep, TypeInvStep
<1>20. CASE ReadWantsWrite
  <2>1. queue' = queue /\ called' = called /\ appended' = appended
    BY <1>20 DEF ReadWantsWrite, WritePart
  <2>2. CalledFront' <=> CalledFront
    BY <1>20, ThreadsAssumption DEF ReadWantsWrite, WritePart, CalledFront, Holding, InUserCode, TypeInv, TypeOK, WorkersInv, UnshiftInv
  <2>3. QED
    BY <2>1, <2>2, QuietStep, TypeInvStep
<1>21. CASE ReadFails
  <2>1. queue' = queue /\ called' = called /\ appended' = appended
    BY <1>21 DEF ReadFails, Exchange
  <2>2. CalledFront' <=> CalledFront
    BY <1>21, ThreadsAssumption DEF ReadFails, Exchange, CalledFront, Holding, InUserCode, TypeInv, TypeOK, WorkersInv, UnshiftInv
  <2>3. QED
    BY <2>1, <2>2, QuietStep, TypeInvStep
<1>22. CASE GetWriteItem
  <2>1. queue' = queue /\ called' = called /\ appended' = appended
    BY <1>22 DEF GetWriteItem
  <2>2. CalledFront' <=> CalledFront
    BY <1>22, ThreadsAssumption DEF GetWriteItem, CalledFront, Holding, InUserCode, TypeInv, TypeOK, WorkersInv, UnshiftInv
  <2>3. QED
    BY <2>1, <2>2, QuietStep, TypeInvStep
<1>23. CASE WriteSome
  <2>1. queue' = queue /\ called' = called /\ appended' = appended
    BY <1>23 DEF WriteSome
  <2>2. CalledFront' <=> CalledFront
    BY <1>23, ThreadsAssumption DEF WriteSome, CalledFront, Holding, InUserCode, TypeInv, TypeOK, WorkersInv, UnshiftInv
  <2>3. QED
    BY <2>1, <2>2, QuietStep, TypeInvStep
<1>24. CASE Written
  <2>1. queue' = queue /\ appended' = appended /\ item' = item /\ queue # << >> /\ Head(queue) = item
    BY <1>24 DEF Written, TypeInv, HoldInv, Holding
  <2>2. CASE item = Dummy
    <3>1. called' = called
      BY <1>24, <2>2 DEF Written
    <3>2. CalledFront' <=> CalledFront
      BY <1>24, <2>1, <2>2 DEF Written, CalledFront
    <3>3. QED
      BY <2>1, <3>1, <3>2, QuietStep, TypeInvStep
  <2>3. CASE item # Dummy
    <3>1. called' = Append(called, item) /\ pc[Loop] = "writing" /\ pc'[Loop] = "callback"
      BY <1>24, <2>3, ThreadsAssumption DEF Written, TypeInv, TypeOK
    <3>2. ~CalledFront /\ CalledFront'
      BY <2>1, <2>3, <3>1 DEF CalledFront, Holding
    <3>3. called \in Seq(Nat) /\ item \in Nat /\ queue \in Seq(Nat)
      BY BoundsAssumption DEF TypeInv, TypeOK, Items, Dummy
    <3>4. Popped = Len(called) /\ Popped' = Popped
      BY <3>1, <3>2, <3>3 DEF Popped
    <3>5. item = Popped + 1
      <4>1. 1 \in DOMAIN queue /\ queue[1] = item
        BY <2>1, <3>3
      <4>2. QED
        BY <2>3, <4>1 DEF OrderInv, PendingInv
    <3>6. CallbacksInOrder'
      BY <3>1, <3>3, <3>4, <3>5 DEF OrderInv, CallbacksInOrder
    <3>7. PendingInv'
      BY <2>1, <3>4 DEF OrderInv, PendingInv
    <3>8. QueueInOrder'
      BY <2>1, <3>1 DEF OrderInv, QueueInOrder
    <3>9. QED
      BY <3>6, <3>7, <3>8 DEF OrderInv
  <2>4. QED
    BY <2>2, <2>3
<1>25. CASE CallbackReturns
  <2>1. queue' = queue /\ called' = called /\ appended' = appended
    BY <1>25 DEF CallbackReturns, Jump
  <2>2. CalledFront' <=> CalledFront
    BY <1>25, ThreadsAssumption DEF CallbackReturns, Jump, CalledFront, Holding, InUserCode, TypeInv, TypeOK, WorkersInv, UnshiftInv
  <2>3. QED
    BY <2>1, <2>2, QuietStep, TypeInvStep
<1>26. CASE PopWriteItem
  <2>1. /\ queue' = Tail(queue) /\ appended' = appended /\ called' = called
        /\ queue # << >> /\ Head(queue) = item /\ pc[Loop] = "pop" /\ pc'[Loop] = "write"
    BY <1>26, ThreadsAssumption DEF PopWriteItem, TypeInv, TypeOK, HoldInv, Holding
  <2>2. queue \in Seq(Nat) /\ appended \in Nat /\ called \in Seq(Nat)
    BY BoundsAssumption DEF TypeInv, TypeOK, Items, Dummy
  <2>3. ~CalledFront' /\ (CalledFront <=> queue[1] # Dummy)
    BY <2>1, <2>2 DEF CalledFront, Holding
  <2>4. Popped \in Int /\ Popped' = Popped + (IF queue[1] # Dummy THEN 1 ELSE 0)
    BY <2>1, <2>2, <2>3 DEF Popped
  <2>5. /\ Len(queue') = Len(queue) - 1 /\ DOMAIN queue' = 1..(Len(queue) - 1)
        /\ \A k \in 1..(Len(queue) - 1) : queue'[k] = queue[k + 1]
        /\ queue' \in Seq(Nat) /\ Len(queue) \in Nat \ {0}
    BY <2>1, <2>2
  <2>6. /\ \A k \in 1..Len(queue) : queue[k] # Dummy => queue[k] = appended - (Len(queue) - k)
        /\ \A j, k \in 1..Len(queue) : j < k /\ queue[k] = Dummy => queue[j] = Dummy
    <3>1. DOMAIN queue = 1..Len(queue)
      BY <2>2
    <3>2. QED
      BY <3>1 DEF OrderInv, QueueInOrder
  <2>7. QueueInOrder'
    <3>1. ASSUME NEW k \in 1..(Len(queue) - 1)
          PROVE  queue'[k] = Dummy \/ queue'[k] = appended - (Len(queue') - k)
      <4>1. k + 1 \in 1..Len(queue) /\ queue'[k] = queue[k + 1]
        BY <2>5
      <4>2. Len(queue) - (k + 1) = Len(queue') - k
        BY <2>5
      <4>3. QED
        BY <2>6, <4>1, <4>2
    <3>2. ASSUME NEW j \in 1..(Len(queue) - 1), NEW k \in 1..(Len(queue) - 1),
                 j < k, queue'[k] = Dummy
          PROVE  queue'[j] = Dummy
      <4>1. /\ j + 1 \in 1..Len(queue) /\ k + 1 \in 1..Len(queue) /\ j + 1 < k + 1
            /\ queue'[j] = queue[j + 1] /\ queue'[k] = queue[k + 1]
        BY <2>5, <3>2
      <4>2. QED
        BY <2>6, <3>2, <4>1
    <3>3. QED
      BY <2>1, <2>5, <3>1, <3>2 DEF QueueInOrder
  <2>8. /\ queue[1] # Dummy => queue[1] = Popped + 1
        /\ \A k \in 2..Len(queue) :
              queue[k] # Dummy /\ queue[k - 1] = Dummy => queue[k] = Popped + 1
        /\ queue[Len(queue)] = Dummy => Popped = appended
    <3>1. DOMAIN queue = 1..Len(queue) /\ 1 \in DOMAIN queue
      BY <2>2, <2>5
    <3>2. queue[1] # Dummy => queue[1] = Popped + 1
      BY <3>1 DEF OrderInv, PendingInv
    <3>3. ASSUME NEW k \in 2..Len(queue), queue[k] # Dummy, queue[k - 1] = Dummy
          PROVE  queue[k] = Popped + 1
      <4>1. k \in DOMAIN queue
        BY <2>5, <3>1
      <4>2. QED
        BY <3>3, <4>1 DEF OrderInv, PendingInv
    <3>4. queue[Len(queue)] = Dummy => Popped = appended
      BY DEF OrderInv, PendingInv
    <3>5. QED
      BY <3>2, <3>3, <3>4
  <2>9. PendingInv'
    <3>1. CASE queue[1] = Dummy
      <4>1. Popped' = Popped
        BY <2>4, <3>1
      <4>2. \A k \in 1..(Len(queue) - 1) :
               queue'[k] # Dummy /\ (k = 1 \/ queue'[k - 1] = Dummy) => queue'[k] = Popped + 1
        <5>1. ASSUME NEW k \in 1..(Len(queue) - 1),
                     queue'[k] # Dummy, k = 1 \/ queue'[k - 1] = Dummy
              PROVE  queue'[k] = Popped + 1
          <6>1. k + 1 \in 2..Len(queue) /\ queue'[k] = queue[k + 1]
            BY <2>5
          <6>2. queue[k] = Dummy
            <7>1. CASE k = 1
              BY <3>1, <7>1
            <7>2. CASE k # 1
              <8>1. k - 1 \in 1..(Len(queue) - 1) /\ (k - 1) + 1 = k
                BY <2>5, <7>2
              <8>2. QED
                BY <2>5, <5>1, <7>2, <8>1
            <7>3. QED
              BY <7>1, <7>2
          <6>3. (k + 1) - 1 = k
            BY <2>5
          <6>4. QED
            BY <2>8, <5>1, <6>1, <6>2, <6>3
        <5>2. QED
          BY <5>1
      <4>3. (queue' = << >> \/ queue'[Len(queue')] = Dummy) => queue[Len(queue)] = Dummy
        BY <2>5, <3>1
      <4>4. QED
        BY <2>1, <2>5, <2>8, <4>1, <4>2, <4>3 DEF PendingInv
    <3>2. CASE queue[1] # Dummy
      <4>1. Popped' = Popped + 1 /\ queue[1] = Popped + 1
        BY <2>4, <2>8, <3>2
      <4>2. \A k \in 1..Len(queue) : queue[k] # Dummy /\ queue[k] = appended - (Len(queue) - k)
        <5>1. ASSUME NEW k \in 1..Len(queue) PROVE queue[k] # Dummy
          <6>1. CASE k = 1
            BY <3>2, <6>1
          <6>2. CASE k # 1
            <7>1. 1 \in 1..Len(queue) /\ 1 < k
              BY <2>5, <6>2
            <7>2. QED
              BY <2>6, <3>2, <7>1
          <6>3. QED
            BY <6>1, <6>2
        <5>2. QED
          BY <2>6, <5>1
      <4>3. appended = Popped + Len(queue)
        <5>1. queue[1] = appended - (Len(queue) - 1)
          BY <2>5, <4>2
        <5>2. Len(queue) \in Int /\ appended \in Int /\ Popped \in Int
          BY <2>2, <2>4, <2>5
        <5>3. QED
          BY <4>1, <5>1, <5>2
      <4>4. \A k \in 1..(Len(queue) - 1) : queue'[k] # Dummy /\ queue'[k] = Popped + k + 1
        BY <2>2, <2>4, <2>5, <4>2, <4>3
      <4>5. QED
        <5>1. ASSUME NEW k \in DOMAIN queue',
                     queue'[k] # Dummy /\ (k = 1 \/ queue'[k - 1] = Dummy)
              PROVE  queue'[k] = Popped' + 1
          <6>1. k = 1
            BY <2>5, <4>4, <5>1
          <6>2. QED
            BY <2>4, <2>5, <4>1, <4>4, <5>1, <6>1
        <5>2. queue' = << >> => Popped' = appended
          <6>1. queue' = << >> => Len(queue) = 1
            BY <2>5
          <6>2. QED
            BY <4>1, <4>3, <6>1
        <5>3. queue' # << >> => queue'[Len(queue')] # Dummy
          BY <2>5, <4>4
        <5>4. QED
          BY <2>1, <5>1, <5>2, <5>3 DEF PendingInv
    <3>3. QED
      BY <3>1, <3>2
  <2>10. QED
    BY <2>1, <2>7, <2>9 DEF OrderInv, CallbacksInOrder
<1>27. CASE WriteAgain
  <2>1. queue' = queue /\ called' = called /\ appended' = appended
    BY <1>27 DEF WriteAgain, Jump, Unfinished
  <2>2. CalledFront' <=> CalledFront
    BY <1>27, ThreadsAssumption DEF WriteAgain, Jump, Unfinished, CalledFront, Holding, InUserCode, TypeInv, TypeOK, WorkersInv, UnshiftInv
  <2>3. QED
    BY <2>1, <2>2, QuietStep, TypeInvStep
<1>28. CASE WriteInterrupted
  <2>1. queue' = queue /\ called' = called /\ appended' = appended
    BY <1>28 DEF WriteInterrupted, Jump, Unfinished
  <2>2. CalledFront' <=> CalledFront
    BY <1>28, ThreadsAssumption DEF WriteInterrupted, Jump, Unfinished, CalledFront, Holding, InUserCode, TypeInv, TypeOK, WorkersInv, UnshiftInv
  <2>3. QED
    BY <2>1, <2>2, QuietStep, TypeInvStep
<1>29. CASE HandshakeWantsWrite
  <2>1. queue' = queue /\ called' = called /\ appended' = appended
    BY <1>29 DEF HandshakeWantsWrite
  <2>2. CalledFront' <=> CalledFront
    BY <1>29, ThreadsAssumption DEF HandshakeWantsWrite, CalledFront, Holding, InUserCode, TypeInv, TypeOK, WorkersInv, UnshiftInv
  <2>3. QED
    BY <2>1, <2>2, QuietStep, TypeInvStep
<1>30. CASE WriteFails
  <2>1. queue' = queue /\ called' = called /\ appended' = appended
    BY <1>30 DEF WriteFails, Exchange, Unfinished
  <2>2. CalledFront' <=> CalledFront
    BY <1>30, ThreadsAssumption DEF WriteFails, Exchange, Unfinished, CalledFront, Holding, InUserCode, TypeInv, TypeOK, WorkersInv, UnshiftInv
  <2>3. QED
    BY <2>1, <2>2, QuietStep, TypeInvStep
<1>31. CASE UNCHANGED vars
  <2>1. CalledFront' <=> CalledFront
    BY <1>31 DEF CalledFront, Holding
  <2>2. QED
    BY <1>31, <2>1, QuietStep, TypeInvStep
<1>32. QED
  BY <1>1, <1>2, <1>3, <1>4, <1>5, <1>6, <1>7, <1>8, <1>9, <1>10, <1>11, <1>12, <1>13,
     <1>14, <1>15, <1>16, <1>17, <1>18, <1>19, <1>20, <1>21, <1>22, <1>23, <1>24, <1>25,
     <1>26, <1>27, <1>28, <1>29, <1>30, <1>31 DEF Next, Call, Step, LoopStep

\* The queue holds what was pushed and not popped, in order, and callbacks run
\* in order.
THEOREM Order == Spec => []OrderInv
<1>1. Init => OrderInv
  <2> SUFFICES ASSUME Init PROVE OrderInv
    OBVIOUS
  <2>1. queue = << >> /\ called = << >> /\ appended = 0 /\ pc[Loop] = "sweep"
    BY ThreadsAssumption DEF Init, Threads
  <2>2. Popped = 0
    BY <2>1 DEF Popped, CalledFront, Holding, UpdateSteps, DropSteps
  <2>3. QED
    BY <2>1, <2>2 DEF OrderInv, QueueInOrder, CallbacksInOrder, PendingInv
<1>2. TypeInv /\ OrderInv /\ [Next]_vars => OrderInv'
  BY OrderStep
<1>3. QED
  BY <1>1, <1>2, TypeInvariant, PTL DEF Spec

\* No item is lost or duplicated in the queue, handshake items stay in front,
\* and the item popped is the one that was written.
THEOREM QueueOrder == Spec => []QueueInOrder
<1>1. OrderInv => QueueInOrder
  BY DEF OrderInv
<1>2. QED
  BY <1>1, Order, PTL

\* The k-th callback to run is that of the k-th item pushed.
THEOREM CallbackOrder == Spec => []CallbacksInOrder
<1>1. OrderInv => CallbacksInOrder
  BY DEF OrderInv
<1>2. QED
  BY <1>1, Order, PTL

(***************************************************************************)
(* The wire, and the channel that the queue and its threads implement.     *)
(***************************************************************************)

\* Where item i is on the wire.
Bytes(s, i) == {k \in DOMAIN s : s[k] = i}

\* A write of n bytes of item x adds n to x and nothing to the others.
LEMMA BytesAppended ==
    ASSUME NEW S, NEW s \in Seq(S), NEW x \in S, NEW n \in Nat, NEW y, IsFiniteSet(Bytes(s, y))
    PROVE  LET t == s \o [k \in 1..n |-> x]
           IN  /\ IsFiniteSet(Bytes(t, y))
               /\ Cardinality(Bytes(t, y)) = Cardinality(Bytes(s, y)) + (IF x = y THEN n ELSE 0)
<1> DEFINE c == [k \in 1..n |-> x]
           t == s \o c
           new == Len(s) + 1 .. Len(s) + n
<1>1. /\ c \in Seq(S) /\ Len(c) = n /\ \A k \in 1..n : c[k] = x
      /\ Len(s) \in Nat /\ DOMAIN s = 1..Len(s)
  OBVIOUS
<1>2. t \in Seq(S) /\ Len(t) = Len(s) + n /\ DOMAIN t = 1..(Len(s) + n)
  <2>1. t \in Seq(S) /\ Len(t) = Len(s) + Len(c)
    BY <1>1, ConcatProperties
  <2>2. DOMAIN t = 1..Len(t)
    BY <2>1, LenProperties
  <2>3. QED
    BY <1>1, <2>1, <2>2
<1>3. \A k \in 1..(Len(s) + n) : t[k] = IF k <= Len(s) THEN s[k] ELSE c[k - Len(s)]
  BY <1>1, ConcatProperties
<1> HIDE DEF c, t
<1>4. (\A k \in 1..Len(s) : t[k] = s[k]) /\ (\A k \in new : t[k] = x)
  <2>1. ASSUME NEW k \in 1..Len(s)
        PROVE  t[k] = s[k]
    BY <1>1, <1>3
  <2>2. ASSUME NEW k \in new
        PROVE  t[k] = x
    <3>1. k \in 1..(Len(s) + n) /\ ~(k <= Len(s)) /\ k - Len(s) \in 1..n
      BY <1>1
    <3>2. QED
      BY <1>1, <1>3, <3>1
  <2>3. QED
    BY <2>1, <2>2
<1>5. CASE x = y
  <2>1. Bytes(t, y) = Bytes(s, y) \cup new
    BY <1>1, <1>2, <1>4, <1>5 DEF Bytes
  <2>2. Bytes(s, y) \cap new = {}
    BY <1>1 DEF Bytes
  <2>3. IsFiniteSet(new) /\ Cardinality(new) = n
    <3>1. \A a, b \in Int : IsFiniteSet(a..b) /\ Cardinality(a..b) = IF a > b THEN 0 ELSE b - a + 1
      BY FS_Interval
    <3>2. Len(s) + 1 \in Int /\ Len(s) + n \in Int
      BY <1>1
    <3>3. IsFiniteSet(new)
      BY <3>1, <3>2
    <3>4. Cardinality(new) = IF Len(s) + 1 > Len(s) + n THEN 0 ELSE (Len(s) + n) - (Len(s) + 1) + 1
      BY <3>1, <3>2
    <3>5. (IF Len(s) + 1 > Len(s) + n THEN 0 ELSE (Len(s) + n) - (Len(s) + 1) + 1) = n
      BY <1>1
    <3>6. QED
      BY <3>3, <3>4, <3>5
  <2>4. /\ IsFiniteSet(Bytes(t, y))
        /\ Cardinality(Bytes(t, y))
              = Cardinality(Bytes(s, y)) + Cardinality(new) - Cardinality(Bytes(s, y) \cap new)
    BY <2>1, <2>3, FS_Union
  <2>5. Cardinality(Bytes(s, y)) \in Nat /\ Cardinality(Bytes(s, y) \cap new) = 0
    BY <2>2, FS_CardinalityType, FS_EmptySet
  <2>6. Cardinality(Bytes(t, y)) = Cardinality(Bytes(s, y)) + n
    BY <2>3, <2>4, <2>5
  <2>7. QED
    BY <1>5, <2>4, <2>6 DEF t, c
<1>6. CASE x # y
  <2>1. Bytes(t, y) = Bytes(s, y)
    BY <1>1, <1>2, <1>4, <1>6 DEF Bytes
  <2>2. Cardinality(Bytes(s, y)) \in Nat
    BY FS_CardinalityType
  <2>3. QED
    BY <1>6, <2>1, <2>2 DEF t, c
<1>7. QED
  BY <1>5, <1>6 DEF t, c

\* Pos of an item counts its bytes on the wire while the descriptor is open, and never
\* exceeds its size.
WireInv ==
    \A i \in Items :
        /\ pos[i] <= Size[i]
        /\ IsFiniteSet(Bytes(wire, i))
        /\ open => Cardinality(Bytes(wire, i)) = pos[i]

\* Only write(2) moves bytes, and nothing opens a descriptor again.
LEMMA WireUnchanged ==
    ASSUME [Next]_vars
    PROVE  (UNCHANGED <<pos, wire>> /\ (open' => open)) \/ WriteSome
<1> USE DEF clientVars, envVars, callVars, historyVars
<1>1. ASSUME NEW t \in Threads, Call(t) \/ Step(t)
      PROVE  UNCHANGED <<pos, wire>> /\ (open' => open)
  BY <1>1 DEF Call, Step, PushWriteQueue, Drop, WakeLoop, IsAlive, ShouldWrite, SetEvFilter,
     AddEvent, WakeFromDestroy, RemoveEvent, Close
<1>2. CASE LoopStep
  BY <1>2 DEF LoopStep, Jump, UnshiftDummyWriteQueueItem, Sweep, WaitWoken, WaitOther, Poll,
     Dispatch, ReadData, OnDataReturns, ReadAgain, ReadWantsWrite, ReadFails, GetWriteItem,
     Written, CallbackReturns, PopWriteItem, WriteAgain, WriteInterrupted, HandshakeWantsWrite,
     WriteFails
<1>3. CASE UNCHANGED vars
  BY <1>3 DEF vars
<1>4. QED
  BY <1>1, <1>2, <1>3 DEF Next

LEMMA WireStep ==
    ASSUME TypeInv, WireInv, [Next]_vars
    PROVE  WireInv'
<1>1. CASE UNCHANGED <<pos, wire>> /\ (open' => open)
  BY <1>1 DEF WireInv, Bytes
<1>2. CASE WriteSome
  <2>1. item \in Items /\ open' = open
    BY <1>2 DEF WriteSome, TypeInv, TypeOK, envVars
  <2>2. PICK n \in 1..(Size[item] - pos[item]) :
           /\ pos' = [pos EXCEPT ![item] = @ + n]
           /\ wire' = IF open THEN wire \o [k \in 1..n |-> item] ELSE wire
    BY <1>2 DEF WriteSome
  <2>3. /\ wire \in Seq(Items) /\ pos \in [Items -> Nat]
        /\ Size[item] \in Nat /\ pos[item] \in Nat
    BY <2>1, SizeAssumption DEF TypeInv, TypeOK, Items
  <2>4. n \in Nat /\ pos[item] + n <= Size[item]
    BY <2>2, <2>3
  <2>5. ASSUME NEW i \in Items
        PROVE  /\ pos'[i] <= Size[i]
               /\ IsFiniteSet(Bytes(wire', i))
               /\ open' => Cardinality(Bytes(wire', i)) = pos'[i]
    <3>1. pos'[i] = pos[i] + (IF item = i THEN n ELSE 0)
      <4>1. pos[i] \in Nat /\ pos'[i] = IF item = i THEN pos[i] + n ELSE pos[i]
        BY <2>1, <2>2, <2>3
      <4>2. QED
        BY <4>1
    <3>2. pos[i] <= Size[i] /\ IsFiniteSet(Bytes(wire, i)) /\ (open => Cardinality(Bytes(wire, i)) = pos[i])
      BY DEF WireInv
    <3>3. pos'[i] <= Size[i]
      <4>1. CASE item = i
        BY <2>4, <3>1, <4>1
      <4>2. CASE item # i
        BY <2>3, <3>1, <3>2, <4>2
      <4>3. QED
        BY <4>1, <4>2
    <3>4. CASE open
      <4>1. /\ IsFiniteSet(Bytes(wire', i))
            /\ Cardinality(Bytes(wire', i)) = Cardinality(Bytes(wire, i)) + (IF item = i THEN n ELSE 0)
        BY <2>1, <2>2, <2>3, <2>4, <3>2, <3>4, BytesAppended
      <4>2. QED
        BY <3>1, <3>2, <3>3, <3>4, <4>1
    <3>5. CASE ~open
      BY <2>1, <2>2, <3>2, <3>3, <3>5
    <3>6. QED
      BY <3>4, <3>5
  <2>6. QED
    BY <2>5 DEF WireInv
<1>3. QED
  BY <1>1, <1>2, WireUnchanged

\* The item Cb writes is the oldest that is not completed.
LEMMA WritesOldest ==
    ASSUME TypeInv, OrderInv, pc[Loop] = "writing", item # Dummy
    PROVE  item \in Items /\ item = Len(called) + 1 /\ Len(called) < appended
<1>1. queue # << >> /\ Head(queue) = item
  BY DEF TypeInv, HoldInv, Holding
<1>2. queue \in Seq(Nat) /\ appended \in Nat /\ item \in Items /\ Len(called) \in Nat
  BY BoundsAssumption DEF TypeInv, TypeOK, Items, Dummy
<1>3. 1 \in DOMAIN queue /\ queue[1] = item /\ Len(queue) \in Nat \ {0}
  BY <1>1, <1>2
<1>4. Popped = Len(called)
  BY <1>2 DEF Popped, CalledFront
<1>5. item = Popped + 1
  BY <1>3 DEF OrderInv, PendingInv
<1>6. item = appended - (Len(queue) - 1)
  BY <1>3 DEF OrderInv, QueueInOrder
<1>7. QED
  BY <1>2, <1>3, <1>4, <1>5, <1>6

\* The steps that neither push, write, complete nor close leave the channel as it is.
LEMMA ChannelStutters ==
    ASSUME [Next]_vars
    PROVE  \/ UNCHANGED <<appended, wire, called, open>>
           \/ WriteSome \/ Written
           \/ \E t \in Threads : PushWriteQueue(t) \/ Close(t)
<1> USE DEF clientVars, envVars, callVars, historyVars
<1>1. ASSUME NEW t \in Threads, Call(t) \/ Step(t)
      PROVE  \/ UNCHANGED <<appended, wire, called, open>>
             \/ PushWriteQueue(t) \/ Close(t)
  BY <1>1 DEF Call, Step, Drop, WakeLoop, IsAlive, ShouldWrite, SetEvFilter, AddEvent,
     WakeFromDestroy, RemoveEvent
<1>2. CASE LoopStep
  BY <1>2 DEF LoopStep, Jump, UnshiftDummyWriteQueueItem, Sweep, WaitWoken, WaitOther, Poll,
     Dispatch, ReadData, OnDataReturns, ReadAgain, ReadWantsWrite, ReadFails, GetWriteItem,
     CallbackReturns, PopWriteItem, WriteAgain, WriteInterrupted, HandshakeWantsWrite, WriteFails
<1>3. CASE UNCHANGED vars
  BY <1>3 DEF vars
<1>4. QED
  BY <1>1, <1>2, <1>3 DEF Next

\* The channel's byte count is the one of WireInv.
LEMMA SameCardinality == \A S : Channel!Cardinality(S) = Cardinality(S)
  BY DEF Channel!Cardinality, Cardinality

LEMMA SentOfIs == \A i : Channel!SentOf(i) = Cardinality(Bytes(wire, i))
  BY SameCardinality DEF Channel!SentOf, Bytes

LEMMA ChannelStep ==
    ASSUME TypeInv, TearDownInv, OrderInv, WireInv, [Next]_vars
    PROVE  [Channel!Next]_(Channel!vars)
<1>1. CASE UNCHANGED <<appended, wire, called, open>>
  BY <1>1 DEF Channel!vars
<1>2. ASSUME NEW t \in Threads, PushWriteQueue(t)
      PROVE  Channel!Accept
  BY <1>2 DEF PushWriteQueue, envVars, Channel!Accept
<1>3. ASSUME NEW t \in Threads, Close(t)
      PROVE  Channel!Close
  <2>1. open
    BY <1>3 DEF Close, TearDownInv, DropSteps
  <2>2. QED
    BY <1>3, <2>1 DEF Close, Channel!Close
<1>4. CASE WriteSome
  <2>1. /\ pc[Loop] = "writing" /\ item # Dummy /\ UNCHANGED <<appended, called, open>>
    BY <1>4 DEF WriteSome, envVars
  <2>2. item \in Items /\ item = Len(called) + 1 /\ Len(called) < appended
    BY <2>1, WritesOldest
  <2>3. CASE open
    <3>1. Channel!SentOf(item) = pos[item]
      BY <2>2, <2>3, SentOfIs DEF WireInv
    <3>2. \E n \in 1..(Size[item] - Channel!SentOf(item)) : wire' = wire \o [k \in 1..n |-> item]
      BY <1>4, <2>3, <3>1 DEF WriteSome
    <3>3. QED
      BY <2>1, <2>2, <2>3, <3>2 DEF Channel!Next, Channel!Transmit
  <2>4. CASE ~open
    BY <1>4, <2>1, <2>4 DEF WriteSome, Channel!vars
  <2>5. QED
    BY <2>3, <2>4
<1>5. CASE Written
  <2>1. pc[Loop] = "writing" /\ UNCHANGED <<appended, wire, open>>
    BY <1>5 DEF Written, envVars
  <2>2. CASE item = Dummy
    BY <1>5, <2>1, <2>2 DEF Written, Channel!vars
  <2>3. CASE item # Dummy
    <3>1. item \in Items /\ item = Len(called) + 1 /\ Len(called) < appended
      BY <2>1, <2>3, WritesOldest
    <3>2. Len(called') = Len(called) + 1
      BY <1>5, <2>3, <3>1 DEF Written, TypeInv, TypeOK
    <3>3. pos[item] = Size[item]
      <4>1. pos[item] >= Size[item] /\ pos[item] <= Size[item]
        BY <1>5, <2>3, <3>1 DEF Written, WireInv
      <4>2. pos[item] \in Nat /\ Size[item] \in Nat
        BY <3>1, SizeAssumption DEF TypeInv, TypeOK, Items
      <4>3. QED
        BY <4>1, <4>2
    <3>4. open => Channel!SentOf(item) = Size[item]
      BY <3>1, <3>3, SentOfIs DEF WireInv
    <3>5. QED
      BY <2>1, <3>1, <3>2, <3>4 DEF Channel!Next, Channel!Complete
  <2>4. QED
    BY <2>2, <2>3
<1>6. QED
  BY <1>1, <1>2, <1>3, <1>4, <1>5, ChannelStutters DEF Channel!Next

\* The queue with its handshake items and the threads around it implement the ordered channel:
\* the bytes of two items are never interleaved on the wire, and an item completes once, in the
\* order of the pushes, and on an open descriptor only with all its bytes sent.
THEOREM ChannelIsImplemented == Spec => ImplementsChannel
<1>1. Init => WireInv
  <2> SUFFICES ASSUME Init PROVE WireInv
    OBVIOUS
  <2>1. ASSUME NEW i \in Items
        PROVE  /\ pos[i] <= Size[i]
               /\ IsFiniteSet(Bytes(wire, i))
               /\ open => Cardinality(Bytes(wire, i)) = pos[i]
    <3>1. pos[i] = 0 /\ Size[i] \in Nat
      BY SizeAssumption DEF Init, Items
    <3>2. Bytes(wire, i) = {}
      BY DEF Init, Bytes
    <3>3. QED
      BY <3>1, <3>2, FS_EmptySet
  <2>2. QED
    BY <2>1 DEF WireInv
<1>2. TypeInv /\ WireInv /\ [Next]_vars => WireInv'
  BY WireStep
<1>3. Init => Channel!Init
  BY DEF Init, Channel!Init
<1>4. TypeInv /\ TearDownInv /\ OrderInv /\ WireInv /\ [Next]_vars => [Channel!Next]_(Channel!vars)
  BY ChannelStep
<1>5. QED
  BY <1>1, <1>2, <1>3, <1>4, TypeInvariant, TearDown, Order, PTL
     DEF Spec, ImplementsChannel, Channel!Spec

-----------------------------------------------------------------------------
(***************************************************************************)
(* The filter the kernel has is the one the node has.                      *)
(***************************************************************************)

\* Of a live client the registration is EvFilter, or some thread is about to hand it over:
\* the last one to do so hands over what every thread has written.
RegInv ==
    ~destroyed =>
        /\ registered # {}
        /\ registered = evFilter \/ \E t \in Threads : pc[t] = "add"

\* A step that touches no filter.
KeepsFilter ==
    /\ UNCHANGED <<evFilter, registered>>
    /\ destroyed => destroyed'
    /\ \A t \in Threads : pc[t] = "add" => pc'[t] = "add"

LEMMA FilterKept ==
    ASSUME RegInv, KeepsFilter
    PROVE  RegInv'
  BY DEF RegInv, KeepsFilter

\* The loop's own steps touch no filter.
LEMMA LoopKeepsFilter ==
    ASSUME TypeInv, LoopStep
    PROVE  KeepsFilter
<1> USE ThreadsAssumption
    DEF KeepsFilter, TypeInv, TypeOK, Threads, Goto, Jump, clientVars, envVars, callVars, historyVars
<1>1. CASE UnshiftDummyWriteQueueItem
  BY <1>1 DEF UnshiftDummyWriteQueueItem
<1>2. CASE Sweep \/ WaitWoken \/ WaitOther \/ Dispatch
  BY <1>2 DEF Sweep, WaitWoken, WaitOther, Dispatch
<1>3. ASSUME NEW f, Poll(f)
      PROVE  KeepsFilter
  BY <1>3 DEF Poll
<1>4. CASE ReadData \/ OnDataReturns \/ ReadAgain \/ ReadWantsWrite
  BY <1>4 DEF ReadData, OnDataReturns, ReadAgain, ReadWantsWrite
<1>5. CASE ReadFails \/ WriteFails
  BY <1>5 DEF ReadFails, WriteFails, Exchange
<1>6. CASE GetWriteItem \/ WriteSome \/ Written
  BY <1>6 DEF GetWriteItem, WriteSome, Written
<1>7. CASE CallbackReturns \/ PopWriteItem \/ WriteAgain \/ WriteInterrupted \/ HandshakeWantsWrite
  BY <1>7 DEF CallbackReturns, PopWriteItem, WriteAgain, WriteInterrupted, HandshakeWantsWrite
<1>8. QED
  BY <1>1, <1>2, <1>3, <1>4, <1>5, <1>6, <1>7 DEF LoopStep

\* The steps of a call that any thread may take, those of UpdateEvent and Destroy apart.
LEMMA CallKeepsFilter ==
    ASSUME TypeInv, NEW t \in Threads,
           \/ PushWriteQueue(t) \/ Drop(t) \/ WakeLoop(t)
           \/ IsAlive(t) \/ ShouldWrite(t) \/ WakeFromDestroy(t)
    PROVE  KeepsFilter
<1> USE DEF KeepsFilter, TypeInv, TypeOK, Goto, clientVars, envVars, callVars, historyVars
<1>1. CASE PushWriteQueue(t) \/ Drop(t)
  <2>1. pc[t] # "add"
    BY <1>1 DEF PushWriteQueue, Drop, InUserCode
  <2>2. QED
    BY <1>1, <2>1 DEF PushWriteQueue, Drop, Exchange
<1>2. CASE WakeLoop(t) \/ IsAlive(t) \/ ShouldWrite(t) \/ WakeFromDestroy(t)
  BY <1>2 DEF WakeLoop, IsAlive, ShouldWrite, WakeFromDestroy
<1>3. QED
  BY <1>1, <1>2

LEMMA RegStep ==
    ASSUME TypeInv, TearDownInv, RegInv, [Next]_vars
    PROVE  RegInv'
<1> USE DEF TypeInv, TypeOK, Goto, clientVars, envVars, callVars, historyVars
<1>1. ASSUME NEW t \in Threads, SetEvFilter(t)
      PROVE  RegInv'
  <2>1. pc[t] = "compare" /\ UNCHANGED <<destroyed, registered>> /\ evFilter' = filter[t]
    BY <1>1 DEF SetEvFilter
  <2>2. CASE filter[t] # evFilter
    <3>1. pc'[t] = "add"
      BY <1>1, <2>2 DEF SetEvFilter
    <3>2. QED
      BY <2>1, <3>1 DEF RegInv
  <2>3. CASE filter[t] = evFilter
    <3>1. \A u \in Threads : pc[u] = "add" => pc'[u] = "add"
      BY <1>1, <2>1 DEF SetEvFilter
    <3>2. QED
      BY <2>1, <2>3, <3>1 DEF RegInv
  <2>4. QED
    BY <2>2, <2>3
<1>2. ASSUME NEW t \in Threads, AddEvent(t)
      PROVE  RegInv'
  <2>1. UNCHANGED <<destroyed, evFilter>>
    BY <1>2 DEF AddEvent
  <2>2. ~destroyed => registered' = evFilter
    BY <1>2 DEF AddEvent, RegInv, TearDownInv
  <2>3. evFilter # {}
    BY DEF Filters
  <2>4. QED
    BY <2>1, <2>2, <2>3 DEF RegInv
<1>3. ASSUME NEW t \in Threads, RemoveEvent(t) \/ Close(t)
      PROVE  RegInv'
  <2>1. pc[t] \in DropSteps /\ destroyed' = destroyed
    BY <1>3 DEF RemoveEvent, Close, DropSteps
  <2>2. QED
    BY <2>1 DEF RegInv, TearDownInv
<1>4. CASE UNCHANGED vars
  BY <1>4 DEF vars, RegInv
<1>5. QED
  BY <1>1, <1>2, <1>3, <1>4, FilterKept, LoopKeepsFilter, CallKeepsFilter DEF Next, Call, Step

\* However the threads' calls to UpdateEvent interleave, the last of them leaves the kernel
\* waiting for what EvFilter says.
THEOREM KernelHasFilter == Spec => []FilterIsRegistered
<1>1. Init => RegInv
  BY DEF Init, RegInv
<1>2. TypeInv /\ TearDownInv /\ RegInv /\ [Next]_vars => RegInv'
  BY RegStep
<1>3. RegInv => FilterIsRegistered
  BY DEF RegInv, FilterIsRegistered, UpdateSteps
<1>4. QED
  BY <1>1, <1>2, <1>3, TypeInvariant, TearDown, PTL DEF Spec

(***************************************************************************)
(* Who owns the client while Cb runs.                                      *)
(***************************************************************************)

\* Only the loop's thread drops the client.
OnlyLoopDrops == Droppers = {}

\* Cb runs, or a call made from within it.
Inside ==
    \/ pc[Loop] \in CbSteps
    \/ pc[Loop] \in UpdateSteps \cup DropSteps \cup {"wake", "unshift"} /\ ret[Loop] \in CbSteps

\* The sweep takes the client out of ActiveClients when Destroy has finished.
OwnedInv ==
    /\ \A w \in Workers : pc[w] \notin DropSteps
    /\ swept => ~open
    /\ Inside => ~swept \/ strayed

\* A step that neither sweeps, nor closes, nor starts Cb.
KeepsOwner ==
    /\ UNCHANGED <<open, swept>> /\ (strayed => strayed')
    /\ Inside' => Inside
    /\ \A w \in Workers : pc'[w] \in DropSteps => pc[w] \in DropSteps

LEMMA OwnerKept ==
    ASSUME OwnedInv, KeepsOwner
    PROVE  OwnedInv'
  BY DEF OwnedInv, KeepsOwner

LEMMA LoopKeepsOwner ==
    ASSUME TypeInv, LoopStep
    PROVE  \/ KeepsOwner
           \/ Sweep
           \/ \E f \in SUBSET {"READ", "WRITE"} : Poll(f)
<1> USE ThreadsAssumption
    DEF KeepsOwner, Inside, TypeInv, TypeOK, Threads, CbSteps, UpdateSteps, DropSteps,
        Goto, Jump, clientVars, envVars, callVars, historyVars
<1>1. CASE UnshiftDummyWriteQueueItem
  BY <1>1 DEF UnshiftDummyWriteQueueItem
<1>2. CASE WaitWoken \/ WaitOther \/ Dispatch
  BY <1>2 DEF WaitWoken, WaitOther, Dispatch, WritePart
<1>3. CASE ReadData \/ OnDataReturns \/ ReadAgain \/ ReadWantsWrite
  BY <1>3 DEF ReadData, OnDataReturns, ReadAgain, ReadWantsWrite, WritePart
<1>4. CASE ReadFails \/ WriteFails
  BY <1>4 DEF ReadFails, WriteFails, Exchange
<1>5. CASE GetWriteItem \/ WriteSome \/ Written
  BY <1>5 DEF GetWriteItem, WriteSome, Written
<1>6. CASE CallbackReturns \/ PopWriteItem \/ WriteAgain \/ WriteInterrupted \/ HandshakeWantsWrite
  BY <1>6 DEF CallbackReturns, PopWriteItem, WriteAgain, WriteInterrupted, HandshakeWantsWrite
<1>7. QED
  BY <1>1, <1>2, <1>3, <1>4, <1>5, <1>6 DEF LoopStep

LEMMA CallKeepsOwner ==
    ASSUME OnlyLoopDrops, TypeInv, OwnedInv, NEW t \in Threads,
           \/ PushWriteQueue(t) \/ Drop(t) \/ WakeLoop(t) \/ IsAlive(t) \/ ShouldWrite(t)
           \/ SetEvFilter(t) \/ AddEvent(t) \/ WakeFromDestroy(t) \/ RemoveEvent(t)
    PROVE  KeepsOwner
<1> USE ThreadsAssumption
    DEF KeepsOwner, Inside, TypeInv, TypeOK, Threads, WorkersInv, CbSteps, UpdateSteps, DropSteps,
        Goto, clientVars, envVars, callVars, historyVars
<1>1. CASE PushWriteQueue(t)
  BY <1>1 DEF PushWriteQueue, InUserCode
<1>2. CASE Drop(t)
  <2>1. t = Loop
    BY <1>2 DEF Drop, OnlyLoopDrops
  <2>2. QED
    BY <1>2, <2>1 DEF Drop, Exchange, InUserCode
<1>3. CASE WakeLoop(t)
  BY <1>3 DEF WakeLoop
<1>4. CASE IsAlive(t) \/ ShouldWrite(t)
  BY <1>4 DEF IsAlive, ShouldWrite
<1>5. CASE SetEvFilter(t)
  BY <1>5 DEF SetEvFilter
<1>6. CASE AddEvent(t)
  BY <1>6 DEF AddEvent
<1>7. CASE WakeFromDestroy(t) \/ RemoveEvent(t)
  <2>1. pc[t] \in DropSteps
    BY <1>7 DEF WakeFromDestroy, RemoveEvent
  <2>2. QED
    BY <1>7, <2>1 DEF WakeFromDestroy, RemoveEvent, OwnedInv
<1>8. QED
  BY <1>1, <1>2, <1>3, <1>4, <1>5, <1>6, <1>7

LEMMA OwnedStep ==
    ASSUME OnlyLoopDrops, TypeInv, TearDownInv, OwnedInv, [Next]_vars
    PROVE  OwnedInv'
<1> USE ThreadsAssumption
    DEF TypeInv, TypeOK, Threads, Goto, clientVars, envVars, callVars, historyVars
<1>1. CASE Sweep
  <2>1. /\ pc[Loop] = "sweep" /\ pc'[Loop] = "wait" /\ open' = open
        /\ swept' = (swept \/ destroyed) /\ \A w \in Workers : pc'[w] = pc[w]
    BY <1>1 DEF Sweep
  <2>2. destroyed => ~open
    BY <2>1 DEF TearDownInv, OwnedInv, DropSteps
  <2>3. ~Inside'
    BY <2>1 DEF Inside, CbSteps, UpdateSteps, DropSteps
  <2>4. QED
    BY <2>1, <2>2, <2>3 DEF OwnedInv
<1>2. ASSUME NEW f \in SUBSET {"READ", "WRITE"}, Poll(f)
      PROVE  OwnedInv'
  <2>1. registered # {} /\ UNCHANGED <<open, swept, strayed>> /\ \A w \in Workers : pc'[w] = pc[w]
    BY <1>2 DEF Poll
  <2>2. ~swept \/ strayed
    BY <2>1 DEF OwnedInv, TearDownInv
  <2>3. QED
    BY <2>1, <2>2 DEF OwnedInv
<1>3. ASSUME NEW t \in Threads, Close(t)
      PROVE  OwnedInv'
  <2>1. t = Loop
    BY <1>3 DEF Close, OwnedInv, DropSteps
  <2>2. /\ pc[Loop] = "close" /\ pc'[Loop] = ret[Loop] /\ ret' = ret
        /\ ~open' /\ UNCHANGED <<swept, strayed>> /\ \A w \in Workers : pc'[w] = pc[w]
    BY <1>3, <2>1 DEF Close
  <2>3. ret[Loop] \notin UpdateSteps \cup DropSteps \cup {"wake", "unshift"}
    BY DEF UpdateSteps, DropSteps
  <2>4. Inside' => Inside
    BY <2>2, <2>3 DEF Inside, DropSteps
  <2>5. QED
    BY <2>2, <2>4 DEF OwnedInv
<1>4. CASE UNCHANGED vars
  BY <1>4 DEF vars, OwnedInv, Inside
<1>5. QED
  BY <1>1, <1>2, <1>3, <1>4, OwnerKept, LoopKeepsOwner, CallKeepsOwner DEF Next, Call, Step

\* Whatever the workers push, Cb and the callbacks it makes run on a client that something
\* owns, as long as only the loop's own thread drops it and no push registers it after that.
THEOREM PushersLeaveOwner ==
    ASSUME OnlyLoopDrops
    PROVE  Spec => [](strayed \/ CbOnOwnedClient)
<1>1. Init => OwnedInv
  BY ThreadsAssumption DEF Init, OwnedInv, Inside, Threads, CbSteps, UpdateSteps, DropSteps
<1>2. TypeInv /\ TearDownInv /\ OwnedInv /\ [Next]_vars => OwnedInv'
  BY OwnedStep
<1>3. OwnedInv => strayed \/ CbOnOwnedClient
  BY DEF OwnedInv, Inside, CbOnOwnedClient, Referenced
<1>4. QED
  BY <1>1, <1>2, <1>3, TypeInvariant, TearDown, PTL DEF Spec

(***************************************************************************)
(* A client that only the loop's thread uses.                              *)
(***************************************************************************)

NoWorkers == Workers = {}

\* Cb and the callbacks it makes, a Drop in any of them included, run on a client that
\* ActiveClients still owns: the sweep waits until they have returned.
THEOREM CbOwnsClient ==
    ASSUME NoWorkers
    PROVE  Spec => []CbOnOwnedClient
<1>1. OnlyLoopDrops
  BY ThreadsAssumption DEF NoWorkers, OnlyLoopDrops
<1>2. StrayInv => ~strayed
  BY DEF NoWorkers, StrayInv
<1>3. Spec => [](strayed \/ CbOnOwnedClient)
  BY <1>1, PushersLeaveOwner
<1>4. QED
  BY <1>2, <1>3, NeverLate, PTL

\* What ShouldWrite asks for.
Wanted(q) == {"READ"} \cup (IF q # << >> THEN {"WRITE"} ELSE {})

\* Between the handlers, WRITE is registered exactly when the queue holds something; inside of
\* the write part it may be registered for a queue that was just emptied; and UpdateEvent
\* carries the answer from step to step.
ArmInv ==
    ~destroyed =>
        /\ pc[Loop] \in {"sweep", "wait", "dispatch", "read", "ondata", "wake"} =>
              registered = Wanted(queue)
        /\ pc[Loop] \in {"write", "writing", "callback", "pop"} /\ queue # << >> =>
              registered = Wanted(queue)
        /\ pc[Loop] = "compare" => filter[Loop] = Wanted(queue)
        /\ pc[Loop] = "add" => evFilter = Wanted(queue)
        /\ pc[Loop] # "add" => registered = evFilter

LEMMA WantedIs ==
    ASSUME NEW q, NEW r, q # << >> <=> r # << >>
    PROVE  Wanted(q) = Wanted(r)
  BY DEF Wanted

LEMMA ArmStep ==
    ASSUME NoWorkers, TypeInv, TearDownInv, RegInv, ArmInv, [Next]_vars
    PROVE  ArmInv'
<1> USE ThreadsAssumption
    DEF TypeInv, TypeOK, Goto, Jump, WritePart, clientVars, envVars, callVars, historyVars
<1>1. Threads = {Loop}
  BY DEF NoWorkers, Threads
<1>2. CASE PushWriteQueue(Loop)
  <2>1. UNCHANGED <<registered, evFilter, destroyed>> /\ pc'[Loop] = "alive"
    BY <1>1, <1>2 DEF PushWriteQueue
  <2>2. pc[Loop] # "add"
    BY <1>2 DEF PushWriteQueue, InUserCode
  <2>3. QED
    BY <2>1, <2>2 DEF ArmInv
<1>3. CASE Drop(Loop) \/ ReadFails \/ WriteFails
  BY <1>3 DEF Drop, ReadFails, WriteFails, Exchange, ArmInv
<1>4. CASE WakeLoop(Loop)
  <2>1. /\ UNCHANGED <<registered, evFilter, destroyed, queue>>
        /\ pc[Loop] = "wake" /\ pc'[Loop] = ret[Loop]
    BY <1>1, <1>4 DEF WakeLoop
  <2>2. ret[Loop] \notin {"compare", "add"}
    BY <1>1
  <2>3. QED
    BY <2>1, <2>2 DEF ArmInv
<1>5. CASE IsAlive(Loop)
  <2>1. /\ UNCHANGED <<registered, evFilter, destroyed, queue>>
        /\ pc[Loop] = "alive" /\ (~destroyed => pc'[Loop] = "should")
    BY <1>1, <1>5 DEF IsAlive
  <2>2. QED
    BY <2>1 DEF ArmInv
<1>6. CASE ShouldWrite(Loop)
  <2>1. /\ UNCHANGED <<registered, evFilter, destroyed, queue>>
        /\ pc[Loop] = "should" /\ pc'[Loop] = "compare" /\ filter'[Loop] = Wanted(queue)
    BY <1>1, <1>6 DEF ShouldWrite, Wanted
  <2>2. QED
    BY <2>1 DEF ArmInv
<1>7. CASE SetEvFilter(Loop)
  <2>1. /\ UNCHANGED <<registered, destroyed, queue>> /\ evFilter' = filter[Loop]
        /\ pc[Loop] = "compare"
        /\ pc'[Loop] = "add" \/ (pc'[Loop] \in {"wake", "sweep"} /\ filter[Loop] = evFilter)
    BY <1>1, <1>7 DEF SetEvFilter
  <2>2. QED
    BY <2>1 DEF ArmInv
<1>8. CASE AddEvent(Loop)
  <2>1. /\ UNCHANGED <<evFilter, destroyed, queue>> /\ pc[Loop] = "add"
        /\ pc'[Loop] \in {"wake", "sweep"}
    BY <1>1, <1>8 DEF AddEvent
  <2>2. ~destroyed => registered' = evFilter
    BY <1>8 DEF AddEvent, RegInv, TearDownInv
  <2>3. QED
    BY <2>1, <2>2 DEF ArmInv
<1>9. CASE WakeFromDestroy(Loop) \/ RemoveEvent(Loop) \/ Close(Loop)
  <2>1. destroyed' = destroyed /\ pc[Loop] \in DropSteps
    BY <1>9 DEF WakeFromDestroy, RemoveEvent, Close, DropSteps
  <2>2. QED
    BY <1>1, <2>1 DEF ArmInv, TearDownInv
<1>10. CASE UnshiftDummyWriteQueueItem
  <2>1. /\ UNCHANGED <<registered, evFilter, destroyed>>
        /\ pc[Loop] = "unshift" /\ pc'[Loop] = "alive"
    BY <1>1, <1>10 DEF UnshiftDummyWriteQueueItem
  <2>2. QED
    BY <2>1 DEF ArmInv
<1>11. ASSUME UNCHANGED <<registered, evFilter, destroyed, queue>>,
              pc[Loop] \in {"sweep", "wait", "dispatch", "read", "ondata"},
              pc'[Loop] \notin {"compare", "add"}
       PROVE  ArmInv'
  BY <1>11 DEF ArmInv
<1>12. CASE Sweep \/ WaitWoken \/ WaitOther \/ (\E f \in SUBSET {"READ", "WRITE"} : Poll(f))
  BY <1>1, <1>11, <1>12 DEF Sweep, WaitWoken, WaitOther, Poll
<1>13. CASE Dispatch \/ ReadData \/ OnDataReturns \/ ReadAgain \/ ReadWantsWrite
  BY <1>1, <1>11, <1>13 DEF Dispatch, ReadData, OnDataReturns, ReadAgain, ReadWantsWrite
<1>14. ASSUME UNCHANGED <<registered, evFilter, destroyed, queue>>,
              pc[Loop] \in {"write", "writing", "callback", "pop"},
              pc'[Loop] \in {"write", "writing", "callback", "pop", "alive", "unshift"}
       PROVE  ArmInv'
  BY <1>14 DEF ArmInv
<1>15. CASE GetWriteItem \/ WriteSome \/ Written
  BY <1>1, <1>14, <1>15 DEF GetWriteItem, WriteSome, Written
<1>16. CASE CallbackReturns \/ WriteInterrupted \/ HandshakeWantsWrite
  BY <1>1, <1>14, <1>16 DEF CallbackReturns, WriteInterrupted, HandshakeWantsWrite
<1>17. CASE WriteAgain
  <2>1. /\ UNCHANGED <<registered, evFilter, destroyed, queue>>
        /\ pc[Loop] = "writing" /\ pc'[Loop] = "sweep"
    BY <1>1, <1>17 DEF WriteAgain
  <2>2. queue # << >>
    BY <2>1 DEF HoldInv, Holding
  <2>3. QED
    BY <2>1, <2>2 DEF ArmInv
<1>18. CASE PopWriteItem
  <2>1. /\ UNCHANGED <<registered, evFilter, destroyed>>
        /\ pc[Loop] = "pop" /\ pc'[Loop] = "write"
    BY <1>1, <1>18 DEF PopWriteItem
  <2>2. queue # << >>
    BY <2>1 DEF HoldInv, Holding
  <2>3. queue' # << >> => Wanted(queue') = Wanted(queue)
    BY <2>2, WantedIs
  <2>4. QED
    BY <2>1, <2>2, <2>3 DEF ArmInv
<1>19. CASE UNCHANGED vars
  BY <1>19 DEF vars, ArmInv
<1>20. QED
  BY <1>1, <1>2, <1>3, <1>4, <1>5, <1>6, <1>7, <1>8, <1>9, <1>10, <1>12, <1>13, <1>15, <1>16,
     <1>17, <1>18, <1>19 DEF Next, Call, Step, LoopStep

\* In a client that only the loop's thread uses, a waiting loop has WRITE registered exactly
\* when the queue holds something: no item is stuck, and the loop does not spin.
THEOREM Armed ==
    ASSUME NoWorkers
    PROVE  Spec => []ArmedWhenPending
<1>1. Init => RegInv /\ ArmInv
  BY ThreadsAssumption DEF Init, RegInv, ArmInv, Wanted, Threads
<1>2. TypeInv /\ TearDownInv /\ RegInv /\ ArmInv /\ [Next]_vars => RegInv' /\ ArmInv'
  BY RegStep, ArmStep
<1>3. ArmInv => ArmedWhenPending
  BY DEF ArmInv, ArmedWhenPending, Wanted
<1>4. QED
  BY <1>1, <1>2, <1>3, TypeInvariant, TearDown, PTL DEF Spec
=============================================================================
