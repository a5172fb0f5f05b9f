------------------------- MODULE ClientThread_proofs -------------------------
(***************************************************************************)
(* Proofs about ClientThread, for every number of threads, connections and *)
(* handlers that throw: a connection has one owner at a time, and pushing  *)
(* and triggering loses no wake-up.                                        *)
(***************************************************************************)
EXTENDS ClientThread, SequenceTheorems, TLAPS

(***************************************************************************)
(* The inductive invariant.                                                *)
(***************************************************************************)

\* The steps at which the acceptor and the threads hold a connection, which in a thread
\* is a live client when OnWire is called.
StepInv ==
    /\ acceptor.at \in {"lock", "push"} <=> acceptor.conn # NoConn
    /\ \A t \in Threads :
          /\ pc[t] \in {"make", "wire"} <=> current[t] # NoConn
          /\ pc[t] = "wire" => current[t] \in alive

\* No connection is twice in one queue.
QueueInv ==
    \A t \in Threads : \A j, k \in DOMAIN queue[t] : queue[t][j] = queue[t][k] => j = k

\* One connection: who holds it, and what that says of its descriptor.
ConnInv(c) ==
    /\ \A g, h \in Holders(c) : g = h
    /\ \A t \in Threads : active[t][c] <= 1
    /\ fd[c] = "open" => (Holders(c) # {} <=> c \notin leaked)
    /\ c \in alive => fd[c] = "open"
    /\ fd[c] = "none" => Holders(c) = {} /\ c \notin leaked
    /\ c \in leaked => fd[c] = "open" /\ Holders(c) = {}
    /\ \A h \in Holders(c) : h[1] # "active" => fd[c] = "open"
    /\ \A t \in Threads : active[t][c] > 0 /\ fd[c] = "open" => c \in alive

IInv == TypeOK /\ StepInv /\ QueueInv /\ \A c \in Conns : ConnInv(c)

-----------------------------------------------------------------------------
(* Holders and queues.                                                      *)

LEMMA HoldersAre ==
    ASSUME NEW c
    PROVE  /\ \A h \in Holders(c) : \E t \in Threads :
                  h \in {<<"acceptor", t>>, <<"queue", t>>, <<"current", t>>, <<"active", t>>}
           /\ \A t \in Threads :
                 /\ <<"acceptor", t>> \in Holders(c) <=> t = next /\ acceptor.conn = c
                 /\ <<"queue", t>> \in Holders(c) <=> Queued(t, c)
                 /\ <<"current", t>> \in Holders(c) <=> current[t] = c
                 /\ <<"active", t>> \in Holders(c) <=> active[t][c] > 0
BY DEF Holders

LEMMA NewHoldersAre ==
    ASSUME NEW c
    PROVE  /\ \A h \in Holders(c)' : \E t \in Threads :
                  h \in {<<"acceptor", t>>, <<"queue", t>>, <<"current", t>>, <<"active", t>>}
           /\ \A t \in Threads :
                 /\ <<"acceptor", t>> \in Holders(c)' <=> t = next' /\ acceptor'.conn = c
                 /\ <<"queue", t>> \in Holders(c)' <=> Queued(t, c)'
                 /\ <<"current", t>> \in Holders(c)' <=> current'[t] = c
                 /\ <<"active", t>> \in Holders(c)' <=> active'[t][c] > 0
BY DEF Holders

\* One holder excludes the others.
LEMMA OnlyHolder ==
    ASSUME NEW c, ConnInv(c), NEW t \in Threads, NEW u \in Threads
    PROVE  /\ current[t] = c => /\ ~(u = next /\ acceptor.conn = c) /\ ~Queued(u, c)
                                /\ ~(active[u][c] > 0) /\ (current[u] = c => u = t)
           /\ Queued(t, c) => /\ ~(u = next /\ acceptor.conn = c) /\ (Queued(u, c) => u = t)
                              /\ ~(active[u][c] > 0) /\ current[u] # c
           /\ active[t][c] > 0 => /\ ~(u = next /\ acceptor.conn = c) /\ ~Queued(u, c)
                                  /\ (active[u][c] > 0 => u = t) /\ current[u] # c
<1>1. \A g, h \in Holders(c) : g = h
  BY DEF ConnInv
<1>2. /\ <<"current", t>> # <<"acceptor", u>> /\ <<"current", t>> # <<"queue", u>>
      /\ <<"current", t>> # <<"active", u>> /\ <<"queue", t>> # <<"acceptor", u>>
      /\ <<"queue", t>> # <<"current", u>> /\ <<"queue", t>> # <<"active", u>>
      /\ <<"active", t>> # <<"acceptor", u>> /\ <<"active", t>> # <<"queue", u>>
      /\ <<"active", t>> # <<"current", u>>
  OBVIOUS
<1>3. /\ <<"current", t>> = <<"current", u>> => t = u
      /\ <<"queue", t>> = <<"queue", u>> => t = u
      /\ <<"active", t>> = <<"active", u>> => t = u
  OBVIOUS
<1>4. /\ <<"acceptor", u>> \in Holders(c) <=> u = next /\ acceptor.conn = c
      /\ <<"queue", u>> \in Holders(c) <=> Queued(u, c)
      /\ <<"current", u>> \in Holders(c) <=> current[u] = c
      /\ <<"active", u>> \in Holders(c) <=> active[u][c] > 0
  BY HoldersAre
<1>5. CASE current[t] = c
  <2>1. <<"current", t>> \in Holders(c)
    BY <1>5, HoldersAre
  <2>2. QED
    BY <1>1, <1>2, <1>3, <1>4, <2>1
<1>6. CASE Queued(t, c)
  <2>1. <<"queue", t>> \in Holders(c)
    BY <1>6, HoldersAre
  <2>2. QED
    BY <1>1, <1>2, <1>3, <1>4, <2>1
<1>7. CASE active[t][c] > 0
  <2>1. <<"active", t>> \in Holders(c)
    BY <1>7, HoldersAre
  <2>2. QED
    BY <1>1, <1>2, <1>3, <1>4, <2>1
<1>8. QED
  BY <1>5, <1>6, <1>7

LEMMA QueueAppends ==
    ASSUME TypeOK, NEW t \in Threads, NEW c \in Incoming,
           queue' = Set(queue, t, Append(queue[t], c))
    PROVE  /\ queue' \in [Threads -> Seq(Incoming)]
           /\ \A u \in Threads : \A d : Queued(u, d)' <=> Queued(u, d) \/ (u = t /\ d = c)
           /\ QueueInv /\ ~Queued(t, c) => QueueInv'
<1> DEFINE n == Len(queue[t])
<1>1. queue[t] \in Seq(Incoming) /\ queue \in [Threads -> Seq(Incoming)]
  BY DEF TypeOK
<1>2. /\ queue' = [queue EXCEPT ![t] = Append(queue[t], c)]
      /\ Append(queue[t], c) \in Seq(Incoming)
  BY <1>1, AppendProperties DEF Set
<1>3. /\ queue' \in [Threads -> Seq(Incoming)]
      /\ \A u \in Threads : u # t => queue'[u] = queue[u]
      /\ queue'[t] = Append(queue[t], c)
  BY <1>1, <1>2
<1>4. /\ n \in Nat /\ DOMAIN queue[t] = 1..n /\ DOMAIN queue'[t] = 1..(n + 1)
      /\ \A k \in 1..n : queue'[t][k] = queue[t][k]
      /\ queue'[t][n + 1] = c
  <2>1. n \in Nat /\ DOMAIN queue[t] = 1..n
    BY <1>1, LenProperties
  <2>2. /\ Len(queue'[t]) = n + 1 /\ queue'[t] \in Seq(Incoming)
        /\ \A k \in 1..n : queue'[t][k] = queue[t][k]
        /\ queue'[t][n + 1] = c
    BY <1>1, <1>3, AppendProperties
  <2>3. DOMAIN queue'[t] = 1..(n + 1)
    BY <2>1, <2>2, LenProperties
  <2>4. QED
    BY <2>1, <2>2, <2>3
<1>5. \A d : Queued(t, d)' <=> Queued(t, d) \/ d = c
  <2>1. ASSUME NEW d, NEW k \in DOMAIN queue'[t], queue'[t][k] = d
        PROVE  Queued(t, d) \/ d = c
    <3>1. k \in 1..n \/ k = n + 1
      BY <1>4, <2>1
    <3>2. QED
      BY <1>4, <2>1, <3>1 DEF Queued
  <2>2. ASSUME NEW d, NEW k \in DOMAIN queue[t], queue[t][k] = d
        PROVE  Queued(t, d)'
    <3>1. k \in DOMAIN queue'[t] /\ queue'[t][k] = d
      BY <1>4, <2>2
    <3>2. QED
      BY <3>1 DEF Queued
  <2>3. Queued(t, c)'
    <3>1. n + 1 \in DOMAIN queue'[t]
      BY <1>4
    <3>2. QED
      BY <1>4, <3>1 DEF Queued
  <2>4. QED
    BY <2>1, <2>2, <2>3 DEF Queued
<1>6. \A u \in Threads : \A d : Queued(u, d)' <=> Queued(u, d) \/ (u = t /\ d = c)
  <2>1. ASSUME NEW u \in Threads, u # t, NEW d
        PROVE  Queued(u, d)' <=> Queued(u, d)
    BY <1>3, <2>1 DEF Queued
  <2>2. QED
    BY <1>5, <2>1
<1>7. ASSUME QueueInv, ~Queued(t, c)
      PROVE  QueueInv'
  <2>1. \A k \in 1..n : queue[t][k] # c
    BY <1>4, <1>7 DEF Queued
  <2>2. ASSUME NEW j \in DOMAIN queue'[t], NEW k \in DOMAIN queue'[t],
               queue'[t][j] = queue'[t][k]
        PROVE  j = k
    <3>1. j \in 1..n \/ j = n + 1
      BY <1>4
    <3>2. k \in 1..n \/ k = n + 1
      BY <1>4
    <3>3. CASE j \in 1..n /\ k \in 1..n
      <4>1. queue[t][j] = queue[t][k] /\ j \in DOMAIN queue[t] /\ k \in DOMAIN queue[t]
        BY <1>4, <2>2, <3>3
      <4>2. QED
        BY <1>7, <4>1 DEF QueueInv
    <3>4. QED
      BY <1>4, <2>1, <2>2, <3>1, <3>2, <3>3
  <2>3. ASSUME NEW u \in Threads, u # t, NEW j \in DOMAIN queue'[u], NEW k \in DOMAIN queue'[u],
               queue'[u][j] = queue'[u][k]
        PROVE  j = k
    <3>1. queue'[u] = queue[u]
      BY <1>3, <2>3
    <3>2. QED
      BY <1>7, <2>3, <3>1 DEF QueueInv
  <2>4. QED
    BY <2>2, <2>3 DEF QueueInv
<1>8. QED
  BY <1>3, <1>6, <1>7

LEMMA QueuePops ==
    ASSUME TypeOK, QueueInv, NEW t \in Threads, queue[t] # << >>,
           queue' = Set(queue, t, Tail(queue[t]))
    PROVE  /\ queue' \in [Threads -> Seq(Incoming)]
           /\ Head(queue[t]) \in Incoming /\ Queued(t, Head(queue[t]))
           /\ \A u \in Threads : \A d :
                 Queued(u, d)' <=> Queued(u, d) /\ ~(u = t /\ d = Head(queue[t]))
           /\ QueueInv'
<1> DEFINE n == Len(queue[t])
           c == Head(queue[t])
<1>1. queue[t] \in Seq(Incoming) /\ queue \in [Threads -> Seq(Incoming)]
  BY DEF TypeOK
<1>2. /\ queue' = [queue EXCEPT ![t] = Tail(queue[t])]
      /\ Tail(queue[t]) \in Seq(Incoming)
  BY <1>1, HeadTailProperties DEF Set
<1>3. /\ queue' \in [Threads -> Seq(Incoming)]
      /\ \A u \in Threads : u # t => queue'[u] = queue[u]
      /\ queue'[t] = Tail(queue[t])
  BY <1>1, <1>2
<1>4. /\ n \in Nat \ {0} /\ DOMAIN queue[t] = 1..n /\ DOMAIN queue'[t] = 1..(n - 1)
      /\ \A k \in 1..(n - 1) : queue'[t][k] = queue[t][k + 1]
      /\ queue[t][1] = c /\ c \in Incoming
  <2>1. n \in Nat \ {0} /\ DOMAIN queue[t] = 1..n
    BY <1>1, LenProperties, EmptySeq
  <2>2. /\ Len(queue'[t]) = n - 1 /\ queue'[t] \in Seq(Incoming)
        /\ \A k \in 1..(n - 1) : queue'[t][k] = queue[t][k + 1]
        /\ c \in Incoming
    <3>1. /\ c \in Incoming /\ Tail(queue[t]) \in Seq(Incoming)
          /\ Len(Tail(queue[t])) = n - 1
          /\ \A k \in 1..Len(Tail(queue[t])) : Tail(queue[t])[k] = queue[t][k + 1]
      <4>1. ASSUME NEW q \in Seq(Incoming), q # << >>
            PROVE  /\ Head(q) \in Incoming /\ Tail(q) \in Seq(Incoming)
                   /\ Len(Tail(q)) = Len(q) - 1
                   /\ \A k \in 1..Len(Tail(q)) : Tail(q)[k] = q[k + 1]
        BY <4>1, HeadTailProperties
      <4>2. QED
        BY <1>1, <4>1
    <3>2. QED
      BY <1>3, <3>1
  <2>3. DOMAIN queue'[t] = 1..(n - 1)
    BY <2>2, LenProperties
  <2>4. queue[t][1] = c
    BY <1>1
  <2>5. QED
    BY <2>1, <2>2, <2>3, <2>4
<1>5. \A j, k \in 1..n : queue[t][j] = queue[t][k] => j = k
  BY <1>4 DEF QueueInv
<1>6. Queued(t, c)
  <2>1. 1 \in DOMAIN queue[t]
    BY <1>4
  <2>2. QED
    BY <1>4, <2>1 DEF Queued
<1>7. \A d : Queued(t, d)' <=> Queued(t, d) /\ d # c
  <2>1. ASSUME NEW d, NEW k \in DOMAIN queue'[t], queue'[t][k] = d
        PROVE  Queued(t, d) /\ d # c
    <3>1. k + 1 \in 1..n /\ 1 \in 1..n /\ k + 1 # 1 /\ queue[t][k + 1] = d
      BY <1>4, <2>1
    <3>2. d # c
      BY <1>4, <1>5, <3>1
    <3>3. QED
      BY <1>4, <3>1, <3>2 DEF Queued
  <2>2. ASSUME NEW d, d # c, NEW k \in DOMAIN queue[t], queue[t][k] = d
        PROVE  Queued(t, d)'
    <3>1. k - 1 \in 1..(n - 1) /\ (k - 1) + 1 = k
      BY <1>4, <2>2
    <3>2. k - 1 \in DOMAIN queue'[t] /\ queue'[t][k - 1] = d
      BY <1>4, <2>2, <3>1
    <3>3. QED
      BY <3>2 DEF Queued
  <2>3. QED
    BY <2>1, <2>2 DEF Queued
<1>8. \A u \in Threads : \A d : Queued(u, d)' <=> Queued(u, d) /\ ~(u = t /\ d = c)
  <2>1. ASSUME NEW u \in Threads, u # t, NEW d
        PROVE  Queued(u, d)' <=> Queued(u, d)
    BY <1>3, <2>1 DEF Queued
  <2>2. QED
    BY <1>7, <2>1
<1>9. QueueInv'
  <2>1. ASSUME NEW j \in DOMAIN queue'[t], NEW k \in DOMAIN queue'[t],
               queue'[t][j] = queue'[t][k]
        PROVE  j = k
    <3>1. j \in 1..(n - 1) /\ k \in 1..(n - 1) /\ n \in Nat
      BY <1>4
    <3>2. queue[t][j + 1] = queue[t][k + 1]
      BY <1>4, <2>1, <3>1
    <3>3. j + 1 \in 1..n /\ k + 1 \in 1..n
      BY <3>1
    <3>4. j + 1 = k + 1
      BY <1>5, <3>2, <3>3
    <3>5. QED
      BY <3>1, <3>4
  <2>2. ASSUME NEW u \in Threads, u # t, NEW j \in DOMAIN queue'[u], NEW k \in DOMAIN queue'[u],
               queue'[u][j] = queue'[u][k]
        PROVE  j = k
    <3>1. queue'[u] = queue[u]
      BY <1>3, <2>2
    <3>2. QED
      BY <2>2, <3>1 DEF QueueInv
  <2>3. QED
    BY <2>1, <2>2 DEF QueueInv
<1>10. QED
  BY <1>3, <1>4, <1>6, <1>8, <1>9

-----------------------------------------------------------------------------
(* What a step does to a connection.                                        *)

\* A step that leaves every place and every fact about c as it was.
LEMMA Unaffected ==
    ASSUME NEW c, ConnInv(c),
           \A t \in Threads : /\ t = next' /\ acceptor'.conn = c <=> t = next /\ acceptor.conn = c
                              /\ Queued(t, c)' <=> Queued(t, c)
                              /\ current'[t] = c <=> current[t] = c
                              /\ active'[t][c] = active[t][c],
           fd'[c] = fd[c], c \in alive' <=> c \in alive, c \in leaked' <=> c \in leaked
    PROVE  ConnInv(c)'
<1>1. ASSUME NEW h \in {"acceptor", "queue", "current", "active"} \X Threads
      PROVE  h \in Holders(c)' <=> h \in Holders(c)
  <2>1. h[2] \in Threads
    OBVIOUS
  <2>2. QED
    BY <2>1 DEF Holders
<1>2. /\ Holders(c) \subseteq {"acceptor", "queue", "current", "active"} \X Threads
      /\ Holders(c)' \subseteq {"acceptor", "queue", "current", "active"} \X Threads
  BY DEF Holders
<1>3. Holders(c)' = Holders(c)
  BY <1>1, <1>2
<1>4. QED
  BY <1>3 DEF ConnInv

\* A closed connection may only lose holders, and stays closed.
LEMMA ClosedShrinks ==
    ASSUME NEW c, ConnInv(c),
           \A t \in Threads : /\ t = next' /\ acceptor'.conn = c => t = next /\ acceptor.conn = c
                              /\ Queued(t, c)' => Queued(t, c)
                              /\ current'[t] = c => current[t] = c
                              /\ active'[t][c] = active[t][c] \/ active'[t][c] = 0,
           fd[c] = "closed", fd'[c] = "closed", c \notin alive', c \notin leaked'
    PROVE  ConnInv(c)'
<1>1. \A h \in Holders(c)' : h \in Holders(c) /\ h[1] = "active"
  <2>1. ASSUME NEW h \in Holders(c)'
        PROVE  h \in Holders(c) /\ h[1] = "active"
    <3>1. h \in {"acceptor", "queue", "current", "active"} \X Threads /\ h[2] \in Threads
      BY <2>1 DEF Holders
    <3>2. active'[h[2]][c] > 0 => active[h[2]][c] > 0
      BY <3>1
    <3>3. h \in Holders(c)
      BY <2>1, <3>1, <3>2 DEF Holders
    <3>4. h[1] # "active" => fd[c] = "open"
      BY <3>3 DEF ConnInv
    <3>5. QED
      BY <3>3, <3>4
  <2>2. QED
    BY <2>1
<1>2. \A g, h \in Holders(c)' : g = h
  BY <1>1 DEF ConnInv
<1>3. \A t \in Threads : active'[t][c] <= 1
  BY DEF ConnInv
<1>4. QED
  BY <1>1, <1>2, <1>3 DEF ConnInv

\* A step that leaves c in one place, which is not a list of clients.
LEMMA OneHolder ==
    ASSUME NEW c, NEW t \in Threads, NEW p \in {"acceptor", "queue", "current"}, next' \in Threads,
           \A u \in Threads : /\ u = next' /\ acceptor'.conn = c <=> p = "acceptor" /\ u = t
                              /\ Queued(u, c)' <=> p = "queue" /\ u = t
                              /\ current'[u] = c <=> p = "current" /\ u = t
                              /\ active'[u][c] = 0,
           fd'[c] = "open", c \notin leaked'
    PROVE  ConnInv(c)'
<1>1. <<p, t>> \in Holders(c)'
  BY NewHoldersAre
<1>2. ASSUME NEW h \in Holders(c)' PROVE h = <<p, t>>
  <2>1. h \in {"acceptor", "queue", "current", "active"} \X Threads /\ h[2] \in Threads
    BY <1>2 DEF Holders
  <2>2. h = <<h[1], h[2]>> /\ ~(active'[h[2]][c] > 0)
    BY <2>1
  <2>3. h[1] = p /\ h[2] = t
    BY <1>2, <2>1, <2>2 DEF Holders
  <2>4. QED
    BY <2>2, <2>3
<1>3. <<p, t>>[1] # "active"
  OBVIOUS
<1>4. /\ \A g, h \in Holders(c)' : g = h
      /\ Holders(c)' # {}
      /\ \A h \in Holders(c)' : h[1] # "active"
  BY <1>1, <1>2, <1>3
<1>5. \A u \in Threads : active'[u][c] <= 1 /\ ~(active'[u][c] > 0)
  OBVIOUS
<1>6. QED
  BY <1>4, <1>5 DEF ConnInv

\* A step that leaves c with a client that one thread runs, or has yet to sweep.
LEMMA OneClient ==
    ASSUME NEW c, NEW t \in Threads,
           \A u \in Threads : /\ ~(u = next' /\ acceptor'.conn = c)
                              /\ ~Queued(u, c)'
                              /\ current'[u] # c
                              /\ u # t => active'[u][c] = 0,
           active'[t][c] = 1, c \notin leaked',
           \/ fd'[c] = "open" /\ c \in alive'
           \/ fd'[c] = "closed" /\ c \notin alive'
    PROVE  ConnInv(c)'
<1>1. <<"active", t>> \in Holders(c)'
  <2>1. active'[t][c] > 0
    OBVIOUS
  <2>2. QED
    BY <2>1, NewHoldersAre
<1>2. ASSUME NEW h \in Holders(c)' PROVE h = <<"active", t>>
  <2>1. h \in {"acceptor", "queue", "current", "active"} \X Threads /\ h[2] \in Threads
    BY <1>2 DEF Holders
  <2>2. h = <<h[1], h[2]>> /\ (active'[h[2]][c] > 0 => h[2] = t)
    BY <2>1
  <2>3. h[1] = "active" /\ h[2] = t
    BY <1>2, <2>1, <2>2 DEF Holders
  <2>4. QED
    BY <2>2, <2>3
<1>3. <<"active", t>>[1] = "active"
  OBVIOUS
<1>4. /\ \A g, h \in Holders(c)' : g = h
      /\ Holders(c)' # {}
      /\ \A h \in Holders(c)' : h[1] = "active"
  BY <1>1, <1>2, <1>3
<1>5. \A u \in Threads : active'[u][c] <= 1
  OBVIOUS
<1>6. QED
  BY <1>4, <1>5 DEF ConnInv

\* A step that leaves c without a holder, because a handler threw.
LEMMA NoHolder ==
    ASSUME NEW c,
           \A u \in Threads : /\ ~(u = next' /\ acceptor'.conn = c)
                              /\ ~Queued(u, c)'
                              /\ current'[u] # c
                              /\ active'[u][c] = 0,
           c \in leaked', c \notin alive', fd'[c] = "open"
    PROVE  ConnInv(c)'
<1>1. ASSUME NEW h \in Holders(c)' PROVE FALSE
  <2>1. h[2] \in Threads
    BY <1>1 DEF Holders
  <2>2. ~(active'[h[2]][c] > 0)
    BY <2>1
  <2>3. QED
    BY <1>1, <2>1, <2>2 DEF Holders
<1>2. Holders(c)' = {}
  BY <1>1
<1>3. \A u \in Threads : active'[u][c] <= 1 /\ ~(active'[u][c] > 0)
  OBVIOUS
<1>4. QED
  BY <1>2, <1>3 DEF ConnInv

\* Where a connection that nobody holds is not.
LEMMA NotHeld ==
    ASSUME TypeOK, NEW c \in Conns, Holders(c) = {}, NEW u \in Threads
    PROVE  ~(u = next /\ acceptor.conn = c) /\ ~Queued(u, c) /\ current[u] # c /\ active[u][c] = 0
<1>1. ~(u = next /\ acceptor.conn = c) /\ ~Queued(u, c) /\ current[u] # c /\ ~(active[u][c] > 0)
  BY HoldersAre
<1>2. active[u][c] \in Nat
  BY DEF TypeOK
<1>3. QED
  BY <1>1, <1>2

\* Where a connection that is not in a list of clients is not.
LEMMA NotActive ==
    ASSUME TypeOK, NEW c \in Conns, ConnInv(c), NEW t \in Threads, NEW u \in Threads,
           (t = next /\ acceptor.conn = c) \/ Queued(t, c) \/ current[t] = c
    PROVE  active[u][c] = 0
<1>1. ~(active[u][c] > 0)
  BY OnlyHolder
<1>2. active[u][c] \in Nat
  BY DEF TypeOK
<1>3. QED
  BY <1>1, <1>2

-----------------------------------------------------------------------------
(* Every step keeps the types.                                              *)

LEMMA TypeKept ==
    ASSUME TypeOK, StepInv, [Next]_vars
    PROVE  TypeOK'
<1> USE ThreadsAssumption
<1>1. CASE UNCHANGED vars
  BY <1>1 DEF TypeOK, vars
<1>2. ASSUME NEW c \in Incoming, AcceptorAccepts(c)
      PROVE  TypeOK'
  BY <1>2 DEF AcceptorAccepts, TypeOK, Set
<1>3. CASE AcceptorLocks
  BY <1>3 DEF AcceptorLocks, TypeOK, Set
<1>4. CASE AcceptorPushes
  <2>1. acceptor.conn \in Incoming
    BY <1>4 DEF AcceptorPushes, StepInv, TypeOK
  <2>2. queue' \in [Threads -> Seq(Incoming)]
    BY <1>4, <2>1, QueueAppends DEF AcceptorPushes, TypeOK
  <2>3. QED
    BY <1>4, <2>2 DEF AcceptorPushes, TypeOK
<1>5. CASE AcceptorTriggers
  <2>1. (next + 1) % ThreadCount \in Threads
    BY DEF TypeOK, Threads
  <2>2. QED
    BY <1>5, <2>1 DEF AcceptorTriggers, TypeOK, Set
<1>6. ASSUME NEW t \in Threads, Sweep(t)
      PROVE  TypeOK'
  <2>1. [c \in Conns |-> IF c \in alive THEN active[t][c] ELSE 0] \in [Conns -> Nat]
    BY DEF TypeOK
  <2>2. active' \in [Threads -> [Conns -> Nat]]
    BY <1>6, <2>1 DEF Sweep, Set, TypeOK
  <2>3. pc' \in [Threads -> {"sweep", "wait", "lock", "take", "make", "wire"}]
    BY <1>6 DEF Sweep, Set, TypeOK
  <2>4. QED
    BY <1>6, <2>2, <2>3 DEF Sweep, acceptVars, TypeOK
<1>7. ASSUME NEW t \in Threads, WaitReturns(t)
      PROVE  TypeOK'
  BY <1>7 DEF WaitReturns, acceptVars, TypeOK, Set
<1>8. ASSUME NEW t \in Threads, NEW c \in Conns, ClientDrops(t, c)
      PROVE  TypeOK'
  BY <1>8 DEF ClientDrops, acceptVars, TypeOK, Set
<1>9. ASSUME NEW t \in Threads, NEW c \in Conns, ClientConnects(t, c)
      PROVE  TypeOK'
  <2>1. active' \in [Threads -> [Conns -> Nat]]
    BY <1>9 DEF ClientConnects, TypeOK
  <2>2. fd' \in [Conns -> {"none", "open", "closed"}] /\ alive' \subseteq Conns
    BY <1>9 DEF ClientConnects, Set, TypeOK
  <2>3. QED
    BY <1>9, <2>1, <2>2 DEF ClientConnects, acceptVars, TypeOK
<1>10. ASSUME NEW t \in Threads, AcceptStarts(t)
       PROVE  TypeOK'
  BY <1>10 DEF AcceptStarts, acceptVars, TypeOK, Set
<1>11. ASSUME NEW t \in Threads, AcceptLocks(t)
       PROVE  TypeOK'
  BY <1>11 DEF AcceptLocks, acceptVars, TypeOK, Set
<1>12. ASSUME NEW t \in Threads, AcceptTakes(t)
       PROVE  TypeOK'
  <2>1. queue[t] \in Seq(Incoming) /\ queue[t] # << >>
    BY <1>12 DEF AcceptTakes, TypeOK
  <2>2. Head(queue[t]) \in Incoming /\ Tail(queue[t]) \in Seq(Incoming)
    BY <2>1, HeadTailProperties
  <2>3. QED
    BY <1>12, <2>2 DEF AcceptTakes, acceptVars, TypeOK, Set
<1>13. ASSUME NEW t \in Threads, AcceptMakes(t)
       PROVE  TypeOK'
  <2>1. current[t] \in Conns
    BY <1>13 DEF AcceptMakes, StepInv, TypeOK, Conns
  <2>2. QED
    BY <1>13, <2>1 DEF AcceptMakes, acceptVars, TypeOK, Set
<1>14. ASSUME NEW t \in Threads, AcceptWires(t)
       PROVE  TypeOK'
  <2>1. current[t] \in Conns
    BY <1>14 DEF AcceptWires, StepInv, TypeOK, Conns
  <2>2. active' \in [Threads -> [Conns -> Nat]]
    BY <1>14, <2>1 DEF AcceptWires, TypeOK
  <2>3. /\ fd' \in [Conns -> {"none", "open", "closed"}] /\ alive' \subseteq Conns
        /\ woken' \in [Threads -> BOOLEAN]
    BY <1>14, <2>1 DEF AcceptWires, TypeOK, Set
  <2>4. /\ pc' \in [Threads -> {"sweep", "wait", "lock", "take", "make", "wire"}]
        /\ current' \in [Threads -> Incoming \cup {NoConn}]
    BY <1>14 DEF AcceptWires, TypeOK, Set
  <2>5. QED
    BY <1>14, <2>2, <2>3, <2>4 DEF AcceptWires, acceptVars, TypeOK
<1>15. ASSUME NEW t \in Threads, AcceptThrows(t)
       PROVE  TypeOK'
  <2>1. current[t] \in Incoming
    BY <1>15 DEF AcceptThrows, StepInv, TypeOK
  <2>2. QED
    BY <1>15, <2>1 DEF AcceptThrows, acceptVars, TypeOK, Set
<1>16. ASSUME NEW t \in Threads, AcceptEnds(t)
       PROVE  TypeOK'
  BY <1>16 DEF AcceptEnds, acceptVars, TypeOK, Set
<1>17. QED
  BY <1>1, <1>2, <1>3, <1>4, <1>5, <1>6, <1>7, <1>8, <1>9, <1>10, <1>11, <1>12, <1>13,
     <1>14, <1>15, <1>16 DEF Next, Acceptor, Thread, Accept

-----------------------------------------------------------------------------
(* Every step keeps who holds what at which step.                           *)

LEMMA StepKept ==
    ASSUME IInv, [Next]_vars
    PROVE  StepInv'
<1> USE ConnsAssumption
<1>1. TypeOK /\ StepInv
  BY DEF IInv
<1>2. CASE UNCHANGED vars
  BY <1>1, <1>2 DEF StepInv, vars
<1>3. ASSUME NEW c \in Incoming, AcceptorAccepts(c)
      PROVE  StepInv'
  BY <1>1, <1>3 DEF AcceptorAccepts, StepInv
<1>4. CASE AcceptorLocks
  BY <1>1, <1>4 DEF AcceptorLocks, StepInv, TypeOK
<1>5. CASE AcceptorPushes
  BY <1>1, <1>5 DEF AcceptorPushes, StepInv
<1>6. CASE AcceptorTriggers
  <2>1. acceptor'.at = "wait" /\ acceptor'.conn = acceptor.conn /\ acceptor.conn = NoConn
    BY <1>1, <1>6 DEF AcceptorTriggers, StepInv, TypeOK
  <2>2. pc' = pc /\ current' = current /\ alive' = alive
    BY <1>6 DEF AcceptorTriggers
  <2>3. QED
    BY <1>1, <2>1, <2>2 DEF StepInv
<1>7. ASSUME NEW t \in Threads, Sweep(t) \/ WaitReturns(t) \/ AcceptStarts(t) \/ AcceptLocks(t)
      PROVE  StepInv'
  <2>1. /\ pc[t] \notin {"make", "wire"} /\ pc'[t] \notin {"make", "wire"}
        /\ \A u \in Threads : u # t => pc'[u] = pc[u]
    BY <1>1, <1>7 DEF Sweep, WaitReturns, AcceptStarts, AcceptLocks, Set, TypeOK
  <2>2. acceptor' = acceptor /\ current' = current /\ alive' = alive
    BY <1>7 DEF Sweep, WaitReturns, AcceptStarts, AcceptLocks, acceptVars
  <2>3. QED
    BY <1>1, <2>1, <2>2 DEF StepInv
<1>8. ASSUME NEW t \in Threads, NEW c \in Conns, ClientDrops(t, c)
      PROVE  StepInv'
  <2>1. \A u \in Threads : current[u] # c
    BY <1>8, OnlyHolder DEF ClientDrops, IInv
  <2>2. QED
    BY <1>1, <1>8, <2>1 DEF ClientDrops, acceptVars, StepInv
<1>9. ASSUME NEW t \in Threads, NEW c \in Conns, ClientConnects(t, c)
      PROVE  StepInv'
  BY <1>1, <1>9 DEF ClientConnects, acceptVars, StepInv
<1>10. ASSUME NEW t \in Threads, AcceptTakes(t)
       PROVE  StepInv'
  <2>1. queue[t] \in Seq(Incoming) /\ queue[t] # << >>
    BY <1>1, <1>10 DEF AcceptTakes, TypeOK
  <2>2. Head(queue[t]) \in Incoming
    BY <2>1, HeadTailProperties
  <2>3. QED
    BY <1>1, <1>10, <2>2 DEF AcceptTakes, acceptVars, Set, StepInv, TypeOK
<1>11. ASSUME NEW t \in Threads, AcceptMakes(t)
       PROVE  StepInv'
  BY <1>1, <1>11 DEF AcceptMakes, acceptVars, Set, StepInv, TypeOK
<1>12. ASSUME NEW t \in Threads, AcceptWires(t) \/ AcceptThrows(t)
       PROVE  StepInv'
  <2>1. current[t] \in Conns
    BY <1>1, <1>12 DEF AcceptWires, AcceptThrows, StepInv, TypeOK, Conns
  <2>2. \A u \in Threads : u # t => current[u] # current[t]
    BY <2>1, OnlyHolder DEF IInv
  <2>3. /\ pc' = [pc EXCEPT ![t] = pc'[t]] /\ pc'[t] \in {"take", "sweep"}
        /\ current' = [current EXCEPT ![t] = NoConn] /\ acceptor' = acceptor
        /\ alive' = alive \/ alive' = alive \ {current[t]}
    BY <1>1, <1>12 DEF AcceptWires, AcceptThrows, acceptVars, Set, TypeOK
  <2>4. QED
    BY <1>1, <2>2, <2>3 DEF StepInv, TypeOK
<1>13. ASSUME NEW t \in Threads, AcceptEnds(t)
       PROVE  StepInv'
  BY <1>1, <1>13 DEF AcceptEnds, acceptVars, Set, StepInv, TypeOK
<1>14. QED
  BY <1>2, <1>3, <1>4, <1>5, <1>6, <1>7, <1>8, <1>9, <1>10, <1>11, <1>12, <1>13
  DEF Next, Acceptor, Thread, Accept

\* Only the acceptor and Accept change a queue; the acceptor never pushes a queued connection.
LEMMA QueueKept ==
    ASSUME IInv, [Next]_vars
    PROVE  QueueInv'
<1>1. TypeOK /\ StepInv /\ QueueInv
  BY DEF IInv
<1>2. CASE AcceptorPushes
  <2>1. acceptor.conn \in Incoming /\ next \in Threads
    BY <1>1, <1>2 DEF AcceptorPushes, StepInv, TypeOK
  <2>2. ~Queued(next, acceptor.conn)
    BY <2>1, OnlyHolder DEF IInv, Conns
  <2>3. QED
    BY <1>1, <1>2, <2>1, <2>2, QueueAppends DEF AcceptorPushes
<1>3. ASSUME NEW t \in Threads, AcceptTakes(t)
      PROVE  QueueInv'
  BY <1>1, <1>3, QueuePops DEF AcceptTakes
<1>4. CASE queue' = queue
  BY <1>1, <1>4 DEF QueueInv
<1>5. QED
  <2>1. \/ AcceptorPushes \/ (\E t \in Threads : AcceptTakes(t)) \/ queue' = queue
    BY DEF Next, Acceptor, Thread, Accept, AcceptorAccepts, AcceptorLocks, AcceptorTriggers,
           Sweep, WaitReturns, ClientDrops, ClientConnects, AcceptStarts, AcceptLocks,
           AcceptMakes, AcceptWires, AcceptThrows, AcceptEnds, vars
  <2>2. QED
    BY <1>2, <1>3, <1>4, <2>1

-----------------------------------------------------------------------------
(* Every step keeps what is said of every connection.                       *)

LEMMA AcceptorConnKept ==
    ASSUME IInv, Acceptor, TypeOK', NEW c \in Conns
    PROVE  ConnInv(c)'
<1> USE ConnsAssumption
<1>1. TypeOK /\ StepInv /\ ConnInv(c) /\ c # NoConn /\ next \in Threads
  BY DEF IInv, Conns, TypeOK
<1>2. ASSUME NEW d \in Incoming, AcceptorAccepts(d)
      PROVE  ConnInv(c)'
  <2>1. /\ next' = next /\ acceptor'.conn = d /\ acceptor.conn = NoConn
        /\ fd'[d] = "open" /\ \A e \in Conns : e # d => fd'[e] = fd[e]
    BY <1>1, <1>2 DEF AcceptorAccepts, StepInv, TypeOK, Set, Conns
  <2>2. /\ \A u \in Threads : Queued(u, c)' <=> Queued(u, c)
        /\ current' = current /\ active' = active /\ alive' = alive /\ leaked' = leaked
    BY <1>2 DEF AcceptorAccepts, Queued
  <2>3. CASE c = d
    <3>1. Holders(c) = {} /\ c \notin leaked
      BY <1>1, <1>2, <2>3 DEF AcceptorAccepts, ConnInv
    <3>2. \A u \in Threads : ~Queued(u, c) /\ current[u] # c /\ active[u][c] = 0
      BY <1>1, <3>1, NotHeld
    <3>3. /\ next' \in Threads
          /\ \A u \in Threads : /\ u = next' /\ acceptor'.conn = c <=> "acceptor" = "acceptor" /\ u = next
                                /\ Queued(u, c)' <=> "acceptor" = "queue" /\ u = next
                                /\ current'[u] = c <=> "acceptor" = "current" /\ u = next
                                /\ active'[u][c] = 0
      BY <1>1, <2>1, <2>2, <2>3, <3>2
    <3>4. QED
      BY <1>1, <2>1, <2>2, <2>3, <3>1, <3>3, OneHolder
  <2>4. CASE c # d
    BY <1>1, <2>1, <2>2, <2>4, Unaffected
  <2>5. QED
    BY <2>3, <2>4
<1>3. CASE AcceptorLocks
  <2>1. next' = next /\ acceptor'.conn = acceptor.conn
    BY <1>1, <1>3 DEF AcceptorLocks, TypeOK
  <2>2. /\ \A u \in Threads : Queued(u, c)' <=> Queued(u, c)
        /\ current' = current /\ active' = active /\ alive' = alive /\ leaked' = leaked /\ fd' = fd
    BY <1>3 DEF AcceptorLocks, Queued
  <2>3. QED
    BY <1>1, <2>1, <2>2, Unaffected
<1>4. CASE AcceptorPushes
  <2>1. acceptor.conn \in Incoming
    BY <1>1, <1>4 DEF AcceptorPushes, StepInv, TypeOK
  <2>2. /\ next' = next /\ acceptor'.conn = NoConn
        /\ current' = current /\ active' = active /\ alive' = alive /\ leaked' = leaked /\ fd' = fd
    BY <1>4 DEF AcceptorPushes
  <2>3. \A u \in Threads : Queued(u, c)' <=> Queued(u, c) \/ (u = next /\ c = acceptor.conn)
    BY <1>1, <1>4, <2>1, QueueAppends DEF AcceptorPushes
  <2>4. CASE c = acceptor.conn
    <3>1. \A u \in Threads : ~Queued(u, c) /\ current[u] # c
      BY <1>1, <2>4, OnlyHolder
    <3>2. \A u \in Threads : active[u][c] = 0
      BY <1>1, <2>4, NotActive
    <3>3. fd[c] = "open" /\ c \notin leaked
      <4>1. <<"acceptor", next>> \in Holders(c)
        BY <1>1, <2>4, HoldersAre
      <4>2. <<"acceptor", next>>[1] # "active"
        OBVIOUS
      <4>3. QED
        BY <1>1, <4>1, <4>2 DEF ConnInv
    <3>4. \A u \in Threads : /\ u = next' /\ acceptor'.conn = c <=> "queue" = "acceptor" /\ u = next
                             /\ Queued(u, c)' <=> "queue" = "queue" /\ u = next
                             /\ current'[u] = c <=> "queue" = "current" /\ u = next
                             /\ active'[u][c] = 0
      BY <1>1, <2>2, <2>3, <2>4, <3>1, <3>2
    <3>5. next' \in Threads /\ fd'[c] = "open" /\ c \notin leaked'
      BY <1>1, <2>2, <3>3
    <3>6. QED
      BY <1>1, <3>4, <3>5, OneHolder
  <2>5. CASE c # acceptor.conn
    BY <1>1, <2>2, <2>3, <2>5, Unaffected
  <2>6. QED
    BY <2>4, <2>5
<1>5. CASE AcceptorTriggers
  <2>1. acceptor.conn = NoConn /\ acceptor'.conn = NoConn
    BY <1>1, <1>5 DEF AcceptorTriggers, StepInv, TypeOK
  <2>2. /\ \A u \in Threads : Queued(u, c)' <=> Queued(u, c)
        /\ current' = current /\ active' = active /\ alive' = alive /\ leaked' = leaked /\ fd' = fd
    BY <1>5 DEF AcceptorTriggers, Queued
  <2>3. QED
    BY <1>1, <2>1, <2>2, Unaffected
<1>6. QED
  BY <1>2, <1>3, <1>4, <1>5 DEF Acceptor

LEMMA LoopConnKept ==
    ASSUME IInv, NEW t \in Threads, NEW c \in Conns,
           \/ Sweep(t) \/ WaitReturns(t) \/ AcceptStarts(t) \/ AcceptLocks(t) \/ AcceptEnds(t)
           \/ \E d \in Conns : ClientDrops(t, d) \/ ClientConnects(t, d)
    PROVE  ConnInv(c)'
<1>1. TypeOK /\ ConnInv(c)
  BY DEF IInv
<1>2. /\ next' = next /\ acceptor' = acceptor /\ current' = current /\ leaked' = leaked
      /\ \A u \in Threads : Queued(u, c)' <=> Queued(u, c)
  BY DEF Sweep, WaitReturns, AcceptStarts, AcceptLocks, AcceptEnds, ClientDrops, ClientConnects,
         acceptVars, Queued
<1>3. CASE Sweep(t)
  <2>1. /\ fd' = fd /\ alive' = alive
        /\ \A u \in Threads : u # t => active'[u] = active[u]
        /\ active'[t][c] = IF c \in alive THEN active[t][c] ELSE 0
    BY <1>1, <1>3 DEF Sweep, Set, TypeOK
  <2>2. CASE c \in alive \/ active[t][c] = 0
    BY <1>1, <1>2, <2>1, <2>2, Unaffected
  <2>3. CASE c \notin alive /\ active[t][c] # 0
    <3>1. active[t][c] > 0
      BY <1>1, <2>3 DEF TypeOK
    <3>2. fd[c] = "closed"
      <4>1. <<"active", t>> \in Holders(c)
        BY <3>1, HoldersAre
      <4>2. fd[c] # "none" /\ fd[c] # "open"
        BY <1>1, <2>3, <3>1, <4>1 DEF ConnInv
      <4>3. QED
        BY <1>1, <4>2 DEF TypeOK
    <3>3. c \notin leaked
      BY <1>1, <3>2 DEF ConnInv
    <3>4. QED
      BY <1>1, <1>2, <2>1, <2>3, <3>2, <3>3, ClosedShrinks
  <2>4. QED
    BY <2>2, <2>3
<1>4. CASE WaitReturns(t) \/ AcceptStarts(t) \/ AcceptLocks(t) \/ AcceptEnds(t)
  <2>1. fd' = fd /\ alive' = alive /\ active' = active
    BY <1>4 DEF WaitReturns, AcceptStarts, AcceptLocks, AcceptEnds
  <2>2. QED
    BY <1>1, <1>2, <2>1, Unaffected
<1>5. ASSUME NEW d \in Conns, ClientDrops(t, d)
      PROVE  ConnInv(c)'
  <2>1. /\ active' = active /\ alive' = alive \ {d} /\ fd'[d] = "closed"
        /\ \A e \in Conns : e # d => fd'[e] = fd[e]
    BY <1>1, <1>5 DEF ClientDrops, Set, TypeOK
  <2>2. CASE c = d
    <3>1. active[t][c] > 0 /\ active[t][c] <= 1 /\ active[t][c] \in Nat
      BY <1>1, <1>5, <2>2 DEF ClientDrops, TypeOK, ConnInv
    <3>2. active[t][c] = 1
      BY <3>1
    <3>3. \A u \in Threads : /\ ~(u = next /\ acceptor.conn = c) /\ ~Queued(u, c) /\ current[u] # c
                             /\ active[u][c] > 0 => u = t
      BY <1>1, <3>1, OnlyHolder
    <3>4. \A u \in Threads : u # t => active[u][c] = 0
      <4>1. \A u \in Threads : active[u][c] \in Nat
        BY <1>1 DEF TypeOK
      <4>2. QED
        BY <3>3, <4>1
    <3>5. c \notin leaked
      <4>1. <<"active", t>> \in Holders(c)
        BY <3>1, HoldersAre
      <4>2. QED
        BY <1>1, <4>1 DEF ConnInv
    <3>6. \A u \in Threads : /\ ~(u = next' /\ acceptor'.conn = c) /\ ~Queued(u, c)'
                             /\ current'[u] # c /\ (u # t => active'[u][c] = 0)
      BY <1>2, <2>1, <3>3, <3>4
    <3>7. active'[t][c] = 1 /\ c \notin leaked' /\ fd'[c] = "closed" /\ c \notin alive'
      BY <1>2, <2>1, <2>2, <3>2, <3>5
    <3>8. QED
      BY <3>6, <3>7, OneClient
  <2>3. CASE c # d
    BY <1>1, <1>2, <2>1, <2>3, Unaffected
  <2>4. QED
    BY <2>2, <2>3
<1>6. ASSUME NEW d \in Conns, ClientConnects(t, d)
      PROVE  ConnInv(c)'
  <2>1. /\ alive' = alive \cup {d} /\ fd'[d] = "open"
        /\ \A e \in Conns : e # d => fd'[e] = fd[e] /\ active'[t][e] = active[t][e]
        /\ \A u \in Threads : u # t => active'[u] = active[u]
        /\ active'[t][d] = active[t][d] + 1
    BY <1>1, <1>6 DEF ClientConnects, Set, TypeOK
  <2>2. CASE c = d
    <3>1. Holders(c) = {} /\ c \notin leaked
      BY <1>1, <1>6, <2>2 DEF ClientConnects, ConnInv
    <3>2. \A u \in Threads : /\ ~(u = next /\ acceptor.conn = c) /\ ~Queued(u, c) /\ current[u] # c
                             /\ active[u][c] = 0
      BY <1>1, <3>1, NotHeld
    <3>3. active'[t][c] = 1 /\ \A u \in Threads : u # t => active'[u][c] = 0
      BY <2>1, <2>2, <3>2
    <3>4. QED
      BY <1>2, <2>1, <2>2, <3>1, <3>2, <3>3, OneClient
  <2>3. CASE c # d
    BY <1>1, <1>2, <2>1, <2>3, Unaffected
  <2>4. QED
    BY <2>2, <2>3
<1>7. QED
  BY <1>3, <1>4, <1>5, <1>6

LEMMA AcceptConnKept ==
    ASSUME IInv, NEW t \in Threads, NEW c \in Conns,
           AcceptTakes(t) \/ AcceptMakes(t) \/ AcceptWires(t) \/ AcceptThrows(t)
    PROVE  ConnInv(c)'
<1> USE ConnsAssumption
<1>1. TypeOK /\ StepInv /\ QueueInv /\ ConnInv(c) /\ c # NoConn /\ next \in Threads
  BY DEF IInv, Conns, TypeOK
<1>2. next' = next /\ acceptor' = acceptor
  BY DEF AcceptTakes, AcceptMakes, AcceptWires, AcceptThrows, acceptVars
<1>3. CASE AcceptTakes(t)
  <2> DEFINE d == Head(queue[t])
  <2>1. /\ active' = active /\ alive' = alive /\ leaked' = leaked /\ fd' = fd
        /\ queue[t] # << >> /\ queue' = Set(queue, t, Tail(queue[t]))
    BY <1>3 DEF AcceptTakes
  <2>2. /\ Queued(t, d)
        /\ \A u \in Threads : Queued(u, c)' <=> Queued(u, c) /\ ~(u = t /\ c = d)
    BY <1>1, <2>1, QueuePops
  <2>3. current[t] = NoConn
    BY <1>1, <1>3 DEF AcceptTakes, StepInv
  <2>4. current'[t] = d /\ \A u \in Threads : u # t => current'[u] = current[u]
    BY <1>1, <1>3 DEF AcceptTakes, Set, TypeOK
  <2> HIDE DEF d
  <2>5. CASE c = d
    <3>1. /\ \A u \in Threads : /\ ~(u = next /\ acceptor.conn = c)
                                /\ Queued(u, c) => u = t
                                /\ current[u] # c
      BY <1>1, <2>2, <2>5, OnlyHolder
    <3>2. \A u \in Threads : active[u][c] = 0
      BY <1>1, <2>2, <2>5, NotActive
    <3>3. fd[c] = "open" /\ c \notin leaked
      <4>1. <<"queue", t>> \in Holders(c)
        BY <2>2, <2>5, HoldersAre
      <4>2. <<"queue", t>>[1] # "active"
        OBVIOUS
      <4>3. QED
        BY <1>1, <4>1, <4>2 DEF ConnInv
    <3>4. \A u \in Threads : /\ u = next' /\ acceptor'.conn = c <=> "current" = "acceptor" /\ u = t
                             /\ Queued(u, c)' <=> "current" = "queue" /\ u = t
                             /\ current'[u] = c <=> "current" = "current" /\ u = t
                             /\ active'[u][c] = 0
      BY <1>2, <2>1, <2>2, <2>4, <2>5, <3>1, <3>2
    <3>5. next' \in Threads /\ fd'[c] = "open" /\ c \notin leaked'
      BY <1>1, <1>2, <2>1, <3>3
    <3>6. QED
      BY <3>4, <3>5, OneHolder
  <2>6. CASE c # d
    <3>1. \A u \in Threads : current'[u] = c <=> current[u] = c
      BY <1>1, <2>3, <2>4, <2>6
    <3>2. QED
      BY <1>1, <1>2, <2>1, <2>2, <2>6, <3>1, Unaffected
  <2>7. QED
    BY <2>5, <2>6
<1>4. ASSUME AcceptMakes(t) \/ AcceptWires(t) \/ AcceptThrows(t)
      PROVE  /\ current[t] \in Conns
             /\ \A u \in Threads : Queued(u, c)' <=> Queued(u, c)
             /\ c = current[t] => /\ fd[c] = "open" /\ c \notin leaked
                                  /\ \A u \in Threads : /\ ~(u = next /\ acceptor.conn = c)
                                                        /\ ~Queued(u, c)
                                                        /\ current[u] = c => u = t
                                                        /\ active[u][c] = 0
  <2>1. current[t] \in Conns
    BY <1>1, <1>4 DEF AcceptMakes, AcceptWires, AcceptThrows, StepInv, TypeOK, Conns
  <2>2. \A u \in Threads : Queued(u, c)' <=> Queued(u, c)
    BY <1>4 DEF AcceptMakes, AcceptWires, AcceptThrows, Queued
  <2>3. ASSUME c = current[t]
        PROVE  fd[c] = "open" /\ c \notin leaked
    <3>1. <<"current", t>> \in Holders(c)
      BY <2>3, HoldersAre
    <3>2. <<"current", t>>[1] # "active"
      OBVIOUS
    <3>3. QED
      BY <1>1, <3>1, <3>2 DEF ConnInv
  <2>4. ASSUME c = current[t], NEW u \in Threads
        PROVE  /\ ~(u = next /\ acceptor.conn = c)
               /\ ~Queued(u, c)
               /\ current[u] = c => u = t
    BY <1>1, <2>4, OnlyHolder
  <2>5. ASSUME c = current[t], NEW u \in Threads
        PROVE  active[u][c] = 0
    BY <1>1, <2>5, NotActive
  <2>6. QED
    BY <2>1, <2>2, <2>3, <2>4, <2>5
<1>5. CASE AcceptMakes(t)
  <2>1. /\ current' = current /\ active' = active /\ leaked' = leaked /\ fd' = fd
        /\ alive' = alive \cup {current[t]}
    BY <1>5 DEF AcceptMakes
  <2>2. CASE c = current[t]
    <3>1. \A u \in Threads : /\ u = next' /\ acceptor'.conn = c <=> "current" = "acceptor" /\ u = t
                             /\ Queued(u, c)' <=> "current" = "queue" /\ u = t
                             /\ current'[u] = c <=> "current" = "current" /\ u = t
                             /\ active'[u][c] = 0
      BY <1>2, <1>4, <1>5, <2>1, <2>2
    <3>2. next' \in Threads /\ fd'[c] = "open" /\ c \notin leaked'
      BY <1>1, <1>2, <1>4, <1>5, <2>1, <2>2
    <3>3. QED
      BY <3>1, <3>2, OneHolder
  <2>3. CASE c # current[t]
    BY <1>1, <1>2, <1>4, <1>5, <2>1, <2>3, Unaffected
  <2>4. QED
    BY <2>2, <2>3
<1>6. CASE AcceptWires(t)
  <2>1. /\ leaked' = leaked
        /\ current'[t] = NoConn /\ \A u \in Threads : u # t => current'[u] = current[u]
    BY <1>1, <1>6 DEF AcceptWires, Set, TypeOK
  <2>2. /\ active'[t][current[t]] = active[t][current[t]] + 1
        /\ \A e \in Conns : e # current[t] => active'[t][e] = active[t][e]
        /\ \A u \in Threads : u # t => active'[u] = active[u]
    BY <1>1, <1>4, <1>6 DEF AcceptWires, TypeOK
  <2>3. /\ \A e \in Conns : e # current[t] => fd'[e] = fd[e] /\ (e \in alive' <=> e \in alive)
        /\ \/ fd'[current[t]] = fd[current[t]] /\ (current[t] \in alive' <=> current[t] \in alive)
           \/ fd'[current[t]] = "closed" /\ current[t] \notin alive'
    BY <1>1, <1>4, <1>6 DEF AcceptWires, Set, TypeOK
  <2>4. CASE c = current[t]
    <3>1. current[t] \in alive
      BY <1>1, <1>6 DEF AcceptWires, StepInv
    <3>2. \A u \in Threads : /\ ~(u = next' /\ acceptor'.conn = c)
                             /\ ~Queued(u, c)'
                             /\ current'[u] # c
                             /\ u # t => active'[u][c] = 0
      BY <1>1, <1>2, <1>4, <1>6, <2>1, <2>2, <2>4
    <3>3. active[t][c] = 0 /\ c \notin leaked' /\ fd[c] = "open"
      BY <1>4, <1>6, <2>1, <2>4
    <3>4. active'[t][c] = 1
      BY <2>2, <2>4, <3>3
    <3>5. \/ fd'[c] = "open" /\ c \in alive'
          \/ fd'[c] = "closed" /\ c \notin alive'
      BY <2>3, <2>4, <3>1, <3>3
    <3>6. QED
      BY <3>2, <3>3, <3>4, <3>5, OneClient
  <2>5. CASE c # current[t]
    <3>1. \A u \in Threads : /\ active'[u][c] = active[u][c]
                             /\ current'[u] = c <=> current[u] = c
      BY <1>1, <2>1, <2>2, <2>5
    <3>2. fd'[c] = fd[c] /\ (c \in alive' <=> c \in alive)
      BY <2>3, <2>5
    <3>3. QED
      BY <1>1, <1>2, <1>4, <1>6, <2>1, <3>1, <3>2, Unaffected
  <2>6. QED
    BY <2>4, <2>5
<1>7. CASE AcceptThrows(t)
  <2>1. /\ active' = active /\ fd' = fd
        /\ leaked' = leaked \cup {current[t]} /\ alive' = alive \ {current[t]}
        /\ current'[t] = NoConn /\ \A u \in Threads : u # t => current'[u] = current[u]
    BY <1>1, <1>7 DEF AcceptThrows, Set, TypeOK
  <2>2. CASE c = current[t]
    <3>1. \A u \in Threads : /\ ~(u = next' /\ acceptor'.conn = c)
                             /\ ~Queued(u, c)'
                             /\ current'[u] # c
                             /\ active'[u][c] = 0
      BY <1>1, <1>2, <1>4, <1>7, <2>1, <2>2
    <3>2. c \in leaked' /\ c \notin alive' /\ fd'[c] = "open"
      BY <1>4, <1>7, <2>1, <2>2
    <3>3. QED
      BY <3>1, <3>2, NoHolder
  <2>3. CASE c # current[t]
    <3>1. \A u \in Threads : current'[u] = c <=> current[u] = c
      BY <1>1, <2>1, <2>3
    <3>2. QED
      BY <1>1, <1>2, <1>4, <1>7, <2>1, <2>3, <3>1, Unaffected
  <2>4. QED
    BY <2>2, <2>3
<1>8. QED
  BY <1>3, <1>5, <1>6, <1>7

-----------------------------------------------------------------------------
(* The theorems.                                                            *)

LEMMA InitIInv ==
    ASSUME Init
    PROVE  IInv
<1> USE ThreadsAssumption, ConnsAssumption
<1>1. 0 \in Threads /\ << >> \in Seq(Incoming)
  BY DEF Threads
<1>2. TypeOK
  BY <1>1 DEF Init, TypeOK, Conns
<1>3. StepInv /\ QueueInv
  BY DEF Init, StepInv, QueueInv
<1>4. ASSUME NEW c \in Conns
      PROVE  ConnInv(c)
  <2>1. c # NoConn
    BY DEF Conns
  <2>2. Holders(c) = {}
    <3>1. ASSUME NEW h \in Holders(c) PROVE FALSE
      <4>1. h[2] \in Threads
        BY <3>1 DEF Holders
      <4>2. acceptor.conn # c /\ ~Queued(h[2], c) /\ current[h[2]] # c /\ ~(active[h[2]][c] > 0)
        BY <2>1, <4>1 DEF Init, Queued
      <4>3. QED
        BY <3>1, <4>2 DEF Holders
    <3>2. QED
      BY <3>1
  <2>3. /\ fd[c] = "none" /\ c \notin leaked /\ c \notin alive
        /\ \A t \in Threads : active[t][c] = 0
    BY DEF Init
  <2>4. \A t \in Threads : active[t][c] <= 1 /\ ~(active[t][c] > 0)
    BY <2>3
  <2>5. QED
    BY <2>2, <2>3, <2>4 DEF ConnInv
<1>5. QED
  BY <1>2, <1>3, <1>4 DEF IInv

LEMMA NextIInv ==
    ASSUME IInv, [Next]_vars
    PROVE  IInv'
<1>1. TypeOK' /\ StepInv' /\ QueueInv'
  BY TypeKept, StepKept, QueueKept DEF IInv
<1>2. ASSUME NEW c \in Conns
      PROVE  ConnInv(c)'
  <2>1. CASE Acceptor
    BY <1>1, <2>1, AcceptorConnKept
  <2>2. ASSUME NEW t \in Threads, Thread(t)
        PROVE  ConnInv(c)'
    <3>1. CASE \/ Sweep(t) \/ WaitReturns(t) \/ AcceptStarts(t) \/ AcceptLocks(t) \/ AcceptEnds(t)
               \/ \E d \in Conns : ClientDrops(t, d) \/ ClientConnects(t, d)
      BY <3>1, LoopConnKept
    <3>2. CASE AcceptTakes(t) \/ AcceptMakes(t) \/ AcceptWires(t) \/ AcceptThrows(t)
      BY <3>2, AcceptConnKept
    <3>3. QED
      BY <2>2, <3>1, <3>2 DEF Thread, Accept
  <2>3. CASE UNCHANGED vars
    BY <2>3, Unaffected DEF IInv, vars, Queued
  <2>4. QED
    BY <2>1, <2>2, <2>3 DEF Next
<1>3. QED
  BY <1>1, <1>2 DEF IInv

\* The inductive invariant holds in every state.
THEOREM Invariance == Spec => []IInv
<1>1. Init => IInv
  BY InitIInv
<1>2. IInv /\ [Next]_vars => IInv'
  BY NextIInv
<1>3. QED
  BY <1>1, <1>2, PTL DEF Spec

\* Every variable has its type.
THEOREM TypeCorrect == Spec => []TypeOK
<1>1. IInv => TypeOK
  BY DEF IInv
<1>2. QED
  BY <1>1, Invariance, PTL

\* An open connection is in one place, and there once, from accept(2) to the end of its
\* client, whatever the acceptor, the threads and the clients' handlers do: no queue, newClient
\* or ActiveClients shares it with another, and only a handler that throws loses one.
THEOREM OneOwnerAlways == Spec => []OneOwner
<1>1. IInv => OneOwner
  <2>1. ASSUME IInv, NEW c \in Conns, NEW t \in Threads
        PROVE  \A j, k \in DOMAIN queue[t] : queue[t][j] = c /\ queue[t][k] = c => j = k
    BY <2>1 DEF IInv, QueueInv
  <2>2. QED
    BY <2>1 DEF IInv, ConnInv, OneOwner
<1>2. QED
  BY <1>1, Invariance, PTL

\* A nonempty queue has a trigger to come or an Accept under way, unless the last Accept was
\* ended by an exception.
TriggerInv ==
    \A t \in Threads :
        queue[t] # << >> /\ t \notin stranded =>
            \/ triggered[t]
            \/ acceptor.at = "trigger" /\ next = t
            \/ pc[t] \in {"lock", "take", "make", "wire"}

\* Pushing and triggering under the lock loses no wake-up: a thread that waits with a nonempty
\* queue has its trigger still to come, unless an exception ended its last Accept.
THEOREM NoTriggerIsLost == Spec => []NoLostTrigger
<1>1. Init => TriggerInv
  BY DEF Init, TriggerInv
<1>2. ASSUME TypeOK, TriggerInv, [Next]_vars
      PROVE  TriggerInv'
  <2>1. CASE UNCHANGED vars
    BY <1>2, <2>1 DEF TriggerInv, vars
  <2>2. ASSUME NEW c \in Incoming, AcceptorAccepts(c)
        PROVE  TriggerInv'
    BY <1>2, <2>2 DEF AcceptorAccepts, TriggerInv
  <2>3. CASE AcceptorLocks
    BY <1>2, <2>3 DEF AcceptorLocks, TriggerInv
  <2>4. CASE AcceptorPushes
    <3>1. /\ acceptor'.at = "trigger" /\ next' = next
          /\ \A t \in Threads : t # next => queue'[t] = queue[t]
          /\ triggered' = triggered /\ pc' = pc /\ stranded' = stranded
          /\ acceptor.at # "trigger"
      BY <1>2, <2>4 DEF AcceptorPushes, Set, TypeOK
    <3>2. QED
      BY <1>2, <3>1 DEF TriggerInv
  <2>5. CASE AcceptorTriggers
    <3>1. /\ queue' = queue /\ pc' = pc /\ stranded' = stranded \ {next}
          /\ triggered'[next] = TRUE /\ \A t \in Threads : t # next => triggered'[t] = triggered[t]
      BY <1>2, <2>5 DEF AcceptorTriggers, Set, TypeOK
    <3>2. ASSUME NEW t \in Threads, queue'[t] # << >>, t \notin stranded'
          PROVE  triggered'[t] \/ pc'[t] \in {"lock", "take", "make", "wire"}
      <4>1. CASE t = next
        BY <3>1, <4>1
      <4>2. CASE t # next
        BY <1>2, <3>1, <3>2, <4>2 DEF TriggerInv
      <4>3. QED
        BY <4>1, <4>2
    <3>3. QED
      BY <3>2 DEF TriggerInv
  <2>6. ASSUME NEW t \in Threads, Thread(t)
        PROVE  TriggerInv'
    <3>1. acceptor' = acceptor /\ next' = next
      BY <2>6 DEF Thread, Accept, Sweep, WaitReturns, ClientDrops, ClientConnects, AcceptStarts,
                  AcceptLocks, AcceptTakes, AcceptMakes, AcceptWires, AcceptThrows, AcceptEnds, acceptVars
    <3>2. ASSUME NEW u \in Threads, u # t
          PROVE  /\ queue'[u] = queue[u] /\ triggered'[u] = triggered[u] /\ pc'[u] = pc[u]
                 /\ u \in stranded' <=> u \in stranded
      BY <1>2, <2>6, <3>2
      DEF Thread, Accept, Sweep, WaitReturns, ClientDrops, ClientConnects, AcceptStarts, AcceptLocks,
          AcceptTakes, AcceptMakes, AcceptWires, AcceptThrows, AcceptEnds, Set, TypeOK
    <3>3. ASSUME queue'[t] # << >>, t \notin stranded',
                 pc'[t] \notin {"lock", "take", "make", "wire"}
          PROVE  triggered'[t] \/ (acceptor.at = "trigger" /\ next = t)
      <4>1. CASE Sweep(t) \/ WaitReturns(t) \/ \E c \in Conns : ClientDrops(t, c) \/ ClientConnects(t, c)
        <5>1. /\ queue' = queue /\ triggered' = triggered /\ stranded' = stranded
              /\ pc[t] \in {"sweep", "wait"}
          BY <4>1 DEF Sweep, WaitReturns, ClientDrops, ClientConnects
        <5>2. QED
          BY <1>2, <3>3, <5>1 DEF TriggerInv
      <4>2. CASE AcceptStarts(t) \/ AcceptLocks(t) \/ AcceptTakes(t) \/ AcceptMakes(t) \/ AcceptWires(t)
        BY <1>2, <3>3, <4>2 DEF AcceptStarts, AcceptLocks, AcceptTakes, AcceptMakes, AcceptWires, Set, TypeOK
      <4>3. CASE AcceptThrows(t)
        BY <3>3, <4>3 DEF AcceptThrows
      <4>4. CASE AcceptEnds(t)
        BY <3>3, <4>4 DEF AcceptEnds
      <4>5. QED
        BY <2>6, <4>1, <4>2, <4>3, <4>4 DEF Thread, Accept
    <3>4. QED
      BY <1>2, <3>1, <3>2, <3>3 DEF TriggerInv
  <2>7. QED
    BY <1>2, <2>1, <2>2, <2>3, <2>4, <2>5, <2>6 DEF Next, Acceptor
<1>3. TriggerInv => NoLostTrigger
  BY DEF TriggerInv, NoLostTrigger
<1>4. QED
  BY <1>1, <1>2, <1>3, TypeCorrect, PTL DEF Spec
=============================================================================
