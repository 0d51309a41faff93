--------------------------- MODULE IqPoolsProofs ---------------------------
(***************************************************************************)
(* For every number of receivers, transmitters and NUMA nodes, every queue *)
(* capacity and every size of the pools: no step makes or loses a buffer,  *)
(* and one pool of Demand buffers never runs dry.  A sum is the number of  *)
(* tokens of a function, so that what a step does to it follows from the   *)
(* theorems on finite sets.                                                *)
(***************************************************************************)
EXTENDS IqPools, FiniteSetTheorems, TLAPS

\* The prover of the leaves that do not name another one.
USE ZenonT(30)

-----------------------------------------------------------------------------
(* Sums *)

\* A token is a place with a number up to what the place holds.
LEMMA TokenIs ==
    ASSUME NEW f
    PROVE  \A z : z \in Tokens(f) <=> \E x \in DOMAIN f : \E i \in 1 .. f[x] : z = <<x, i>>
  BY SMTT(30) DEF Tokens

\* The tokens at x from a + 1 to b.
Slice(x, a, b) == {x} \X (a + 1 .. b)

LEMMA SliceCount ==
    ASSUME NEW x, NEW a \in Nat, NEW b \in Nat, a <= b
    PROVE  IsFiniteSet(Slice(x, a, b)) /\ Cardinality(Slice(x, a, b)) = b - a
<1>1. IsFiniteSet(a + 1 .. b) /\ Cardinality(a + 1 .. b) = b - a
  <2>1. a + 1 \in Int /\ b \in Int
    BY SMTT(30)
  <2>2. /\ IsFiniteSet(a + 1 .. b)
        /\ Cardinality(a + 1 .. b) = IF a + 1 > b THEN 0 ELSE b - (a + 1) + 1
    BY <2>1, FS_Interval
  <2> QED BY <2>2, SMTT(30)
<1>2. IsFiniteSet({x}) /\ Cardinality({x}) = 1
  BY FS_Singleton
<1> DEFINE S == a + 1 .. b
           X == {x}
<1>3. Slice(x, a, b) = X \X S
  BY DEF Slice
<1>4. /\ IsFiniteSet(S) /\ Cardinality(S) = b - a
      /\ IsFiniteSet(X) /\ Cardinality(X) = 1
  BY <1>1, <1>2
<1> HIDE DEF S, X
<1>5. IsFiniteSet(X \X S) /\ Cardinality(X \X S) = Cardinality(X) * Cardinality(S)
  BY <1>4, FS_Product
<1> QED BY <1>3, <1>4, <1>5, SMTT(30)

\* A function that grows at one place gains as many tokens there.
LEMMA TotalGrows ==
    ASSUME NEW D, NEW f \in [D -> Nat], NEW g \in [D -> Nat], NEW x \in D,
           \A y \in D \ {x} : g[y] = f[y], f[x] <= g[x], IsFiniteSet(Tokens(f))
    PROVE  IsFiniteSet(Tokens(g)) /\ Total(g) = Total(f) + (g[x] - f[x])
<1> DEFINE s == Slice(x, f[x], g[x])
<1>1. IsFiniteSet(s) /\ Cardinality(s) = g[x] - f[x]
  BY SliceCount
<1>2. Tokens(g) = Tokens(f) \cup s
  <2>1. ASSUME NEW z \in Tokens(g) PROVE z \in Tokens(f) \cup s
    <3>1a. PICK y \in D : \E i \in 1 .. g[y] : z = <<y, i>>
      BY TokenIs, SMTT(30)
    <3>1. PICK i \in 1 .. g[y] : z = <<y, i>>
      BY <3>1a
    <3>2. CASE y # x \/ i <= f[x]
      <4>1. i \in 1 .. f[y]
        BY <3>2, SMTT(30)
      <4> QED BY <3>1, <4>1, TokenIs
    <3>3. CASE y = x /\ i > f[x]
      <4>1. i \in f[x] + 1 .. g[x]
        BY <3>3, SMTT(30)
      <4> QED BY <3>1, <3>3, <4>1 DEF Slice
    <3> QED BY <3>2, <3>3, SMTT(30)
  <2>2. ASSUME NEW z \in Tokens(f) PROVE z \in Tokens(g)
    <3>1a. PICK y \in D : \E i \in 1 .. f[y] : z = <<y, i>>
      BY TokenIs, SMTT(30)
    <3>1. PICK i \in 1 .. f[y] : z = <<y, i>>
      BY <3>1a
    <3>2. i \in 1 .. g[y]
      BY <3>1, SMTT(30)
    <3> QED BY <3>1, <3>2, TokenIs
  <2>3. ASSUME NEW z \in s PROVE z \in Tokens(g)
    <3>1. PICK i \in f[x] + 1 .. g[x] : z = <<x, i>>
      BY <2>3, SMTT(30) DEF Slice
    <3>2. i \in 1 .. g[x]
      BY <3>1, SMTT(30)
    <3> QED BY <3>1, <3>2, TokenIs
  <2> QED BY <2>1, <2>2, <2>3
<1>3. Tokens(f) \cap s = {}
  <2> SUFFICES ASSUME NEW z \in Tokens(f), z \in s PROVE FALSE
    OBVIOUS
  <2>1a. PICK y \in D : \E i \in 1 .. f[y] : z = <<y, i>>
    BY TokenIs, SMTT(30)
  <2>1. PICK i \in 1 .. f[y] : z = <<y, i>>
    BY <2>1a
  <2>2. PICK j \in f[x] + 1 .. g[x] : z = <<x, j>>
    BY SMTT(30) DEF Slice
  <2> QED BY <2>1, <2>2, SMTT(30)
<1>4. Cardinality(Tokens(f)) \in Nat
  BY FS_CardinalityType
<1> HIDE DEF s
<1>5. /\ IsFiniteSet(Tokens(f) \cup s)
      /\ Cardinality(Tokens(f) \cup s) = Cardinality(Tokens(f)) + Cardinality(s) - Cardinality({})
  BY <1>1, <1>3, FS_Union, SMTT(30)
<1> QED BY <1>1, <1>2, <1>4, <1>5, FS_EmptySet, SMTT(30) DEF Total

\* Whatever changes at one place changes the sum by as much.
LEMMA TotalStep ==
    ASSUME NEW D, NEW f \in [D -> Nat], NEW g \in [D -> Nat], NEW x \in D,
           \A y \in D \ {x} : g[y] = f[y], IsFiniteSet(Tokens(f))
    PROVE  /\ IsFiniteSet(Tokens(g)) /\ Total(g) = Total(f) + (g[x] - f[x])
           /\ Total(f) \in Nat /\ Total(g) \in Nat
<1>1. CASE f[x] <= g[x]
  BY <1>1, TotalGrows, FS_CardinalityType DEF Total
<1>2. CASE g[x] <= f[x]
  <2>1. Tokens(g) \subseteq Tokens(f)
    <3> SUFFICES ASSUME NEW z \in Tokens(g) PROVE z \in Tokens(f)
      OBVIOUS
    <3>1a. PICK y \in D : \E i \in 1 .. g[y] : z = <<y, i>>
      BY TokenIs, SMTT(30)
    <3>1. PICK i \in 1 .. g[y] : z = <<y, i>>
      BY <3>1a
    <3>2. i \in 1 .. f[y]
      BY <1>2, <3>1, SMTT(30)
    <3> QED BY <3>1, <3>2, TokenIs
  <2>2. IsFiniteSet(Tokens(g))
    BY <2>1, FS_Subset
  <2>3. Total(f) = Total(g) + (f[x] - g[x])
    BY <1>2, <2>2, TotalGrows
  <2>4. Total(f) \in Nat /\ Total(g) \in Nat
    BY <2>2, FS_CardinalityType DEF Total
  <2> QED BY <2>2, <2>3, <2>4, SMTT(30)
<1> QED BY <1>1, <1>2, SMTT(30)

\* Nothing held anywhere is nothing.
LEMMA TotalZero ==
    ASSUME NEW f, \A x \in DOMAIN f : f[x] = 0
    PROVE  IsFiniteSet(Tokens(f)) /\ Total(f) = 0
<1>1. Tokens(f) = {}
  BY TokenIs, SMTT(30)
<1> QED BY <1>1, FS_EmptySet DEF Total

\* As much everywhere is a product.
LEMMA TotalSame ==
    ASSUME NEW D, IsFiniteSet(D), NEW k \in Nat, NEW f, DOMAIN f = D, \A x \in D : f[x] = k
    PROVE  IsFiniteSet(Tokens(f)) /\ Total(f) = Cardinality(D) * k
<1> DEFINE S == 1 .. k
<1>1. IsFiniteSet(S) /\ Cardinality(S) = k
  BY FS_Interval, SMTT(30)
<1>2. Tokens(f) = D \X S
  BY TokenIs, SMTT(30)
<1> HIDE DEF S
<1>3. IsFiniteSet(D \X S) /\ Cardinality(D \X S) = Cardinality(D) * Cardinality(S)
  BY <1>1, FS_Product
<1> QED BY <1>1, <1>2, <1>3 DEF Total


\* A bound on what each place of S holds bounds the sum, strictly if one holds less.
LEMMA TotalBound ==
    ASSUME NEW D, NEW S \in SUBSET D, IsFiniteSet(S), NEW f \in [D -> Nat], NEW k \in Nat,
           \A x \in S : f[x] <= k, \A x \in D \ S : f[x] = 0
    PROVE  /\ Total(f) <= Cardinality(S) * k
           /\ (\E x \in S : f[x] < k) => Total(f) < Cardinality(S) * k
<1> DEFINE K == 1 .. k
           P == S \X K
<1>1. IsFiniteSet(K) /\ Cardinality(K) = k
  BY FS_Interval, SMTT(30)
<1>2. Tokens(f) \subseteq P
  <2> SUFFICES ASSUME NEW z \in Tokens(f) PROVE z \in S \X K
    OBVIOUS
  <2>1. PICK x \in D : \E i \in 1 .. f[x] : z = <<x, i>>
    BY TokenIs, SMTT(30)
  <2>2. PICK i \in 1 .. f[x] : z = <<x, i>>
    BY <2>1
  <2>3. x \in S
    BY <2>2, SMTT(30)
  <2>4. i \in 1 .. k
    BY <2>2, <2>3, SMTT(30)
  <2> QED BY <2>2, <2>3, <2>4
<1>3. ASSUME NEW x \in S, f[x] < k PROVE Tokens(f) # P
  <2>1. <<x, k>> \in P
    BY <1>3, SMTT(30)
  <2>2. <<x, k>> \notin Tokens(f)
    BY <1>3, TokenIs, SMTT(30)
  <2> QED BY <2>1, <2>2
<1> HIDE DEF K
<1>4. IsFiniteSet(P) /\ Cardinality(P) = Cardinality(S) * k
  BY <1>1, FS_Product
<1> HIDE DEF P
<1>5. IsFiniteSet(Tokens(f)) /\ Cardinality(Tokens(f)) <= Cardinality(P)
      /\ (Cardinality(P) = Cardinality(Tokens(f)) => P = Tokens(f))
  BY <1>2, <1>4, FS_Subset
<1>6. Cardinality(P) \in Nat /\ Cardinality(Tokens(f)) \in Nat
  BY <1>4, <1>5, FS_CardinalityType
<1> QED BY <1>3, <1>4, <1>5, <1>6, SMTT(30) DEF Total

-----------------------------------------------------------------------------
(* Types *)

\* A worker w, of whose destinations, all in A, those in rd may be pushed to;
\* N are the pools.
Busy(w, rd, A, N) ==
    /\ w = Work(w.pc, w.dests, w.at, w.got)
    /\ w.pc \in {"pop", "burst", "batch", "back", "deliver"}
    /\ w.dests \subseteq A /\ w.at \in Nat /\ w.got \in Nat
    /\ w.pc = "pop" => w = Idle
    /\ w.pc = "burst" => w.got = 0
    /\ w.pc \in {"batch", "back"} => w.at \in N /\ w.got < Cardinality(w.dests)
    /\ w.pc = "deliver" => w.got = Cardinality(w.dests)
    /\ rd \subseteq w.dests /\ (rd # {} => w.pc = "deliver")

Machine ==
    /\ capacity \in Nat /\ attached \subseteq Transmitter
    /\ IsFiniteSet(Node) /\ Node \subseteq Nat /\ 0 \in Node
    /\ home \in Node /\ numa_node \in [Receiver -> Node]
    /\ pool \in [Node -> Nat]

Counters ==
    /\ rx \in [Receiver -> {"call", "recv", "ended"}]
    /\ add2Queue \in [Receiver -> {"none", "worker", "release"}]
    /\ m_queue \in [Receiver -> Nat] /\ queue \in [Receiver -> Nat]
    /\ txQueue \in [Transmitter -> Nat] /\ txHand \in [Transmitter -> Nat]

Workers ==
    /\ worker = [r \in Receiver |-> worker[r]] /\ ready = [r \in Receiver |-> ready[r]]
    /\ \A r \in Receiver : Busy(worker[r], ready[r], attached, Node)

Types == Machine /\ Counters /\ Workers

\* The sums of BuffersConserved.
ForRx == [r \in Receiver |-> HeldFor(r)]
ByTx == [t \in Transmitter |-> HeldBy(t)]
Counted ==
    /\ IsFiniteSet(Tokens(pool)) /\ IsFiniteSet(Tokens(ForRx)) /\ IsFiniteSet(Tokens(ByTx))
    /\ BuffersConserved

-----------------------------------------------------------------------------
(* Limits *)

Pushers(t) == {r \in Receiver : t \in ready[r]}

\* What the queues of a receiver can hold: its own is full only while the
\* queue of its worker is empty.
QueueLimits ==
    \A r \in Receiver :
        /\ m_queue[r] <= QUEUE_CAP /\ queue[r] <= QUEUE_CAP - 1
        /\ m_queue[r] = QUEUE_CAP \/ add2Queue[r] # "worker" => queue[r] = 0

\* A worker that has found room for a transmitter may push whatever the others
\* do meanwhile.
TxLimits ==
    \A t \in Transmitter :
        /\ txHand[t] <= 1
        /\ txQueue[t] + Cardinality(Pushers(t)) <= QUEUE_CAP - 2 + Cardinality(Receiver)
        /\ t \notin attached => txQueue[t] = 0 /\ txHand[t] = 0

Limits == QueueLimits /\ TxLimits

-----------------------------------------------------------------------------
(* What the actions do to pools and workers *)

LEMMA PutType ==
    ASSUME Machine, NEW n \in Node, NEW k \in Nat, Put(n, k), UNCHANGED conf
    PROVE  /\ Machine' /\ Node' = Node /\ attached' = attached /\ capacity' = capacity
           /\ pool'[n] = pool[n] + k /\ \A m \in Node \ {n} : pool'[m] = pool[m]
<1>1. /\ pool' \in [Node -> Nat] /\ pool'[n] = pool[n] + k
      /\ \A m \in Node \ {n} : pool'[m] = pool[m]
  BY SMTT(30) DEF Machine, Put
<1>2. Node' = Node
  BY <1>1 DEF Node
<1> QED BY <1>1, <1>2 DEF Machine, conf

LEMMA TakeType ==
    ASSUME Machine, NEW n \in Node, pool[n] > 0, Take(n), UNCHANGED conf
    PROVE  /\ Machine' /\ Node' = Node /\ attached' = attached /\ capacity' = capacity
           /\ pool'[n] = pool[n] - 1 /\ \A m \in Node \ {n} : pool'[m] = pool[m]
<1>1. /\ pool' \in [Node -> Nat] /\ pool'[n] = pool[n] - 1
      /\ \A m \in Node \ {n} : pool'[m] = pool[m]
  BY SMTT(30) DEF Machine, Take
<1>2. Node' = Node
  BY <1>1 DEF Node
<1> QED BY <1>1, <1>2 DEF Machine, conf

LEMMA SameMachine ==
    ASSUME Machine, UNCHANGED <<pool, conf>>
    PROVE  Machine' /\ Node' = Node /\ attached' = attached /\ capacity' = capacity /\ pool' = pool
BY DEF Machine, Node, conf

\* One worker goes on, the others are left alone.
LEMMA OneWorker ==
    ASSUME Workers, NEW r \in Receiver, NEW w, worker' = [worker EXCEPT ![r] = w],
           NEW rd, ready' = [ready EXCEPT ![r] = rd],
           Busy(w, rd, attached, Node), Node' = Node, attached' = attached
    PROVE  /\ Workers' /\ worker'[r] = w /\ ready'[r] = rd
           /\ \A q \in Receiver \ {r} : worker'[q] = worker[q] /\ ready'[q] = ready[q]
<1>1. /\ worker' = [q \in Receiver |-> IF q = r THEN w ELSE worker[q]]
      /\ ready' = [q \in Receiver |-> IF q = r THEN rd ELSE ready[q]]
  BY DEF Workers
<1> QED BY <1>1 DEF Workers

LEMMA SameWorkers ==
    ASSUME Workers, UNCHANGED <<worker, ready>>, Node' = Node, attached' = attached
    PROVE  Workers'
BY DEF Workers

LEMMA IdleIs ==
    /\ Idle.pc = "pop" /\ Idle.dests = {} /\ Idle.got = 0
    /\ \A A, N : Busy(Idle, {}, A, N)
BY DEF Idle, Busy, Work

LEMMA WorkFields ==
    ASSUME NEW p, NEW d, NEW n, NEW g
    PROVE  /\ Work(p, d, n, g).pc = p /\ Work(p, d, n, g).dests = d
           /\ Work(p, d, n, g).at = n /\ Work(p, d, n, g).got = g
BY DEF Work

\* A destination less to serve is a buffer less in hand.
LEMMA ServedBusy ==
    ASSUME NEW w, NEW rd, NEW A, NEW N, Busy(w, rd, A, N), IsFiniteSet(A),
           w.pc = "deliver", NEW t \in w.dests
    PROVE  /\ Busy(Served(w, t), rd \ {t}, A, N)
           /\ w.got > 0 /\ Served(w, t).got = w.got - 1 /\ Served(w, t).pc # "burst"
<1> DEFINE D == w.dests
<1>1. IsFiniteSet(D) /\ w.got = Cardinality(D) /\ rd \subseteq D /\ D \subseteq A
  BY FS_Subset DEF Busy
<1>2. t \in D
  OBVIOUS
<1> HIDE DEF D
<1>3. /\ IsFiniteSet(D \ {t}) /\ Cardinality(D \ {t}) = Cardinality(D) - 1
      /\ Cardinality(D) \in Nat /\ Cardinality(D \ {t}) \in Nat
  BY <1>1, <1>2, FS_RemoveElement, FS_CardinalityType
<1>4. CASE D = {t}
  <2>1. Cardinality(D) = 1 /\ rd \ {t} = {}
    BY <1>1, <1>4, FS_Singleton
  <2>2. Served(w, t) = Idle
    BY <1>4 DEF Served, D
  <2> QED BY <1>1, <2>1, <2>2, IdleIs, SMTT(30)
<1>5. CASE D # {t}
  <2> DEFINE v == Work("deliver", D \ {t}, w.at, w.got - 1)
  <2>1. Served(w, t) = v
    BY <1>5 DEF Served, D
  <2>2. w.at \in Nat
    BY DEF Busy
  <2> HIDE DEF v
  <2>4. v.pc = "deliver" /\ v.dests = D \ {t} /\ v.at = w.at /\ v.got = Cardinality(D \ {t})
    BY <1>1, <1>3, WorkFields, SMTT(30) DEF v
  <2>5. v = Work(v.pc, v.dests, v.at, v.got)
    BY WorkFields, SMTT(30) DEF v
  <2>6. Busy(v, rd \ {t}, A, N)
    <3>1. rd \ {t} \subseteq v.dests /\ v.dests \subseteq A
      BY <1>1, <2>4
    <3>2. v.at \in Nat /\ v.got \in Nat /\ v.got = Cardinality(v.dests)
      BY <1>3, <2>2, <2>4
    <3> QED BY <2>4, <2>5, <3>1, <3>2 DEF Busy
  <2> QED BY <1>1, <1>3, <2>1, <2>4, <2>6, SMTT(30)
<1> QED BY <1>4, <1>5

\* What Types says of one receiver.
LEMMA OneReceiver ==
    ASSUME Types, NEW r \in Receiver
    PROVE  /\ Busy(worker[r], ready[r], attached, Node) /\ IsFiniteSet(attached)
           /\ numa_node[r] \in Node /\ home \in Node /\ 0 \in Node /\ Node \subseteq Nat
           /\ rx[r] \in {"call", "recv", "ended"}
           /\ m_queue[r] \in Nat /\ queue[r] \in Nat /\ InHand(r) \in Nat
           /\ Parked(r) \in Nat /\ HeldFor(r) \in Nat
<1>1. IsFiniteSet(attached)
  BY PoolAssumption, FS_Subset DEF Types, Machine
<1>2. Busy(worker[r], ready[r], attached, Node)
  BY DEF Types, Workers
<1>3. worker[r].got \in Nat
  BY <1>2 DEF Busy
<1>4. /\ numa_node[r] \in Node /\ home \in Node /\ 0 \in Node /\ Node \subseteq Nat
      /\ rx[r] \in {"call", "recv", "ended"} /\ m_queue[r] \in Nat /\ queue[r] \in Nat
  BY DEF Types, Machine, Counters
<1> QED BY <1>1, <1>2, <1>3, <1>4, SMTT(30) DEF InHand, Parked, HeldFor

-----------------------------------------------------------------------------
(* Every action keeps the types, and moves buffers between a pool, a       *)
(* receiver with its worker, and a transmitter                             *)

PoolsKeep(n) == \A m \in Node \ {n} : pool'[m] = pool[m]
ReceiversKeep(r) ==
    \A q \in Receiver \ {r} :
        rx'[q] = rx[q] /\ m_queue'[q] = m_queue[q] /\ queue'[q] = queue[q] /\ worker'[q] = worker[q]

\* n, r are the pool and the receiver of the move.
RxMove(n, r) ==
    /\ Node' = Node /\ capacity' = capacity
    /\ PoolsKeep(n) /\ ReceiversKeep(r) /\ UNCHANGED txVars
    /\ pool'[n] + HeldFor(r)' = pool[n] + HeldFor(r)

LEMMA CallRecvStep ==
    ASSUME Types, NEW r \in Receiver, CallRecv(r)
    PROVE  Types' /\ RxMove(home, r)
<1> USE DEF Types
<1>1. /\ rx[r] = "call" /\ home \in Node
      /\ UNCHANGED <<add2Queue, m_queue, queue, worker, ready, txVars, conf>>
  BY OneReceiver DEF CallRecv
<1>2. ASSUME NEW x \in {"recv", "ended"}, rx' = [rx EXCEPT ![r] = x]
      PROVE  /\ Counters' /\ ReceiversKeep(r) /\ rx'[r] = x
             /\ Parked(r)' = (IF x = "recv" THEN 1 ELSE 0) + Parked(r)
             /\ queue'[r] = queue[r] /\ InHand(r)' = InHand(r)
  <2>1. Counters' /\ rx'[r] = x /\ \A q \in Receiver \ {r} : rx'[q] = rx[q]
    BY <1>1, <1>2 DEF Counters, txVars
  <2>2. Parked(r)' = (IF x = "recv" THEN 1 ELSE 0) + Parked(r)
    BY <1>1, <2>1, OneReceiver, SMTT(30) DEF Parked
  <2> QED BY <1>1, <2>1, <2>2 DEF ReceiversKeep, InHand
<1>3. CASE pool[home] > 0 /\ Take(home) /\ rx' = [rx EXCEPT ![r] = "recv"]
  <2>1. Machine' /\ Node' = Node /\ capacity' = capacity /\ PoolsKeep(home)
        /\ pool'[home] = pool[home] - 1 /\ attached' = attached
    BY <1>1, <1>3, TakeType DEF PoolsKeep
  <2>2. Workers'
    BY <1>1, <2>1, SameWorkers
  <2>3. HeldFor(r)' = HeldFor(r) + 1
    BY <1>2, <1>3, OneReceiver, SMTT(30) DEF HeldFor
  <2>4. pool[home] \in Nat
    BY <1>1 DEF Machine
  <2> QED BY <1>1, <1>2, <1>3, <2>1, <2>2, <2>3, <2>4, OneReceiver, SMTT(30) DEF RxMove
<1>4. CASE rx' = [rx EXCEPT ![r] = "ended"] /\ UNCHANGED pool
  <2>1. Machine' /\ Node' = Node /\ capacity' = capacity /\ pool' = pool /\ attached' = attached
    BY <1>1, <1>4, SameMachine
  <2>2. Workers'
    BY <1>1, <2>1, SameWorkers
  <2>3. HeldFor(r)' = HeldFor(r)
    BY <1>2, <1>4, OneReceiver, SMTT(30) DEF HeldFor
  <2> QED BY <1>1, <1>2, <1>4, <2>1, <2>2, <2>3 DEF RxMove, PoolsKeep
<1> QED BY <1>3, <1>4 DEF CallRecv

LEMMA RecvFailsStep ==
    ASSUME Types, NEW r \in Receiver, RecvFails(r)
    PROVE  Types' /\ RxMove(home, r)
<1> USE DEF Types
<1>1. /\ rx[r] = "recv" /\ Put(home, 1) /\ rx' = [rx EXCEPT ![r] = "call"]
      /\ UNCHANGED <<add2Queue, m_queue, queue, worker, ready, txVars, conf>>
  BY DEF RecvFails
<1>2. /\ Counters' /\ ReceiversKeep(r) /\ rx'[r] = "call"
  BY <1>1 DEF Counters, txVars, ReceiversKeep
<1>3. /\ Machine' /\ Node' = Node /\ capacity' = capacity /\ PoolsKeep(home)
      /\ pool'[home] = pool[home] + 1 /\ attached' = attached /\ pool[home] \in Nat
  <2>1. home \in Node /\ pool[home] \in Nat
    BY DEF Machine
  <2> QED BY <1>1, <2>1, PutType DEF PoolsKeep
<1>4. Workers'
  BY <1>1, <1>3, SameWorkers
<1>5. HeldFor(r)' = HeldFor(r) - 1
  BY <1>1, <1>2, OneReceiver, SMTT(30) DEF HeldFor, Parked, InHand
<1> QED BY <1>1, <1>2, <1>3, <1>4, <1>5, OneReceiver, SMTT(30) DEF RxMove

LEMMA AttachStep ==
    ASSUME Types, NEW r \in Receiver, AttachSource(r)
    PROVE  Types' /\ RxMove(home, r)
<1> USE DEF Types
<1>1. /\ add2Queue' = [add2Queue EXCEPT ![r] = "worker"]
      /\ UNCHANGED <<pool, rx, m_queue, queue, worker, ready, txVars, conf>>
  BY DEF AttachSource
<1>2. Counters'
  BY <1>1 DEF Counters, txVars
<1>3. Machine' /\ Node' = Node /\ capacity' = capacity /\ attached' = attached
  BY <1>1, SameMachine
<1>4. Workers'
  BY <1>1, <1>3, SameWorkers
<1>5. HeldFor(r)' = HeldFor(r)
  BY <1>1 DEF HeldFor, Parked, InHand
<1> QED BY <1>1, <1>2, <1>3, <1>4, <1>5 DEF RxMove, PoolsKeep, ReceiversKeep

LEMMA DetachStep ==
    ASSUME Types, NEW r \in Receiver, DetachSource(r)
    PROVE  Types' /\ RxMove(0, r)
<1> USE DEF Types
<1>1. /\ add2Queue' = [add2Queue EXCEPT ![r] = "release"]
      /\ Put(0, queue[r]) /\ queue' = [queue EXCEPT ![r] = 0]
      /\ UNCHANGED <<rx, m_queue, worker, ready, txVars, conf>>
  BY DEF DetachSource
<1>2. Counters' /\ queue'[r] = 0 /\ ReceiversKeep(r)
  BY <1>1 DEF Counters, txVars, ReceiversKeep
<1>3. /\ Machine' /\ Node' = Node /\ capacity' = capacity /\ PoolsKeep(0)
      /\ pool'[0] = pool[0] + queue[r] /\ attached' = attached /\ pool[0] \in Nat
  <2>1. 0 \in Node /\ pool[0] \in Nat /\ queue[r] \in Nat
    BY DEF Machine, Counters
  <2> QED BY <1>1, <2>1, PutType DEF PoolsKeep
<1>4. Workers'
  BY <1>1, <1>3, SameWorkers
<1>5. HeldFor(r)' = HeldFor(r) - queue[r]
  BY <1>1, <1>2, OneReceiver, SMTT(30) DEF HeldFor, Parked, InHand
<1> QED BY <1>1, <1>2, <1>3, <1>4, <1>5, OneReceiver, SMTT(30) DEF RxMove

\* What a worker's step does, when it takes nothing from its queue.
LEMMA WorkerGoes ==
    ASSUME Types, NEW r \in Receiver, NEW w, worker' = [worker EXCEPT ![r] = w],
           NEW rd, ready' = [ready EXCEPT ![r] = rd] \/ (UNCHANGED ready /\ rd = ready[r]),
           Busy(w, rd, attached, Node), Node' = Node, attached' = attached,
           UNCHANGED <<rxVars, queue>>
    PROVE  /\ Workers' /\ ReceiversKeep(r)
           /\ HeldFor(r)' = HeldFor(r) - InHand(r) + (IF w.pc = "burst" THEN 1 ELSE w.got)
<1>1. ready' = [ready EXCEPT ![r] = rd]
  BY DEF Types, Workers
<1>2. Workers' /\ worker'[r] = w /\ \A q \in Receiver \ {r} : worker'[q] = worker[q]
  BY <1>1, OneWorker DEF Types
<1>3. w.got \in Nat
  BY DEF Busy
<1>4. InHand(r)' = (IF w.pc = "burst" THEN 1 ELSE w.got) /\ Parked(r)' = Parked(r) /\ queue'[r] = queue[r]
  BY <1>2, SMTT(30) DEF InHand, Parked, rxVars
<1>5. HeldFor(r)' = HeldFor(r) - InHand(r) + (IF w.pc = "burst" THEN 1 ELSE w.got)
  <2>1. HeldFor(r)' = Parked(r) + queue[r] + (IF w.pc = "burst" THEN 1 ELSE w.got)
    BY <1>4 DEF HeldFor
  <2> QED BY <1>3, <2>1, OneReceiver, SMTT(30) DEF HeldFor
<1> QED BY <1>2, <1>5 DEF ReceiversKeep, rxVars

LEMMA SameCounters ==
    ASSUME Counters, UNCHANGED <<rxVars, queue, txVars>>
    PROVE  Counters'
BY DEF Counters, rxVars, txVars

LEMMA PopStep ==
    ASSUME Types, NEW r \in Receiver, PopBurst(r)
    PROVE  Types' /\ RxMove(home, r)
<1> USE DEF Types
<1> DEFINE w == Work("burst", {}, 0, 0)
<1>1. /\ worker[r] = Idle /\ queue[r] > 0 /\ queue' = [queue EXCEPT ![r] = @ - 1]
      /\ worker' = [worker EXCEPT ![r] = w] /\ UNCHANGED <<pool, rxVars, ready, txVars, conf>>
  BY DEF PopBurst
<1>2. Counters' /\ queue'[r] = queue[r] - 1 /\ \A q \in Receiver \ {r} : queue'[q] = queue[q]
  BY <1>1, SMTT(30) DEF Counters, rxVars, txVars
<1>3. Machine' /\ Node' = Node /\ capacity' = capacity /\ pool' = pool /\ attached' = attached
  BY <1>1, SameMachine
<1>4. ready[r] = {} /\ InHand(r) = 0
  BY <1>1, OneReceiver, IdleIs DEF Busy, InHand
<1>5. Busy(w, {}, attached, Node) /\ w.pc = "burst"
  BY WorkFields, SMTT(30) DEF Busy
<1>6. ready' = [ready EXCEPT ![r] = {}]
  BY <1>1, <1>4 DEF Workers
<1> HIDE DEF w
<1>7. Workers' /\ worker'[r] = w /\ \A q \in Receiver \ {r} : worker'[q] = worker[q]
  BY <1>1, <1>3, <1>5, <1>6, OneWorker
<1>8. HeldFor(r)' = HeldFor(r)
  <2>1. InHand(r)' = 1 /\ Parked(r)' = Parked(r)
    BY <1>1, <1>5, <1>7 DEF InHand, Parked, rxVars
  <2> QED BY <1>2, <1>4, <2>1, OneReceiver, SMTT(30) DEF HeldFor
<1> QED BY <1>1, <1>2, <1>3, <1>7, <1>8 DEF RxMove, PoolsKeep, ReceiversKeep, rxVars

LEMMA ConvertStep ==
    ASSUME Types, NEW r \in Receiver, Convert(r)
    PROVE  Types' /\ RxMove(numa_node[r], r)
<1> USE DEF Types
<1>1. PICK dests \in SUBSET attached :
            worker' = [worker EXCEPT ![r] =
                IF dests = {} THEN Idle ELSE Work("batch", dests, numa_node[r], 0)]
  BY DEF Convert
<1> DEFINE w == IF dests = {} THEN Idle ELSE Work("batch", dests, numa_node[r], 0)
<1>2. /\ worker[r].pc = "burst" /\ Put(numa_node[r], 1) /\ worker' = [worker EXCEPT ![r] = w]
      /\ UNCHANGED <<rxVars, queue, ready, txVars, conf>>
  BY <1>1 DEF Convert
<1>3. ready[r] = {} /\ InHand(r) = 1 /\ numa_node[r] \in Node /\ numa_node[r] \in Nat
  BY <1>2, OneReceiver DEF Busy, InHand
<1>4. Busy(w, {}, attached, Node) /\ w.pc # "burst" /\ w.got = 0
  <2>1. CASE dests = {}
    BY <2>1, IdleIs
  <2>2. CASE dests # {}
    <3>1. IsFiniteSet(dests)
      BY OneReceiver, FS_Subset
    <3>2. Cardinality(dests) \in Nat /\ Cardinality(dests) # 0
      BY <2>2, <3>1, FS_CardinalityType, FS_EmptySet
    <3> HIDE DEF w
    <3>3. w = Work("batch", dests, numa_node[r], 0)
      BY <2>2 DEF w
    <3>4. /\ w.pc = "batch" /\ w.dests = dests /\ w.at = numa_node[r] /\ w.got = 0
          /\ w = Work(w.pc, w.dests, w.at, w.got)
      BY <3>3, WorkFields, SMTT(30)
    <3>5. w.got < Cardinality(w.dests) /\ w.got \in Nat
      BY <3>2, <3>4, SMTT(30)
    <3> QED BY <1>3, <3>4, <3>5 DEF Busy
  <2> QED BY <2>1, <2>2
<1> HIDE DEF w
<1>5. /\ Machine' /\ Node' = Node /\ capacity' = capacity /\ PoolsKeep(numa_node[r])
      /\ pool'[numa_node[r]] = pool[numa_node[r]] + 1 /\ attached' = attached
  BY <1>2, <1>3, PutType DEF PoolsKeep
<1>6. Workers' /\ ReceiversKeep(r) /\ HeldFor(r)' = HeldFor(r) - 1
  <2>1. /\ Workers' /\ ReceiversKeep(r)
        /\ HeldFor(r)' = HeldFor(r) - InHand(r) + (IF w.pc = "burst" THEN 1 ELSE w.got)
    BY <1>2, <1>3, <1>4, <1>5, WorkerGoes
  <2> QED BY <1>3, <1>4, <2>1, OneReceiver, SMTT(30)
<1>7. pool[numa_node[r]] \in Nat
  BY <1>3 DEF Machine
<1> QED BY <1>2, <1>5, <1>6, <1>7, OneReceiver, SameCounters, SMTT(30) DEF RxMove

LEMMA TakeOneStep ==
    ASSUME Types, NEW r \in Receiver, TakeOne(r)
    PROVE  Types' /\ RxMove(worker[r].at, r)
<1> USE DEF Types
<1> DEFINE v == worker[r]
           w == Work(IF v.got + 1 = Cardinality(v.dests) THEN "deliver" ELSE "batch",
                     v.dests, v.at, v.got + 1)
<1>1. /\ v.pc = "batch" /\ pool[v.at] > 0 /\ Take(v.at) /\ worker' = [worker EXCEPT ![r] = w]
      /\ UNCHANGED <<rxVars, queue, ready, txVars, conf>>
  BY DEF TakeOne
<1>2. /\ Busy(v, ready[r], attached, Node) /\ IsFiniteSet(attached)
      /\ ready[r] = {} /\ InHand(r) = v.got
  BY <1>1, OneReceiver DEF Busy, InHand
<1> HIDE DEF v
<1>3. /\ v.at \in Node /\ v.at \in Nat /\ v.got \in Nat /\ v.dests \subseteq attached
      /\ v.got < Cardinality(v.dests) /\ Cardinality(v.dests) \in Nat
  <2>1. v.dests \subseteq attached
    BY <1>2 DEF Busy
  <2>2. IsFiniteSet(v.dests)
    BY <1>2, <2>1, FS_Subset
  <2> QED BY <1>1, <1>2, <2>1, <2>2, FS_CardinalityType DEF Busy
<1>4. /\ w.pc = (IF v.got + 1 = Cardinality(v.dests) THEN "deliver" ELSE "batch")
      /\ w.dests = v.dests /\ w.at = v.at /\ w.got = v.got + 1
      /\ w = Work(w.pc, w.dests, w.at, w.got)
  BY WorkFields, SMTT(30)
<1> HIDE DEF w
<1>5. w.got \in Nat /\ (w.pc = "deliver" => w.got = Cardinality(w.dests))
      /\ (w.pc = "batch" => w.got < Cardinality(w.dests)) /\ w.pc \in {"deliver", "batch"}
  BY <1>3, <1>4, SMTT(30)
<1>6. Busy(w, {}, attached, Node)
  BY <1>3, <1>4, <1>5 DEF Busy
<1>7. /\ Machine' /\ Node' = Node /\ capacity' = capacity /\ PoolsKeep(v.at)
      /\ pool'[v.at] = pool[v.at] - 1 /\ attached' = attached /\ pool[v.at] \in Nat
  <2>1. pool[v.at] \in Nat
    BY <1>3 DEF Machine
  <2> QED BY <1>1, <1>3, <2>1, TakeType DEF PoolsKeep
<1>8. Workers' /\ ReceiversKeep(r) /\ HeldFor(r)' = HeldFor(r) + 1
  <2>1. /\ Workers' /\ ReceiversKeep(r)
        /\ HeldFor(r)' = HeldFor(r) - InHand(r) + (IF w.pc = "burst" THEN 1 ELSE w.got)
    BY <1>1, <1>2, <1>6, <1>7, WorkerGoes
  <2> QED BY <1>2, <1>3, <1>4, <1>5, <2>1, OneReceiver, SMTT(30)
<1>9. RxMove(v.at, r)
  BY <1>1, <1>7, <1>8, OneReceiver, SMTT(30) DEF RxMove
<1> QED BY <1>1, <1>7, <1>8, <1>9, SameCounters DEF v

LEMMA BatchFailsStep ==
    ASSUME Types, NEW r \in Receiver, BatchFails(r)
    PROVE  Types' /\ RxMove(home, r)
<1> USE DEF Types
<1> DEFINE v == worker[r]
           w == Work("back", v.dests, v.at, v.got)
<1>1. /\ v.pc = "batch" /\ worker' = [worker EXCEPT ![r] = w]
      /\ UNCHANGED <<pool, rxVars, queue, ready, txVars, conf>>
  BY DEF BatchFails
<1>2. Busy(v, ready[r], attached, Node) /\ InHand(r) = v.got /\ v.got \in Nat
  BY <1>1, OneReceiver DEF Busy, InHand
<1> HIDE DEF v
<1>3. /\ w.pc = "back" /\ w.dests = v.dests /\ w.at = v.at /\ w.got = v.got
      /\ w = Work(w.pc, w.dests, w.at, w.got)
  BY WorkFields, SMTT(30)
<1> HIDE DEF w
<1>4. Busy(w, ready[r], attached, Node)
  BY <1>1, <1>2, <1>3 DEF Busy
<1>5. Machine' /\ Node' = Node /\ capacity' = capacity /\ pool' = pool /\ attached' = attached
  BY <1>1, SameMachine
<1>6. Workers' /\ ReceiversKeep(r) /\ HeldFor(r)' = HeldFor(r)
  <2>1. /\ Workers' /\ ReceiversKeep(r)
        /\ HeldFor(r)' = HeldFor(r) - InHand(r) + (IF w.pc = "burst" THEN 1 ELSE w.got)
    BY <1>1, <1>4, <1>5, WorkerGoes
  <2> QED BY <1>2, <1>3, <2>1, OneReceiver, SMTT(30)
<1> QED BY <1>1, <1>5, <1>6, SameCounters DEF RxMove, PoolsKeep

LEMMA PutBackStep ==
    ASSUME Types, NEW r \in Receiver, PutBack(r)
    PROVE  Types' /\ RxMove(worker[r].at, r)
<1> USE DEF Types
<1> DEFINE v == worker[r]
<1>1. /\ v.pc = "back" /\ Put(v.at, v.got) /\ TryNext(r)
      /\ UNCHANGED <<rxVars, queue, ready, txVars, conf>>
  BY DEF PutBack
<1>2. /\ Busy(v, ready[r], attached, Node) /\ InHand(r) = v.got /\ v.got \in Nat
      /\ ready[r] = {} /\ v.at \in Node /\ v.dests \subseteq attached
      /\ v.got < Cardinality(v.dests) /\ IsFiniteSet(v.dests)
  BY <1>1, OneReceiver, FS_Subset DEF Busy, InHand
<1>3. PICK w : /\ worker' = [worker EXCEPT ![r] = w] /\ w.pc # "burst" /\ w.got = 0
               /\ Busy(w, {}, attached, Node)
  <2>1. CASE worker' = [worker EXCEPT ![r] = Idle]
    BY <2>1, IdleIs
  <2>2. ASSUME NEW n \in Untried(r), worker' = [worker EXCEPT ![r] = Work("batch", v.dests, n, 0)]
        PROVE  \E w : /\ worker' = [worker EXCEPT ![r] = w] /\ w.pc # "burst" /\ w.got = 0
                      /\ Busy(w, {}, attached, Node)
    <3> DEFINE w == Work("batch", v.dests, n, 0)
    <3>1. n \in Node /\ n \in Nat
      BY OneReceiver DEF Untried
    <3> HIDE DEF v
    <3>2. /\ w.pc = "batch" /\ w.dests = v.dests /\ w.at = n /\ w.got = 0
          /\ w = Work(w.pc, w.dests, w.at, w.got)
      BY WorkFields, SMTT(30)
    <3>3. worker' = [worker EXCEPT ![r] = w]
      BY <2>2
    <3> HIDE DEF w
    <3>4. w.got < Cardinality(w.dests) /\ w.got \in Nat
      <4>1. Cardinality(v.dests) \in Nat
        BY <1>2, FS_CardinalityType
      <4> QED BY <1>2, <3>2, <4>1, SMTT(30)
    <3>5. Busy(w, {}, attached, Node)
      BY <1>2, <3>1, <3>2, <3>4 DEF Busy
    <3> QED BY <3>2, <3>3, <3>5
  <2> QED BY <1>1, <2>1, <2>2 DEF TryNext
<1> HIDE DEF v
<1>4. /\ Machine' /\ Node' = Node /\ capacity' = capacity /\ PoolsKeep(v.at)
      /\ pool'[v.at] = pool[v.at] + v.got /\ attached' = attached /\ pool[v.at] \in Nat
  <2>1. pool[v.at] \in Nat
    BY <1>2 DEF Machine
  <2> QED BY <1>1, <1>2, <2>1, PutType DEF PoolsKeep
<1>5. Workers' /\ ReceiversKeep(r) /\ HeldFor(r)' = HeldFor(r) - v.got
  <2>1. /\ Workers' /\ ReceiversKeep(r)
        /\ HeldFor(r)' = HeldFor(r) - InHand(r) + (IF w.pc = "burst" THEN 1 ELSE w.got)
    BY <1>1, <1>2, <1>3, <1>4, WorkerGoes
  <2> QED BY <1>2, <1>3, <2>1, OneReceiver, SMTT(30)
<1>6. RxMove(v.at, r)
  BY <1>1, <1>2, <1>4, <1>5, OneReceiver, SMTT(30) DEF RxMove
<1> QED BY <1>1, <1>4, <1>5, <1>6, SameCounters DEF v

LEMMA NoOutputStep ==
    ASSUME Types, NEW r \in Receiver, NEW t, NoOutput(r, t)
    PROVE  Types' /\ RxMove(numa_node[r], r)
<1> USE DEF Types
<1> DEFINE v == worker[r]
           w == Served(v, t)
           n == numa_node[r]
<1>1. /\ v.pc = "deliver" /\ t \in v.dests /\ t \notin ready[r] /\ Put(n, 1)
      /\ worker' = [worker EXCEPT ![r] = w] /\ UNCHANGED <<rxVars, queue, ready, txVars, conf>>
  BY DEF NoOutput
<1>2. /\ Busy(v, ready[r], attached, Node) /\ IsFiniteSet(attached)
      /\ InHand(r) = v.got /\ n \in Node
  BY <1>1, OneReceiver DEF InHand
<1> HIDE DEF v, n
<1>3. Busy(w, ready[r] \ {t}, attached, Node) /\ w.got = v.got - 1 /\ w.pc # "burst" /\ v.got > 0
  BY <1>1, <1>2, ServedBusy
<1> HIDE DEF w
<1>4. ready[r] \ {t} = ready[r]
  BY <1>1
<1>5. /\ Machine' /\ Node' = Node /\ capacity' = capacity /\ PoolsKeep(n)
      /\ pool'[n] = pool[n] + 1 /\ attached' = attached /\ pool[n] \in Nat
  <2>1. pool[n] \in Nat
    BY <1>2 DEF Machine
  <2> QED BY <1>1, <1>2, <2>1, PutType DEF PoolsKeep
<1>6. Workers' /\ ReceiversKeep(r) /\ HeldFor(r)' = HeldFor(r) - 1
  <2>1. /\ Workers' /\ ReceiversKeep(r)
        /\ HeldFor(r)' = HeldFor(r) - InHand(r) + (IF w.pc = "burst" THEN 1 ELSE w.got)
    BY <1>1, <1>3, <1>4, <1>5, WorkerGoes
  <2> QED BY <1>2, <1>3, <2>1, OneReceiver, SMTT(30)
<1>7. RxMove(n, r)
  BY <1>1, <1>5, <1>6, OneReceiver, SMTT(30) DEF RxMove
<1> QED BY <1>1, <1>5, <1>6, <1>7, SameCounters DEF n

TransmittersKeep(t) ==
    \A u \in Transmitter \ {t} : txQueue'[u] = txQueue[u] /\ txHand'[u] = txHand[u]

\* n, r and t are the pool, the receiver and the transmitter of the move.
TxMove(n, t) ==
    /\ Node' = Node /\ capacity' = capacity
    /\ PoolsKeep(n) /\ UNCHANGED <<rxVars, queue, worker>> /\ TransmittersKeep(t)
    /\ pool'[n] + HeldBy(t)' = pool[n] + HeldBy(t)
Pass(n, r, t) ==
    /\ Node' = Node /\ capacity' = capacity
    /\ PoolsKeep(n) /\ ReceiversKeep(r) /\ TransmittersKeep(t)
    /\ pool'[n] + HeldFor(r)' + HeldBy(t)' = pool[n] + HeldFor(r) + HeldBy(t)

LEMMA TestStep ==
    ASSUME Types, NEW r \in Receiver, NEW t \in Transmitter, Add2BuffTest(r, t)
    PROVE  Types' /\ Pass(home, r, t)
<1> USE DEF Types
<1> DEFINE v == worker[r]
           w == Served(v, t)
<1>1. v.pc = "deliver" /\ t \in v.dests /\ t \notin ready[r] /\ UNCHANGED <<rxVars, queue, txHand, conf>>
  BY DEF Add2BuffTest
<1>2. /\ Busy(v, ready[r], attached, Node) /\ IsFiniteSet(attached)
      /\ InHand(r) = v.got /\ home \in Node /\ pool[home] \in Nat /\ txQueue[t] \in Nat /\ txHand[t] \in Nat
  BY <1>1, OneReceiver DEF InHand, Machine, Counters
<1>3. CASE /\ txQueue[t] >= QUEUE_CAP - 1 /\ Put(home, 2) /\ txQueue' = [txQueue EXCEPT ![t] = @ - 1]
           /\ worker' = [worker EXCEPT ![r] = Served(@, t)] /\ UNCHANGED ready
  <2>1. Busy(w, ready[r] \ {t}, attached, Node) /\ w.got = v.got - 1 /\ w.pc # "burst" /\ v.got > 0
    <3> HIDE DEF v
    <3> QED BY <1>1, <1>2, ServedBusy
  <2>2. ready[r] \ {t} = ready[r] /\ worker' = [worker EXCEPT ![r] = w]
    BY <1>1, <1>3
  <2> HIDE DEF v, w
  <2>3. /\ Machine' /\ Node' = Node /\ capacity' = capacity /\ PoolsKeep(home)
        /\ pool'[home] = pool[home] + 2 /\ attached' = attached
    BY <1>1, <1>2, <1>3, PutType DEF PoolsKeep
  <2>4. Workers' /\ ReceiversKeep(r) /\ HeldFor(r)' = HeldFor(r) - 1
    <3>1. /\ Workers' /\ ReceiversKeep(r)
          /\ HeldFor(r)' = HeldFor(r) - InHand(r) + (IF w.pc = "burst" THEN 1 ELSE w.got)
      BY <1>1, <1>3, <2>1, <2>2, <2>3, WorkerGoes
    <3> QED BY <1>2, <2>1, <3>1, OneReceiver, SMTT(30)
  <2>5. Counters' /\ TransmittersKeep(t) /\ txQueue'[t] = txQueue[t] - 1 /\ txHand'[t] = txHand[t]
    BY <1>1, <1>2, <1>3, PoolAssumption, SMTT(30) DEF Counters, rxVars, TransmittersKeep
  <2>6. HeldBy(t)' = HeldBy(t) - 1
    BY <1>2, <2>5, SMTT(30) DEF HeldBy
  <2>7. HeldBy(t) \in Nat
    BY <1>2, SMTT(30) DEF HeldBy
  <2> QED BY <1>2, <2>3, <2>4, <2>5, <2>6, <2>7, OneReceiver, SMTT(30) DEF Pass
<1>4. CASE ready' = [ready EXCEPT ![r] = @ \cup {t}] /\ UNCHANGED <<pool, txQueue, worker>>
  <2>1. Machine' /\ Node' = Node /\ capacity' = capacity /\ pool' = pool /\ attached' = attached
    BY <1>1, <1>4, SameMachine
  <2>2. Busy(v, ready[r] \cup {t}, attached, Node)
    BY <1>1, <1>2 DEF Busy
  <2>3. worker' = [worker EXCEPT ![r] = v]
    BY <1>4 DEF Workers
  <2>4. Workers'
    <3> HIDE DEF v
    <3> QED BY <1>4, <2>1, <2>2, <2>3, OneWorker
  <2>5. HeldFor(r)' = HeldFor(r) /\ ReceiversKeep(r)
    BY <1>1, <1>4 DEF HeldFor, Parked, InHand, ReceiversKeep, rxVars
  <2>6. HeldBy(t)' = HeldBy(t) /\ TransmittersKeep(t) /\ Counters'
    BY <1>1, <1>4 DEF HeldBy, TransmittersKeep, Counters, rxVars
  <2> QED BY <2>1, <2>4, <2>5, <2>6 DEF Pass, PoolsKeep
<1> QED BY <1>3, <1>4 DEF Add2BuffTest

LEMMA PushStep ==
    ASSUME Types, NEW r \in Receiver, NEW t \in Transmitter, Add2BuffPush(r, t)
    PROVE  Types' /\ Pass(home, r, t)
<1> USE DEF Types
<1> DEFINE v == worker[r]
           w == Served(v, t)
<1>1. /\ t \in ready[r] /\ txQueue' = [txQueue EXCEPT ![t] = @ + 1]
      /\ ready' = [ready EXCEPT ![r] = @ \ {t}] /\ worker' = [worker EXCEPT ![r] = w]
      /\ UNCHANGED <<pool, rxVars, queue, txHand, conf>>
  BY DEF Add2BuffPush
<1>2. /\ Busy(v, ready[r], attached, Node) /\ IsFiniteSet(attached)
      /\ pool[home] \in Nat /\ txQueue[t] \in Nat /\ txHand[t] \in Nat
  BY OneReceiver DEF Machine, Counters
<1>3. v.pc = "deliver" /\ t \in v.dests /\ InHand(r) = v.got
  BY <1>1, <1>2 DEF Busy, InHand
<1> HIDE DEF v
<1>4. Busy(w, ready[r] \ {t}, attached, Node) /\ w.got = v.got - 1 /\ w.pc # "burst" /\ v.got > 0
  BY <1>2, <1>3, ServedBusy
<1> HIDE DEF w
<1>5. Machine' /\ Node' = Node /\ capacity' = capacity /\ pool' = pool /\ attached' = attached
  BY <1>1, SameMachine
<1>6. Workers' /\ ReceiversKeep(r) /\ HeldFor(r)' = HeldFor(r) - 1
  <2>1. /\ Workers' /\ ReceiversKeep(r)
        /\ HeldFor(r)' = HeldFor(r) - InHand(r) + (IF w.pc = "burst" THEN 1 ELSE w.got)
    BY <1>1, <1>4, <1>5, WorkerGoes
  <2> QED BY <1>3, <1>4, <2>1, OneReceiver, SMTT(30)
<1>7. Counters' /\ TransmittersKeep(t) /\ txQueue'[t] = txQueue[t] + 1 /\ txHand'[t] = txHand[t]
  BY <1>1, <1>2, SMTT(30) DEF Counters, rxVars, TransmittersKeep
<1>8. HeldBy(t)' = HeldBy(t) + 1 /\ HeldBy(t) \in Nat
  BY <1>2, <1>7, SMTT(30) DEF HeldBy
<1> QED BY <1>2, <1>5, <1>6, <1>7, <1>8, OneReceiver, SMTT(30) DEF Pass, PoolsKeep

LEMMA SenderStep ==
    ASSUME Types, NEW t \in Transmitter, Sender(t)
    PROVE  Types' /\ TxMove(home, t)
<1> USE DEF Types
<1>1. home \in Node /\ pool[home] \in Nat /\ txQueue[t] \in Nat /\ txHand[t] \in Nat
  BY DEF Machine, Counters
<1>2. CASE TakeSignal(t)
  <2>1. /\ txHand[t] = 0 /\ txQueue[t] > 0 /\ txHand' = [txHand EXCEPT ![t] = 1]
        /\ txQueue' = [txQueue EXCEPT ![t] = @ - 1]
        /\ UNCHANGED <<pool, rxVars, queue, worker, ready, conf>>
    BY <1>2 DEF TakeSignal
  <2>2. Machine' /\ Node' = Node /\ capacity' = capacity /\ pool' = pool /\ attached' = attached
    BY <2>1, SameMachine
  <2>3. Workers'
    BY <2>1, <2>2, SameWorkers
  <2>4. Counters' /\ TransmittersKeep(t) /\ txQueue'[t] = txQueue[t] - 1 /\ txHand'[t] = 1
    BY <2>1, SMTT(30) DEF Counters, rxVars, TransmittersKeep
  <2>5. HeldBy(t)' = HeldBy(t)
    BY <1>1, <2>1, <2>4, SMTT(30) DEF HeldBy
  <2> QED BY <2>1, <2>2, <2>3, <2>4, <2>5 DEF TxMove, PoolsKeep
<1>3. CASE ReleaseSignal(t)
  <2>1. /\ txHand[t] = 1 /\ Put(home, 1) /\ txHand' = [txHand EXCEPT ![t] = 0]
        /\ UNCHANGED <<rxVars, queue, worker, ready, txQueue, conf>>
    BY <1>3 DEF ReleaseSignal
  <2>2. /\ Machine' /\ Node' = Node /\ capacity' = capacity /\ PoolsKeep(home)
        /\ pool'[home] = pool[home] + 1 /\ attached' = attached
    BY <1>1, <2>1, PutType DEF PoolsKeep
  <2>3. Workers'
    BY <2>1, <2>2, SameWorkers
  <2>4. Counters' /\ TransmittersKeep(t) /\ txQueue'[t] = txQueue[t] /\ txHand'[t] = 0
    BY <2>1 DEF Counters, rxVars, TransmittersKeep
  <2>5. HeldBy(t)' = HeldBy(t) - 1 /\ HeldBy(t) \in Nat
    BY <1>1, <2>1, <2>4, SMTT(30) DEF HeldBy
  <2> QED BY <1>1, <2>1, <2>2, <2>3, <2>4, <2>5, SMTT(30) DEF TxMove
<1> QED BY <1>2, <1>3 DEF Sender

\* A burst moves a to the home pool and b to pool 0.
Spread(a, b) ==
    pool' = [n \in Node |-> pool[n] + (IF n = home THEN a ELSE 0) + (IF n = 0 THEN b ELSE 0)]

LEMMA BurstStep ==
    ASSUME Types, NEW r \in Receiver, Burst(r)
    PROVE  /\ Types' /\ Node' = Node /\ capacity' = capacity /\ ReceiversKeep(r) /\ UNCHANGED txVars
           /\ m_queue'[r] = m_queue[r] - (IF OwnQueueFull(r) THEN 1 ELSE 0)
                                       + (IF add2Queue[r] = "none" THEN 1 ELSE 0)
           /\ queue'[r] = queue[r] - (IF add2Queue[r] = "worker" /\ WorkerQueueFull(r) THEN 1 ELSE 0)
                                   + (IF add2Queue[r] = "worker" THEN 1 ELSE 0)
           /\ \E a, b \in Nat : Spread(a, b) /\ HeldFor(r)' + a + b = HeldFor(r)
<1> USE DEF Types
<1> DEFINE over == IF OwnQueueFull(r) THEN 1 ELSE 0
           trim == IF add2Queue[r] = "worker" /\ WorkerQueueFull(r) THEN 1 ELSE 0
           back == IF add2Queue[r] = "release" THEN 1 ELSE 0
           none == IF add2Queue[r] = "none" THEN 1 ELSE 0
           work == IF add2Queue[r] = "worker" THEN 1 ELSE 0
<1>1. /\ rx[r] = "recv" /\ rx' = [rx EXCEPT ![r] = "call"]
      /\ Spread(over, trim + back)
      /\ m_queue' = [m_queue EXCEPT ![r] = @ - over + none]
      /\ queue' = [queue EXCEPT ![r] = @ - trim + work]
      /\ UNCHANGED <<add2Queue, worker, ready, txVars, conf>>
  BY DEF Burst, Spread
<1>2. m_queue[r] \in Nat /\ queue[r] \in Nat /\ add2Queue[r] \in {"none", "worker", "release"}
  BY DEF Counters
<1>3. over \in {0, 1} /\ trim \in {0, 1} /\ back \in {0, 1} /\ none \in {0, 1} /\ work \in {0, 1}
  OBVIOUS
<1>4. none + work + back = 1
  BY <1>2, SMTT(30)
<1>5. over <= m_queue[r] /\ trim <= queue[r]
  BY <1>2, PoolAssumption, SMTT(30) DEF OwnQueueFull, WorkerQueueFull
<1> HIDE DEF over, trim, back, none, work
<1>6. m_queue[r] - over + none \in Nat /\ queue[r] - trim + work \in Nat
  BY <1>2, <1>3, <1>5, SMTT(30)
<1>7. /\ Counters' /\ ReceiversKeep(r) /\ rx'[r] = "call"
      /\ m_queue'[r] = m_queue[r] - over + none /\ queue'[r] = queue[r] - trim + work
  BY <1>1, <1>6 DEF Counters, txVars, ReceiversKeep
<1>8. /\ pool' \in [Node -> Nat] /\ Node' = Node
  <2>1. pool' \in [Node -> Nat]
    BY <1>1, <1>3, SMTT(30) DEF Spread, Machine
  <2> QED BY <2>1 DEF Node
<1>9. Machine' /\ attached' = attached /\ capacity' = capacity
  BY <1>1, <1>8 DEF Machine, conf
<1>10. Workers'
  BY <1>1, <1>8, <1>9, SameWorkers
<1>11. HeldFor(r)' + over + (trim + back) = HeldFor(r)
  <2>1. InHand(r)' = InHand(r) /\ InHand(r) \in Nat
    BY <1>1, OneReceiver DEF InHand
  <2>2. HeldFor(r) = 1 + m_queue[r] + queue[r] + InHand(r)
    BY <1>1 DEF HeldFor, Parked
  <2>3. HeldFor(r)' = 0 + (m_queue[r] - over + none) + (queue[r] - trim + work) + InHand(r)
    BY <1>7, <2>1 DEF HeldFor, Parked
  <2>4. over \in Int /\ trim \in Int /\ back \in Int /\ none \in Int /\ work \in Int
    BY <1>3, SMTT(30)
  <2>5. m_queue[r] \in Int /\ queue[r] \in Int /\ InHand(r) \in Int
    BY <1>2, <2>1, SMTT(30)
  <2> QED BY <1>4, <2>2, <2>3, <2>4, <2>5, SMTT(30)
<1>12. over \in Nat /\ trim + back \in Nat
  BY <1>3, SMTT(30)
<1>13. \E a, b \in Nat : Spread(a, b) /\ HeldFor(r)' + a + b = HeldFor(r)
  BY <1>1, <1>11, <1>12
<1> QED BY <1>1, <1>7, <1>8, <1>9, <1>10, <1>13 DEF over, trim, none, work

-----------------------------------------------------------------------------
(* No buffer is made or lost *)

LEMMA HeldNat == Types => \A r \in Receiver : HeldFor(r) \in Nat
BY OneReceiver

LEMMA HeldNatNext == Types' => (\A r \in Receiver : HeldFor(r) \in Nat)'
BY HeldNat, PTL

LEMMA HeldTypes ==
    ASSUME Types
    PROVE  /\ ForRx \in [Receiver -> Nat] /\ ByTx \in [Transmitter -> Nat] /\ pool \in [Node -> Nat]
           /\ \A r \in Receiver : ForRx[r] = HeldFor(r)
           /\ \A t \in Transmitter : ByTx[t] = HeldBy(t)
<1>1. \A r \in Receiver : HeldFor(r) \in Nat
  BY OneReceiver
<1>2. \A t \in Transmitter : HeldBy(t) \in Nat
  BY SMTT(30) DEF Types, Counters, HeldBy
<1> QED BY <1>1, <1>2 DEF ForRx, ByTx, Types, Machine

LEMMA PoolTotal ==
    ASSUME Types, Types', Counted, Node' = Node, NEW n \in Node, PoolsKeep(n)
    PROVE  /\ IsFiniteSet(Tokens(pool')) /\ Total(pool') = Total(pool) + (pool'[n] - pool[n])
           /\ Total(pool) \in Nat /\ pool[n] \in Nat /\ pool'[n] \in Nat
<1>1. pool \in [Node -> Nat] /\ pool' \in [Node -> Nat]
  BY DEF Types, Machine
<1>2. IsFiniteSet(Tokens(pool)) /\ \A m \in Node \ {n} : pool'[m] = pool[m]
  BY DEF Counted, PoolsKeep
<1> QED BY <1>1, <1>2, TotalStep, SMTT(30)

LEMMA RxTotal ==
    ASSUME Types, Types', Counted, NEW r \in Receiver, ReceiversKeep(r)
    PROVE  /\ IsFiniteSet(Tokens(ForRx')) /\ Total(ForRx') = Total(ForRx) + (HeldFor(r)' - HeldFor(r))
           /\ Total(ForRx) \in Nat /\ HeldFor(r) \in Nat /\ HeldFor(r)' \in Nat
<1>1. /\ ForRx \in [Receiver -> Nat] /\ ForRx[r] = HeldFor(r)
      /\ \A q \in Receiver \ {r} : ForRx[q] = HeldFor(q)
  BY HeldTypes
<1>2. /\ ForRx' \in [Receiver -> Nat] /\ ForRx'[r] = HeldFor(r)'
      /\ \A q \in Receiver \ {r} : ForRx'[q] = HeldFor(q)'
  <2>1. \A q \in Receiver : HeldFor(q)' \in Nat
    <3>1. (\A q \in Receiver : HeldFor(q) \in Nat)'
      BY HeldNatNext
    <3> QED BY <3>1
  <2> QED BY <2>1 DEF ForRx
<1>3. \A q \in Receiver \ {r} : HeldFor(q)' = HeldFor(q)
  BY DEF ReceiversKeep, HeldFor, Parked, InHand
<1>4. \A q \in Receiver \ {r} : ForRx'[q] = ForRx[q]
  BY <1>1, <1>2, <1>3
<1>5. IsFiniteSet(Tokens(ForRx))
  BY DEF Counted
<1> QED BY <1>1, <1>2, <1>4, <1>5, TotalStep, SMTT(30)

LEMMA TxTotal ==
    ASSUME Types, Types', Counted, NEW t \in Transmitter, TransmittersKeep(t)
    PROVE  /\ IsFiniteSet(Tokens(ByTx')) /\ Total(ByTx') = Total(ByTx) + (HeldBy(t)' - HeldBy(t))
           /\ Total(ByTx) \in Nat /\ HeldBy(t) \in Nat /\ HeldBy(t)' \in Nat
<1>1. ByTx \in [Transmitter -> Nat] /\ \A u \in Transmitter : ByTx[u] = HeldBy(u)
  BY HeldTypes
<1>2. ByTx' \in [Transmitter -> Nat] /\ \A u \in Transmitter : ByTx'[u] = HeldBy(u)'
  <2>1. \A u \in Transmitter : HeldBy(u)' \in Nat
    BY SMTT(30) DEF Types, Counters, HeldBy
  <2> QED BY <2>1 DEF ByTx
<1>3. \A u \in Transmitter \ {t} : ByTx'[u] = ByTx[u]
  BY <1>1, <1>2 DEF TransmittersKeep, HeldBy
<1>4. IsFiniteSet(Tokens(ByTx))
  BY DEF Counted
<1> QED BY <1>1, <1>2, <1>3, <1>4, TotalStep, SMTT(30)

LEMMA SameRx == ASSUME UNCHANGED <<rxVars, queue, worker>> PROVE ForRx' = ForRx
BY DEF ForRx, HeldFor, Parked, InHand, rxVars

LEMMA SameTx == ASSUME UNCHANGED txVars PROVE ByTx' = ByTx
BY DEF ByTx, HeldBy, txVars

LEMMA RxMoveCounted ==
    ASSUME Types, Types', Counted, NEW n \in Node, NEW r \in Receiver, RxMove(n, r)
    PROVE  Counted'
<1>1. /\ IsFiniteSet(Tokens(pool')) /\ Total(pool') = Total(pool) + (pool'[n] - pool[n])
      /\ Total(pool) \in Nat /\ pool[n] \in Nat /\ pool'[n] \in Nat
  BY PoolTotal DEF RxMove
<1>2. /\ IsFiniteSet(Tokens(ForRx')) /\ Total(ForRx') = Total(ForRx) + (HeldFor(r)' - HeldFor(r))
      /\ Total(ForRx) \in Nat /\ HeldFor(r) \in Nat /\ HeldFor(r)' \in Nat
  BY RxTotal DEF RxMove
<1>3. ByTx' = ByTx /\ Total(ByTx) \in Nat /\ IsFiniteSet(Tokens(ByTx))
  BY SameTx, FS_CardinalityType DEF RxMove, Counted, Total
<1>4. Total(pool) + Total(ForRx) + Total(ByTx) = capacity
  BY DEF Counted, BuffersConserved, ForRx, ByTx
<1>5. Total(pool') + Total(ForRx') + Total(ByTx') = capacity'
  <2>1. capacity' = capacity /\ pool'[n] + HeldFor(r)' = pool[n] + HeldFor(r)
    BY DEF RxMove
  <2> QED BY <1>1, <1>2, <1>3, <1>4, <2>1, SMTT(30)
<1> QED BY <1>1, <1>2, <1>3, <1>5 DEF Counted, BuffersConserved, ForRx, ByTx

LEMMA TxMoveCounted ==
    ASSUME Types, Types', Counted, NEW n \in Node, NEW t \in Transmitter, TxMove(n, t)
    PROVE  Counted'
<1>1. /\ IsFiniteSet(Tokens(pool')) /\ Total(pool') = Total(pool) + (pool'[n] - pool[n])
      /\ Total(pool) \in Nat /\ pool[n] \in Nat /\ pool'[n] \in Nat
  BY PoolTotal DEF TxMove
<1>2. /\ IsFiniteSet(Tokens(ByTx')) /\ Total(ByTx') = Total(ByTx) + (HeldBy(t)' - HeldBy(t))
      /\ Total(ByTx) \in Nat /\ HeldBy(t) \in Nat /\ HeldBy(t)' \in Nat
  BY TxTotal DEF TxMove
<1>3. ForRx' = ForRx /\ Total(ForRx) \in Nat /\ IsFiniteSet(Tokens(ForRx))
  BY SameRx, FS_CardinalityType DEF TxMove, Counted, Total
<1>4. Total(pool) + Total(ForRx) + Total(ByTx) = capacity
  BY DEF Counted, BuffersConserved, ForRx, ByTx
<1>5. Total(pool') + Total(ForRx') + Total(ByTx') = capacity'
  <2>1. capacity' = capacity /\ pool'[n] + HeldBy(t)' = pool[n] + HeldBy(t)
    BY DEF TxMove
  <2> QED BY <1>1, <1>2, <1>3, <1>4, <2>1, SMTT(30)
<1> QED BY <1>1, <1>2, <1>3, <1>5 DEF Counted, BuffersConserved, ForRx, ByTx

LEMMA PassCounted ==
    ASSUME Types, Types', Counted, NEW n \in Node, NEW r \in Receiver, NEW t \in Transmitter,
           Pass(n, r, t)
    PROVE  Counted'
<1>1. /\ IsFiniteSet(Tokens(pool')) /\ Total(pool') = Total(pool) + (pool'[n] - pool[n])
      /\ Total(pool) \in Nat /\ pool[n] \in Nat /\ pool'[n] \in Nat
  BY PoolTotal DEF Pass
<1>2. /\ IsFiniteSet(Tokens(ByTx')) /\ Total(ByTx') = Total(ByTx) + (HeldBy(t)' - HeldBy(t))
      /\ Total(ByTx) \in Nat /\ HeldBy(t) \in Nat /\ HeldBy(t)' \in Nat
  BY TxTotal DEF Pass
<1>3. /\ IsFiniteSet(Tokens(ForRx')) /\ Total(ForRx') = Total(ForRx) + (HeldFor(r)' - HeldFor(r))
      /\ Total(ForRx) \in Nat /\ HeldFor(r) \in Nat /\ HeldFor(r)' \in Nat
  BY RxTotal DEF Pass
<1>4. Total(pool) + Total(ForRx) + Total(ByTx) = capacity
  BY DEF Counted, BuffersConserved, ForRx, ByTx
<1>5. Total(pool') + Total(ForRx') + Total(ByTx') = capacity'
  <2>1. /\ capacity' = capacity
        /\ pool'[n] + HeldFor(r)' + HeldBy(t)' = pool[n] + HeldFor(r) + HeldBy(t)
    BY DEF Pass
  <2> QED BY <1>1, <1>2, <1>3, <1>4, <2>1, SMTT(30)
<1> QED BY <1>1, <1>2, <1>3, <1>5 DEF Counted, BuffersConserved, ForRx, ByTx

\* A burst changes two pools: the home pool first, then pool 0.
LEMMA SpreadTotal ==
    ASSUME Types, Counted, NEW a \in Nat, NEW b \in Nat, Spread(a, b)
    PROVE  /\ IsFiniteSet(Tokens(pool')) /\ Total(pool') = Total(pool) + a + b
           /\ Total(pool) \in Nat
<1> DEFINE D == Node
           f == pool
           h == pool'
           g == [n \in D |-> f[n] + (IF n = home THEN a ELSE 0)]
<1>1. f \in [D -> Nat] /\ home \in D /\ 0 \in D /\ IsFiniteSet(Tokens(f))
  BY DEF Types, Machine, Counted
<1>2. h = [n \in D |-> f[n] + (IF n = home THEN a ELSE 0) + (IF n = 0 THEN b ELSE 0)]
  BY DEF Spread
<1> HIDE DEF D, f, h
<1>3. /\ g \in [D -> Nat] /\ g[home] = f[home] + a
      /\ \A n \in D \ {home} : g[n] = f[n]
  BY <1>1, SMTT(30)
<1>4. /\ h \in [D -> Nat] /\ h[0] = g[0] + b
      /\ \A n \in D \ {0} : h[n] = g[n]
  BY <1>1, <1>2, SMTT(30)
<1>5. f[home] \in Nat /\ g[0] \in Nat
  BY <1>1, <1>3
<1> HIDE DEF g
<1>6. IsFiniteSet(Tokens(g)) /\ Total(g) = Total(f) + (g[home] - f[home]) /\ Total(f) \in Nat
  BY <1>1, <1>3, TotalStep, SMTT(30)
<1>7. IsFiniteSet(Tokens(h)) /\ Total(h) = Total(g) + (h[0] - g[0])
  BY <1>1, <1>3, <1>4, <1>6, TotalStep, SMTT(30)
<1>8. Total(h) = Total(f) + a + b
  BY <1>3, <1>4, <1>5, <1>6, <1>7, SMTT(30)
<1> QED BY <1>6, <1>7, <1>8 DEF f, h

LEMMA BurstCounted ==
    ASSUME Types, Types', Counted, NEW r \in Receiver, Burst(r)
    PROVE  Counted'
<1>1. PICK a \in Nat, b \in Nat : Spread(a, b) /\ HeldFor(r)' + a + b = HeldFor(r)
  BY BurstStep
<1>2. capacity' = capacity /\ ReceiversKeep(r) /\ UNCHANGED txVars
  BY BurstStep
<1>3. IsFiniteSet(Tokens(pool')) /\ Total(pool') = Total(pool) + a + b /\ Total(pool) \in Nat
  BY <1>1, SpreadTotal
<1>4. /\ IsFiniteSet(Tokens(ForRx')) /\ Total(ForRx') = Total(ForRx) + (HeldFor(r)' - HeldFor(r))
      /\ Total(ForRx) \in Nat /\ HeldFor(r) \in Nat /\ HeldFor(r)' \in Nat
  BY <1>2, RxTotal
<1>5. ByTx' = ByTx /\ Total(ByTx) \in Nat /\ IsFiniteSet(Tokens(ByTx))
  BY <1>2, SameTx, FS_CardinalityType DEF Counted, Total
<1>6. Total(pool) + Total(ForRx) + Total(ByTx) = capacity
  BY DEF Counted, BuffersConserved, ForRx, ByTx
<1>7. Total(pool') + Total(ForRx') + Total(ByTx') = capacity'
  BY <1>1, <1>2, <1>3, <1>4, <1>5, <1>6, SMTT(30)
<1> QED BY <1>3, <1>4, <1>5, <1>7 DEF Counted, BuffersConserved, ForRx, ByTx

\* The steps of a receiver and its worker that leave the transmitters alone.
RxSteps(r) ==
    \/ CallRecv(r) \/ RecvFails(r) \/ AttachSource(r) \/ DetachSource(r)
    \/ PopBurst(r) \/ Convert(r) \/ TakeOne(r) \/ BatchFails(r) \/ PutBack(r)
    \/ \E t \in Transmitter : NoOutput(r, t)

LEMMA RxStepsMove ==
    ASSUME Types, NEW r \in Receiver, RxSteps(r)
    PROVE  Types' /\ \E n \in Node : RxMove(n, r)
<1>1. home \in Node /\ 0 \in Node /\ numa_node[r] \in Node
  BY OneReceiver
<1>2. CASE CallRecv(r)
  BY <1>1, <1>2, CallRecvStep
<1>3. CASE RecvFails(r)
  BY <1>1, <1>3, RecvFailsStep
<1>4. CASE AttachSource(r)
  BY <1>1, <1>4, AttachStep
<1>5. CASE DetachSource(r)
  BY <1>1, <1>5, DetachStep
<1>6. CASE PopBurst(r)
  BY <1>1, <1>6, PopStep
<1>7. CASE Convert(r)
  BY <1>1, <1>7, ConvertStep
<1>8. CASE TakeOne(r)
  <2>1. worker[r].at \in Node
    BY <1>8, OneReceiver DEF TakeOne, Busy
  <2> QED BY <1>8, <2>1, TakeOneStep
<1>9. CASE BatchFails(r)
  BY <1>1, <1>9, BatchFailsStep
<1>10. CASE PutBack(r)
  <2>1. worker[r].at \in Node
    BY <1>10, OneReceiver DEF PutBack, Busy
  <2> QED BY <1>10, <2>1, PutBackStep
<1>11. CASE \E t \in Transmitter : NoOutput(r, t)
  BY <1>1, <1>11, NoOutputStep
<1> QED BY <1>2, <1>3, <1>4, <1>5, <1>6, <1>7, <1>8, <1>9, <1>10, <1>11 DEF RxSteps

LEMMA NextCases ==
    ASSUME Next
    PROVE  \/ \E r \in Receiver : RxSteps(r) \/ Burst(r)
           \/ \E r \in Receiver, t \in Transmitter : Add2BuffTest(r, t) \/ Add2BuffPush(r, t)
           \/ \E t \in Transmitter : Sender(t)
           \/ Silence
BY DEF Next, Worker, RxSteps

LEMMA StillSound ==
    ASSUME Types, Counted, UNCHANGED <<pool, rxVars, queue, worker, ready, txVars, conf>>
    PROVE  Types' /\ Counted'
<1>1. Types'
  <2>1. Machine' /\ Node' = Node /\ attached' = attached
    BY SameMachine DEF Types
  <2>2. Workers'
    BY <2>1, SameWorkers DEF Types
  <2>3. Counters'
    BY DEF Types, Counters, rxVars, txVars
  <2> QED BY <2>1, <2>2, <2>3 DEF Types
<1>2. ForRx' = ForRx /\ ByTx' = ByTx /\ pool' = pool /\ capacity' = capacity
  BY SameRx, SameTx DEF conf
<1> QED BY <1>1, <1>2 DEF Counted, BuffersConserved, ForRx, ByTx

LEMMA SoundStep == Types /\ Counted /\ [Next]_vars => Types' /\ Counted'
<1> SUFFICES ASSUME Types, Counted, [Next]_vars PROVE Types' /\ Counted'
  OBVIOUS
<1>1. CASE UNCHANGED vars
  BY <1>1, StillSound DEF vars
<1>2. CASE Silence
  BY <1>2, StillSound DEF Silence
<1>3. ASSUME NEW r \in Receiver, RxSteps(r) PROVE Types' /\ Counted'
  BY <1>3, RxStepsMove, RxMoveCounted
<1>4. ASSUME NEW r \in Receiver, Burst(r) PROVE Types' /\ Counted'
  BY <1>4, BurstStep, BurstCounted
<1>5. home \in Node
  BY DEF Types, Machine
<1>6. ASSUME NEW r \in Receiver, NEW t \in Transmitter, Add2BuffTest(r, t) \/ Add2BuffPush(r, t)
      PROVE  Types' /\ Counted'
  BY <1>5, <1>6, TestStep, PushStep, PassCounted
<1>7. ASSUME NEW t \in Transmitter, Sender(t) PROVE Types' /\ Counted'
  BY <1>5, <1>7, SenderStep, TxMoveCounted
<1> QED BY <1>1, <1>2, <1>3, <1>4, <1>6, <1>7, NextCases

LEMMA PerNodeNat ==
    ASSUME NEW cap \in Nat, NEW n \in Nat \ {0}
    PROVE  PerNode(cap, n) \in Nat
BY SMTT(30) DEF PerNode

LEMMA InitSound == Init => Types /\ Counted
<1> SUFFICES ASSUME Init PROVE Types /\ Counted
  OBVIOUS
<1>1. PICK s \in Setup :
        /\ pool = [i \in 0 .. s.nodes - 1 |-> PerNode(s.cap, s.nodes)]
        /\ capacity = s.nodes * PerNode(s.cap, s.nodes)
        /\ attached = s.attached
  BY DEF Init
<1> DEFINE N == s.nodes
           k == PerNode(s.cap, s.nodes)
           S == 0 .. N - 1
<1>2. N \in Nat \ {0} /\ s.cap \in Nat /\ s.attached \subseteq Transmitter
  BY PoolAssumption
<1>3. k \in Nat
  BY <1>2, PerNodeNat
<1>4. Node = S
  BY <1>1 DEF Node
<1> HIDE DEF k, N
<1>5. IsFiniteSet(S) /\ Cardinality(S) = N
  <2>1. N - 1 \in Int /\ 0 \in Int
    BY <1>2, SMTT(30)
  <2>2. IsFiniteSet(0 .. N - 1) /\ Cardinality(0 .. N - 1) = IF 0 > N - 1 THEN 0 ELSE (N - 1) - 0 + 1
    BY <2>1, FS_Interval
  <2> QED BY <1>2, <2>2, SMTT(30)
<1>6. S \subseteq Nat /\ 0 \in S
  BY <1>2, SMTT(30)
<1>7. pool = [i \in S |-> k] /\ capacity = N * k
  BY <1>1 DEF k, N
<1> HIDE DEF S
<1>8. Machine
  <2>1. N * k \in Nat
    BY <1>2, <1>3, SMTT(30)
  <2>2. home \in Node /\ numa_node \in [Receiver -> Node]
    BY DEF Init
  <2>3. pool \in [Node -> Nat]
    BY <1>3, <1>4, <1>7, SMTT(30)
  <2>4. capacity \in Nat /\ attached \subseteq Transmitter
    BY <1>1, <1>2, <1>7, <2>1
  <2>5. IsFiniteSet(Node) /\ Node \subseteq Nat /\ 0 \in Node
    BY <1>4, <1>5, <1>6
  <2> QED BY <2>2, <2>3, <2>4, <2>5 DEF Machine
<1>9. Counters
  BY DEF Counters, Init
<1>10. Workers
  <2>1. Busy(Idle, {}, attached, Node)
    BY IdleIs DEF Busy
  <2> QED BY <2>1 DEF Workers, Init
<1>11. IsFiniteSet(Tokens(pool)) /\ Total(pool) = N * k
  BY <1>3, <1>5, <1>7, TotalSame
<1>12. \A r \in Receiver : HeldFor(r) = 0
  BY IdleIs, SMTT(30) DEF HeldFor, Parked, InHand, Init
<1>13. IsFiniteSet(Tokens(ForRx)) /\ Total(ForRx) = 0
  BY <1>12, TotalZero DEF ForRx
<1>14. IsFiniteSet(Tokens(ByTx)) /\ Total(ByTx) = 0
  <2>1. \A t \in Transmitter : HeldBy(t) = 0
    BY SMTT(30) DEF HeldBy, Init
  <2> QED BY <2>1, TotalZero DEF ByTx
<1>15. BuffersConserved
  <2>1. N * k \in Nat
    BY <1>2, <1>3, SMTT(30)
  <2>2. Total(pool) + Total(ForRx) + Total(ByTx) = capacity
    BY <1>7, <1>11, <1>13, <1>14, <2>1, SMTT(30)
  <2> QED BY <2>2 DEF BuffersConserved, ForRx, ByTx
<1> QED BY <1>8, <1>9, <1>10, <1>11, <1>13, <1>14, <1>15 DEF Types, Counted

LEMMA SoundAlways == Spec => [](Types /\ Counted)
BY InitSound, SoundStep, PTL DEF Spec

\* No buffer is made, lost or handed out twice: for any number of pools and of
\* any size, however batches fail and queues overflow, the pools, the queues
\* and the hands of the threads add up to what the Controller created.
THEOREM BuffersStayConserved == Spec => []BuffersConserved
<1>1. Types /\ Counted => BuffersConserved
  BY DEF Counted
<1> QED BY <1>1, SoundAlways, PTL

-----------------------------------------------------------------------------
(* The limits hold *)

LEMMA NodeStep == ASSUME Types, [Next]_vars PROVE Node' = Node /\ UNCHANGED conf
<1>1. UNCHANGED conf
  BY DEF Next, CallRecv, RecvFails, Burst, AttachSource, DetachSource, Worker, PopBurst, Convert,
         TakeOne, BatchFails, PutBack, NoOutput, Add2BuffTest, Add2BuffPush, Sender, TakeSignal,
         ReleaseSignal, Silence, vars
<1>2. CASE UNCHANGED vars \/ Silence
  BY <1>2 DEF Silence, vars, Node
<1>3. ASSUME NEW r \in Receiver, RxSteps(r) \/ Burst(r) PROVE Node' = Node
  BY <1>3, RxStepsMove, BurstStep DEF RxMove
<1>4. ASSUME NEW r \in Receiver, NEW t \in Transmitter, Add2BuffTest(r, t) \/ Add2BuffPush(r, t)
      PROVE  Node' = Node
  BY <1>4, TestStep, PushStep DEF Pass
<1>5. ASSUME NEW t \in Transmitter, Sender(t) PROVE Node' = Node
  BY <1>5, SenderStep DEF TxMove
<1> QED BY <1>1, <1>2, <1>3, <1>4, <1>5, NextCases

\* The limits of one receiver with m, q bursts in its queues and callback c.
Within(m, q, c) ==
    /\ m <= QUEUE_CAP /\ q <= QUEUE_CAP - 1
    /\ m = QUEUE_CAP \/ c # "worker" => q = 0

LEMMA QueueLimitsAre ==
    QueueLimits <=> \A r \in Receiver : Within(m_queue[r], queue[r], add2Queue[r])
BY DEF QueueLimits, Within

LEMMA BurstWithin ==
    ASSUME Types, QueueLimits, NEW r \in Receiver, Burst(r)
    PROVE  Within(m_queue'[r], queue'[r], add2Queue'[r])
<1>1. Within(m_queue[r], queue[r], add2Queue[r])
  BY QueueLimitsAre
<1>2. m_queue[r] \in Nat /\ queue[r] \in Nat /\ add2Queue[r] \in {"none", "worker", "release"}
  BY DEF Types, Counters
<1>3. /\ m_queue'[r] = m_queue[r] - (IF OwnQueueFull(r) THEN 1 ELSE 0)
                                  + (IF add2Queue[r] = "none" THEN 1 ELSE 0)
      /\ queue'[r] = queue[r] - (IF add2Queue[r] = "worker" /\ WorkerQueueFull(r) THEN 1 ELSE 0)
                              + (IF add2Queue[r] = "worker" THEN 1 ELSE 0)
      /\ add2Queue' = add2Queue
  BY BurstStep DEF Burst
<1>4. CASE add2Queue[r] = "none"
  <2>1. /\ m_queue'[r] = m_queue[r] - (IF OwnQueueFull(r) THEN 1 ELSE 0) + 1
        /\ queue'[r] = queue[r] - 0 + 0
    BY <1>3, <1>4
  <2>2. queue[r] = 0 /\ m_queue[r] <= QUEUE_CAP
    BY <1>1, <1>4 DEF Within
  <2>3. queue'[r] = 0 /\ m_queue'[r] <= QUEUE_CAP
    BY <1>2, <2>1, <2>2, PoolAssumption, SMTT(30) DEF OwnQueueFull
  <2> QED BY <1>3, <2>3, PoolAssumption, SMTT(30) DEF Within
<1>5. CASE add2Queue[r] = "worker"
  BY <1>1, <1>2, <1>3, <1>5, PoolAssumption, SMTT(30) DEF Within, OwnQueueFull, WorkerQueueFull
<1>6. CASE add2Queue[r] = "release"
  <2>1. /\ m_queue'[r] = m_queue[r] - (IF OwnQueueFull(r) THEN 1 ELSE 0) + 0
        /\ queue'[r] = queue[r] - 0 + 0
    BY <1>3, <1>6
  <2>2. queue[r] = 0 /\ m_queue[r] <= QUEUE_CAP
    BY <1>1, <1>6 DEF Within
  <2>3. queue'[r] = 0 /\ m_queue'[r] <= QUEUE_CAP
    BY <1>2, <2>1, <2>2, PoolAssumption, SMTT(30) DEF OwnQueueFull
  <2> QED BY <1>3, <2>3, PoolAssumption, SMTT(30) DEF Within
<1> QED BY <1>2, <1>4, <1>5, <1>6

LEMMA QueueStep == ASSUME Types, QueueLimits, [Next]_vars PROVE QueueLimits'
<1>1. CASE UNCHANGED <<add2Queue, m_queue, queue>>
  BY <1>1 DEF QueueLimits
<1>2. ASSUME NEW r \in Receiver, AttachSource(r) \/ DetachSource(r) \/ PopBurst(r) \/ Burst(r)
      PROVE  QueueLimits'
  <2>1. /\ Within(m_queue[r], queue[r], add2Queue[r]) /\ m_queue[r] \in Nat /\ queue[r] \in Nat
        /\ \A q \in Receiver \ {r} : Within(m_queue[q], queue[q], add2Queue[q])
    BY QueueLimitsAre DEF Types, Counters
  <2>2. /\ m_queue \in [Receiver -> Nat] /\ queue \in [Receiver -> Nat]
        /\ add2Queue \in [Receiver -> {"none", "worker", "release"}]
    BY DEF Types, Counters
  <2>3. \A q \in Receiver \ {r} :
          m_queue'[q] = m_queue[q] /\ queue'[q] = queue[q] /\ add2Queue'[q] = add2Queue[q]
    BY <1>2, <2>2 DEF AttachSource, DetachSource, PopBurst, Burst, rxVars
  <2>4. Within(m_queue'[r], queue'[r], add2Queue'[r])
    <3>1. CASE AttachSource(r)
      BY <2>1, <2>2, <3>1 DEF AttachSource, Within
    <3>2. CASE DetachSource(r)
      BY <2>1, <2>2, <3>2, PoolAssumption, SMTT(30) DEF DetachSource, Within
    <3>3. CASE PopBurst(r)
      <4>1. queue[r] > 0 /\ queue'[r] = queue[r] - 1 /\ m_queue' = m_queue /\ add2Queue' = add2Queue
        BY <2>2, <3>3 DEF PopBurst, rxVars
      <4> QED BY <2>1, <4>1, PoolAssumption, SMTT(30) DEF Within
    <3>4. CASE Burst(r)
      BY <3>4, BurstWithin
    <3> QED BY <1>2, <3>1, <3>2, <3>3, <3>4
  <2> QED BY <2>1, <2>3, <2>4 DEF QueueLimits, Within
<1>3. CASE Next
  <2>1. ASSUME NEW r \in Receiver, RxSteps(r) \/ Burst(r) PROVE QueueLimits'
    <3>1. \/ UNCHANGED <<add2Queue, m_queue, queue>>
          \/ AttachSource(r) \/ DetachSource(r) \/ PopBurst(r) \/ Burst(r)
      BY <2>1 DEF RxSteps, CallRecv, RecvFails, Convert, TakeOne, BatchFails, PutBack, NoOutput, rxVars
    <3> QED BY <1>1, <1>2, <3>1
  <2>2. ASSUME NEW r \in Receiver, NEW t \in Transmitter, Add2BuffTest(r, t) \/ Add2BuffPush(r, t)
        PROVE  QueueLimits'
    BY <1>1, <2>2 DEF Add2BuffTest, Add2BuffPush, rxVars
  <2>3. ASSUME NEW t \in Transmitter, Sender(t) PROVE QueueLimits'
    BY <1>1, <2>3 DEF Sender, TakeSignal, ReleaseSignal, rxVars
  <2>4. CASE Silence
    BY <1>1, <2>4 DEF Silence, rxVars
  <2> QED BY <1>3, <2>1, <2>2, <2>3, <2>4, NextCases
<1> QED BY <1>1, <1>3 DEF vars, rxVars

LEMMA PushersFinite ==
    ASSUME NEW t PROVE IsFiniteSet(Pushers(t)) /\ Cardinality(Pushers(t)) \in Nat
<1>1. Pushers(t) \subseteq Receiver
  BY DEF Pushers
<1> QED BY <1>1, PoolAssumption, FS_Subset, FS_CardinalityType

\* Where the Pushers of a transmitter stay, so does its limit.
LEMMA SameLimit ==
    ASSUME NEW u, \A q \in Receiver : u \in ready'[q] <=> u \in ready[q]
    PROVE  Pushers(u)' = Pushers(u)
BY DEF Pushers

LEMMA TxStill ==
    ASSUME TxLimits, attached' = attached, UNCHANGED <<txVars, ready>>
    PROVE  TxLimits'
BY SameLimit DEF TxLimits, txVars, Pushers

\* What TxLimits says of one transmitter.
TxLimit(u) ==
    /\ txHand[u] <= 1
    /\ txQueue[u] + Cardinality(Pushers(u)) <= QUEUE_CAP - 2 + Cardinality(Receiver)
    /\ u \notin attached => txQueue[u] = 0 /\ txHand[u] = 0

LEMMA TestLimits ==
    ASSUME Types, TxLimits, NEW r \in Receiver, NEW t \in Transmitter, Add2BuffTest(r, t)
    PROVE  TxLimits'
<1>1. t \in attached /\ attached' = attached /\ txHand' = txHand
  <2>1. t \in worker[r].dests
    BY DEF Add2BuffTest
  <2> QED BY <2>1, OneReceiver DEF Add2BuffTest, conf, Busy
<1>2. ready \in [Receiver -> SUBSET Transmitter] /\ txQueue \in [Transmitter -> Nat]
      /\ txHand[t] \in Nat
  <2>1. \A q \in Receiver : ready[q] \subseteq Transmitter
    BY DEF Types, Machine, Workers, Busy
  <2> QED BY <2>1 DEF Types, Workers, Counters
<1>3. Cardinality(Pushers(t)) \in Nat /\ Cardinality(Receiver) \in Nat
  BY PushersFinite, PoolAssumption, FS_CardinalityType
<1>4. ASSUME NEW u \in Transmitter, u # t PROVE TxLimit(u)'
  <2>1. txQueue'[u] = txQueue[u] /\ Pushers(u)' = Pushers(u)
    <3>1. \A q \in Receiver : u \in ready'[q] <=> u \in ready[q]
      BY <1>2, <1>4 DEF Add2BuffTest
    <3>2. txQueue'[u] = txQueue[u]
      BY <1>2, <1>4 DEF Add2BuffTest
    <3> QED BY <3>1, <3>2, SameLimit
  <2> QED BY <1>1, <2>1 DEF TxLimits, TxLimit
<1>5. TxLimit(t)'
  <2>1. CASE txQueue' = [txQueue EXCEPT ![t] = @ - 1] /\ UNCHANGED ready
    <3>1. txQueue'[t] = txQueue[t] - 1 /\ Pushers(t)' = Pushers(t)
      BY <1>2, <2>1, SameLimit
    <3>2. txHand[t] <= 1 /\ txQueue[t] + Cardinality(Pushers(t)) <= QUEUE_CAP - 2 + Cardinality(Receiver)
      BY DEF TxLimits
    <3>3. txQueue'[t] + Cardinality(Pushers(t)') <= QUEUE_CAP - 2 + Cardinality(Receiver)
      BY <1>2, <1>3, <3>1, <3>2, PoolAssumption, SMTT(30)
    <3> QED BY <1>1, <3>2, <3>3 DEF TxLimit
  <2>2. CASE txQueue[t] < QUEUE_CAP - 1 /\ UNCHANGED txQueue
    <3> DEFINE P == Pushers(t)'
    <3>1. P \subseteq Receiver
      BY DEF Pushers
    <3> HIDE DEF P
    <3>2. Cardinality(P) \in Nat /\ Cardinality(P) <= Cardinality(Receiver)
      BY <3>1, PoolAssumption, FS_Subset, FS_CardinalityType
    <3>3. txQueue'[t] + Cardinality(P) <= QUEUE_CAP - 2 + Cardinality(Receiver)
      BY <1>2, <1>3, <2>2, <3>2, PoolAssumption, SMTT(30)
    <3>4. txHand[t] <= 1
      BY DEF TxLimits
    <3> QED BY <1>1, <3>3, <3>4 DEF TxLimit, P
  <2> QED BY <2>1, <2>2 DEF Add2BuffTest
<1> QED BY <1>4, <1>5 DEF TxLimits, TxLimit

LEMMA PushLimits ==
    ASSUME Types, TxLimits, NEW r \in Receiver, NEW t \in Transmitter, Add2BuffPush(r, t)
    PROVE  TxLimits'
<1>1. /\ t \in ready[r] /\ attached' = attached /\ txHand' = txHand
      /\ txQueue' = [txQueue EXCEPT ![t] = @ + 1] /\ ready' = [ready EXCEPT ![r] = @ \ {t}]
  BY DEF Add2BuffPush, conf
<1>2. t \in attached
  BY <1>1, OneReceiver DEF Busy
<1>3. /\ ready = [q \in Receiver |-> ready[q]] /\ txQueue \in [Transmitter -> Nat]
      /\ txHand[t] \in Nat
  BY DEF Types, Workers, Counters
<1>4. ASSUME NEW u \in Transmitter, u # t PROVE TxLimit(u)'
  <2>1. \A q \in Receiver : u \in ready'[q] <=> u \in ready[q]
    BY <1>1, <1>3, <1>4
  <2>2. txQueue'[u] = txQueue[u] /\ Pushers(u)' = Pushers(u)
    BY <1>1, <1>3, <1>4, <2>1, SameLimit
  <2> QED BY <1>1, <2>2 DEF TxLimits, TxLimit
<1>5. TxLimit(t)'
  <2> DEFINE P == Pushers(t)
             Q == Pushers(t)'
  <2>1. Q = P \ {r} /\ r \in P
    BY <1>1, <1>3 DEF Pushers
  <2>2. IsFiniteSet(P) /\ Cardinality(P) \in Nat
    BY PushersFinite
  <2>3. txHand[t] <= 1 /\ txQueue[t] + Cardinality(P) <= QUEUE_CAP - 2 + Cardinality(Receiver)
    BY DEF TxLimits
  <2> HIDE DEF P, Q
  <2>4. Cardinality(Q) = Cardinality(P) - 1
    BY <2>1, <2>2, FS_RemoveElement
  <2>5. txQueue'[t] = txQueue[t] + 1 /\ txQueue[t] \in Nat
    BY <1>1, <1>3
  <2>6. txQueue'[t] + Cardinality(Q) <= QUEUE_CAP - 2 + Cardinality(Receiver)
    BY <2>2, <2>3, <2>4, <2>5, SMTT(30)
  <2> QED BY <1>1, <1>2, <2>3, <2>6 DEF TxLimit, Q
<1> QED BY <1>4, <1>5 DEF TxLimits, TxLimit

LEMMA SenderLimits ==
    ASSUME Types, TxLimits, NEW t \in Transmitter, Sender(t)
    PROVE  TxLimits'
<1>1. /\ attached' = attached /\ ready' = ready
      /\ txQueue \in [Transmitter -> Nat] /\ txHand \in [Transmitter -> Nat]
  BY DEF Sender, TakeSignal, ReleaseSignal, conf, Types, Counters
<1>2. \A u \in Transmitter : Pushers(u)' = Pushers(u) /\ Cardinality(Pushers(u)) \in Nat
  BY <1>1, SameLimit, PushersFinite
<1>3. ASSUME NEW u \in Transmitter, u # t PROVE TxLimit(u)'
  <2>1. txQueue'[u] = txQueue[u] /\ txHand'[u] = txHand[u]
    BY <1>1, <1>3 DEF Sender, TakeSignal, ReleaseSignal
  <2> QED BY <1>1, <1>2, <2>1 DEF TxLimits, TxLimit
<1>4. TxLimit(t)'
  <2>1. /\ txHand[t] <= 1 /\ txQueue[t] + Cardinality(Pushers(t)) <= QUEUE_CAP - 2 + Cardinality(Receiver)
        /\ t \notin attached => txQueue[t] = 0 /\ txHand[t] = 0
    BY DEF TxLimits
  <2>2. \/ txHand'[t] = 1 /\ txQueue[t] > 0 /\ txQueue'[t] = txQueue[t] - 1
        \/ txHand[t] = 1 /\ txHand'[t] = 0 /\ txQueue'[t] = txQueue[t]
    BY <1>1 DEF Sender, TakeSignal, ReleaseSignal
  <2>3. t \in attached
    BY <1>1, <2>1, <2>2, SMTT(30)
  <2>4. Cardinality(Receiver) \in Nat /\ txQueue[t] \in Nat
    BY <1>1, PoolAssumption, FS_CardinalityType
  <2>5. /\ txHand'[t] <= 1
        /\ txQueue'[t] + Cardinality(Pushers(t)) <= QUEUE_CAP - 2 + Cardinality(Receiver)
    BY <1>2, <2>1, <2>2, <2>4, PoolAssumption, SMTT(30)
  <2> QED BY <1>1, <1>2, <2>3, <2>5 DEF TxLimit
<1> QED BY <1>3, <1>4 DEF TxLimits, TxLimit

LEMMA TxStep == ASSUME Types, TxLimits, [Next]_vars PROVE TxLimits'
<1>1. attached' = attached
  BY NodeStep DEF conf
<1>2. ASSUME NEW r \in Receiver, RxSteps(r) \/ Burst(r) PROVE TxLimits'
  <2>1. UNCHANGED <<txVars, ready>>
    BY <1>2 DEF RxSteps, CallRecv, RecvFails, Burst, AttachSource, DetachSource, PopBurst, Convert,
         TakeOne, BatchFails, PutBack, NoOutput
  <2> QED BY <1>1, <2>1, TxStill
<1>3. CASE UNCHANGED vars \/ Silence
  BY <1>1, <1>3, TxStill DEF vars, Silence
<1> QED BY <1>2, <1>3, TestLimits, PushLimits, SenderLimits, NextCases

LEMMA InitLimits == Init => Limits
<1> SUFFICES ASSUME Init PROVE Limits
  OBVIOUS
<1>1. QueueLimits
  BY PoolAssumption, SMTT(30) DEF Init, QueueLimits
<1>2. ASSUME NEW t \in Transmitter PROVE TxLimit(t)
  <2>1. Pushers(t) = {}
    BY DEF Pushers, Init
  <2>2. Cardinality(Pushers(t)) = 0 /\ Cardinality(Receiver) \in Nat
    BY <2>1, FS_EmptySet, FS_CardinalityType, PoolAssumption
  <2>3. txQueue[t] = 0 /\ txHand[t] = 0
    BY DEF Init
  <2> QED BY <2>2, <2>3, PoolAssumption, SMTT(30) DEF TxLimit
<1> QED BY <1>1, <1>2 DEF Limits, TxLimits, TxLimit

-----------------------------------------------------------------------------
(* One pool of Demand buffers is enough *)

\* What a receiver and its worker hold, and what a transmitter holds, at most.
RxShare == 1 + 2 * (QUEUE_CAP - 1) + Most(1, Cardinality(attached))
TxShare == 1 + (QUEUE_CAP - 2 + Cardinality(Receiver))

LEMMA SharesNat ==
    ASSUME Types
    PROVE  /\ RxShare \in Nat /\ TxShare \in Nat
           /\ Cardinality(Receiver) \in Nat /\ Cardinality(attached) \in Nat
           /\ Demand = Cardinality(Receiver) * RxShare + Cardinality(attached) * TxShare
<1>1. Cardinality(Receiver) \in Nat /\ Cardinality(attached) \in Nat
  BY PoolAssumption, FS_CardinalityType, FS_Subset DEF Types, Machine
<1>2. RxShare \in Nat /\ TxShare \in Nat
  BY <1>1, PoolAssumption, SMTT(30) DEF RxShare, TxShare, Most
<1> QED BY <1>1, <1>2 DEF Demand, RxShare, TxShare

LEMMA InHandBound ==
    ASSUME Types, NEW r \in Receiver
    PROVE  /\ InHand(r) <= Most(1, Cardinality(attached))
           /\ worker[r].pc = "batch" => InHand(r) < Most(1, Cardinality(attached))
<1> DEFINE w == worker[r]
           C == Cardinality(w.dests)
           T == Cardinality(attached)
<1>1. Busy(w, ready[r], attached, Node) /\ IsFiniteSet(attached)
  BY OneReceiver
<1>2. w.dests \subseteq attached /\ w.got \in Nat
  BY <1>1 DEF Busy
<1>3. C <= T /\ C \in Nat /\ T \in Nat
  BY <1>1, <1>2, FS_Subset, FS_CardinalityType
<1>4. /\ w.pc \in {"pop", "burst", "batch", "back", "deliver"}
      /\ w.pc = "pop" => w.got = 0
      /\ w.pc \in {"batch", "back"} => w.got < C
      /\ w.pc = "deliver" => w.got = C
  BY <1>1, IdleIs DEF Busy
<1>5. InHand(r) = IF w.pc = "burst" THEN 1 ELSE w.got
  BY DEF InHand
<1> HIDE DEF w, C, T
<1>6. InHand(r) <= Most(1, T) /\ (w.pc = "batch" => InHand(r) < Most(1, T))
  <2>1. CASE w.pc = "burst"
    BY <1>3, <1>5, <2>1, SMTT(30) DEF Most
  <2>2. CASE w.pc # "burst"
    BY <1>2, <1>3, <1>4, <1>5, <2>2, SMTT(30) DEF Most
  <2> QED BY <2>1, <2>2
<1> QED BY <1>6 DEF w, T

LEMMA RxBound ==
    ASSUME Types, QueueLimits, NEW r \in Receiver
    PROVE  /\ HeldFor(r) <= RxShare
           /\ rx[r] = "call" \/ worker[r].pc = "batch" => HeldFor(r) < RxShare
<1> DEFINE M == Most(1, Cardinality(attached))
           here == IF rx[r] = "recv" THEN 1 ELSE 0
<1>1. /\ m_queue[r] \in Nat /\ queue[r] \in Nat /\ InHand(r) \in Nat
      /\ HeldFor(r) = here + m_queue[r] + queue[r] + InHand(r)
  BY OneReceiver DEF HeldFor, Parked
<1>2. InHand(r) <= M /\ (worker[r].pc = "batch" => InHand(r) < M)
  BY InHandBound
<1>3. M \in Nat
  BY SharesNat DEF Most
<1>4. m_queue[r] + queue[r] <= 2 * (QUEUE_CAP - 1)
  BY <1>1, PoolAssumption, SMTT(30) DEF QueueLimits
<1>5. here \in {0, 1} /\ (rx[r] = "call" => here = 0)
  OBVIOUS
<1>6. RxShare = 1 + 2 * (QUEUE_CAP - 1) + M
  BY DEF RxShare
<1> HIDE DEF M, here
<1> QED BY <1>1, <1>2, <1>3, <1>4, <1>5, <1>6, PoolAssumption, SMTT(30)

LEMMA TxBound ==
    ASSUME Types, TxLimits, NEW t \in Transmitter
    PROVE  HeldBy(t) <= TxShare /\ (t \notin attached => HeldBy(t) = 0)
<1>1. /\ txHand[t] <= 1 /\ txQueue[t] + Cardinality(Pushers(t)) <= QUEUE_CAP - 2 + Cardinality(Receiver)
      /\ t \notin attached => txQueue[t] = 0 /\ txHand[t] = 0
  BY DEF TxLimits
<1>2. /\ txHand[t] \in Nat /\ txQueue[t] \in Nat /\ Cardinality(Pushers(t)) \in Nat
      /\ Cardinality(Receiver) \in Nat
  BY PushersFinite, SharesNat DEF Types, Counters
<1> QED BY <1>1, <1>2, PoolAssumption, SMTT(30) DEF HeldBy, TxShare

\* The only pool has a buffer for whoever needs one.
LEMMA PoolLasts ==
    ASSUME Types, Counted, Limits, capacity >= Demand, Cardinality(Node) = 1,
           NEW r \in Receiver, rx[r] = "call" \/ worker[r].pc = "batch", NEW n \in Node
    PROVE  pool[n] > 0
<1> DEFINE W == Cardinality(Receiver)
           T == Cardinality(attached)
           held == Total(ForRx)
           sent == Total(ByTx)
<1>1. Total(ForRx) < Cardinality(Receiver) * RxShare
  <2>1. ForRx \in [Receiver -> Nat] /\ \A q \in Receiver : ForRx[q] = HeldFor(q)
    BY HeldTypes
  <2>2. (\A q \in Receiver : ForRx[q] <= RxShare) /\ \E q \in Receiver : ForRx[q] < RxShare
    BY <2>1, RxBound DEF Limits
  <2>3. RxShare \in Nat /\ IsFiniteSet(Receiver) /\ Receiver \in SUBSET Receiver
    BY SharesNat, PoolAssumption
  <2> QED BY <2>1, <2>2, <2>3, TotalBound
<1>2. Total(ByTx) <= Cardinality(attached) * TxShare
  <2>1. ByTx \in [Transmitter -> Nat] /\ \A t \in Transmitter : ByTx[t] = HeldBy(t)
    BY HeldTypes
  <2>2. attached \in SUBSET Transmitter /\ IsFiniteSet(attached) /\ TxShare \in Nat
    BY OneReceiver, SharesNat DEF Types, Machine
  <2>3. /\ \A t \in attached : ByTx[t] <= TxShare
        /\ \A t \in Transmitter \ attached : ByTx[t] = 0
    BY <2>1, <2>2, TxBound DEF Limits
  <2> QED BY <2>1, <2>2, <2>3, TotalBound
<1>3. Total(pool) = pool[n] /\ pool[n] \in Nat
  <2>1. pool \in [Node -> Nat] /\ IsFiniteSet(Node)
    BY DEF Types, Machine
  <2>2. \A m \in Node : m = n
    <3>1. PICK x : Node = {x}
      BY <2>1, FS_Singleton
    <3> QED BY <3>1
  <2>3. Total(pool) = Cardinality(Node) * pool[n]
    <3> DEFINE D == Node
               k == pool[n]
    <3>1. k \in Nat /\ IsFiniteSet(D) /\ DOMAIN pool = D /\ \A m \in D : pool[m] = k
      BY <2>1, <2>2
    <3> HIDE DEF D, k
    <3>2. Total(pool) = Cardinality(D) * k
      BY <3>1, TotalSame
    <3> QED BY <3>2 DEF D, k
  <2> QED BY <2>1, <2>3, SMTT(30)
<1>4. pool[n] + held + sent = capacity /\ held \in Nat /\ sent \in Nat
  BY <1>3, FS_CardinalityType DEF Counted, BuffersConserved, ForRx, ByTx, Total
<1>5. /\ Demand = W * RxShare + T * TxShare /\ W * RxShare \in Nat /\ T * TxShare \in Nat
  BY SharesNat, SMTT(30)
<1>6. capacity \in Nat
  BY DEF Types, Machine
<1> HIDE DEF W, T, held, sent
<1>7. ASSUME NEW x \in Nat, NEW y \in Nat, Demand = x + y, held < x, sent <= y PROVE pool[n] > 0
  BY <1>3, <1>4, <1>6, <1>7, SMTT(30)
<1> QED BY <1>1, <1>2, <1>5, <1>7 DEF W, T, held, sent

\* Nobody has met an empty pool.
AllRun == \A r \in Receiver : rx[r] # "ended" /\ worker[r].pc # "back"

LEMMA RunsOn ==
    ASSUME Types, AllRun, [Next]_vars,
           \A r \in Receiver, n \in Node : rx[r] = "call" \/ worker[r].pc = "batch" => pool[n] > 0
    PROVE  AllRun'
<1>1. /\ rx \in [Receiver -> {"call", "recv", "ended"}] /\ worker = [r \in Receiver |-> worker[r]]
      /\ home \in Node
  BY DEF Types, Counters, Workers, Machine
<1>2. CASE UNCHANGED <<rx, worker>>
  BY <1>2 DEF AllRun
<1>3. ASSUME NEW r \in Receiver, worker' = worker, NEW x \in {"call", "recv"}, rx' = [rx EXCEPT ![r] = x]
      PROVE  AllRun'
  BY <1>1, <1>3 DEF AllRun
<1>4. ASSUME NEW r \in Receiver, rx' = rx, NEW w, w.pc # "back", worker' = [worker EXCEPT ![r] = w]
      PROVE  AllRun'
  BY <1>1, <1>4 DEF AllRun
<1>5. ASSUME NEW v, NEW t PROVE Served(v, t).pc # "back"
  BY IdleIs, WorkFields, SMTT(30) DEF Served
<1>6. ASSUME NEW r \in Receiver, RxSteps(r) \/ Burst(r) PROVE AllRun'
  <2>1. CASE CallRecv(r)
    <3>1. rx[r] = "call" /\ pool[home] > 0
      BY <1>1, <2>1 DEF CallRecv
    <3>2. pool[home] # 0
      BY <3>1, SMTT(30)
    <3> QED BY <1>3, <2>1, <3>2 DEF CallRecv
  <2>2. CASE RecvFails(r) \/ Burst(r)
    BY <1>3, <2>2 DEF RecvFails, Burst
  <2>3. CASE AttachSource(r) \/ DetachSource(r)
    BY <1>2, <2>3 DEF AttachSource, DetachSource
  <2>4. CASE PopBurst(r)
    <3>1. Work("burst", {}, 0, 0).pc # "back"
      BY WorkFields, SMTT(30)
    <3> QED BY <1>4, <2>4, <3>1 DEF PopBurst, rxVars
  <2>5. CASE Convert(r)
    <3>1. PICK dests \in SUBSET attached :
            worker' = [worker EXCEPT ![r] =
                IF dests = {} THEN Idle ELSE Work("batch", dests, numa_node[r], 0)]
      BY <2>5 DEF Convert
    <3> DEFINE w == IF dests = {} THEN Idle ELSE Work("batch", dests, numa_node[r], 0)
    <3>2. w.pc # "back"
      BY WorkFields, IdleIs, SMTT(30)
    <3>3. worker' = [worker EXCEPT ![r] = w] /\ rx' = rx
      BY <2>5, <3>1 DEF Convert, rxVars
    <3> HIDE DEF w
    <3> QED BY <1>4, <3>2, <3>3
  <2>6. CASE TakeOne(r)
    <3> DEFINE v == worker[r]
               w == Work(IF v.got + 1 = Cardinality(v.dests) THEN "deliver" ELSE "batch",
                         v.dests, v.at, v.got + 1)
    <3>1. w.pc # "back"
      BY WorkFields, SMTT(30)
    <3>2. worker' = [worker EXCEPT ![r] = w] /\ rx' = rx
      BY <2>6 DEF TakeOne, rxVars
    <3> HIDE DEF w
    <3> QED BY <1>4, <3>1, <3>2
  <2>7. CASE BatchFails(r)
    <3>1. worker[r].pc = "batch" /\ pool[worker[r].at] = 0
      BY <2>7 DEF BatchFails
    <3>2. worker[r].at \in Node
      BY <3>1, OneReceiver DEF Busy
    <3>3. pool[worker[r].at] > 0
      BY <3>1, <3>2
    <3> QED BY <3>1, <3>3, SMTT(30)
  <2>8. CASE PutBack(r)
    BY <2>8 DEF PutBack, AllRun
  <2>9. CASE \E t \in Transmitter : NoOutput(r, t)
    BY <1>4, <1>5, <2>9 DEF NoOutput, rxVars
  <2> QED BY <1>6, <2>1, <2>2, <2>3, <2>4, <2>5, <2>6, <2>7, <2>8, <2>9 DEF RxSteps
<1>7. ASSUME NEW r \in Receiver, NEW t \in Transmitter, Add2BuffTest(r, t) \/ Add2BuffPush(r, t)
      PROVE  AllRun'
  BY <1>2, <1>4, <1>5, <1>7, SMTT(30) DEF Add2BuffTest, Add2BuffPush, rxVars
<1>8. CASE UNCHANGED vars \/ Silence \/ \E t \in Transmitter : Sender(t)
  BY <1>2, <1>8 DEF vars, rxVars, Silence, Sender, TakeSignal, ReleaseSignal
<1> QED BY <1>6, <1>7, <1>8, NextCases

LEMMA DemandStep ==
    Types /\ Counted /\ Limits /\ DemandMet /\ [Next]_vars => Limits' /\ DemandMet'
<1> SUFFICES ASSUME Types, Counted, Limits, DemandMet, [Next]_vars PROVE Limits' /\ DemandMet'
  OBVIOUS
<1>1. Limits'
  BY QueueStep, TxStep DEF Limits
<1>2. ASSUME capacity' >= Demand', Cardinality(Node') = 1 PROVE AllRun'
  <2>1. capacity' = capacity /\ Node' = Node /\ Demand' = Demand
    BY NodeStep DEF conf, Demand
  <2>2. capacity >= Demand /\ Cardinality(Node) = 1
    BY <1>2, <2>1
  <2>3. AllRun
    BY <2>2 DEF DemandMet, AllRun
  <2>4. \A r \in Receiver, n \in Node : rx[r] = "call" \/ worker[r].pc = "batch" => pool[n] > 0
    BY <2>2, PoolLasts
  <2> QED BY <2>3, <2>4, RunsOn
<1> QED BY <1>1, <1>2 DEF DemandMet, AllRun

LEMMA InitDemand == Init => Limits /\ DemandMet
BY InitLimits, IdleIs DEF Init, DemandMet

\* One pool of Demand buffers is enough, for any number of receivers and
\* transmitters and any queue capacity: Recv never finds it empty, so no
\* receiver thread ends, and no batch of a worker fails, so no burst is dropped
\* for want of a buffer.
THEOREM DemandIsMet == Spec => []DemandMet
BY SoundAlways, InitDemand, DemandStep, PTL DEF Spec

=============================================================================
