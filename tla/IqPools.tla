------------------------------ MODULE IqPools ------------------------------
(***************************************************************************)
(* The IQ buffers on their way through the emulator.  With NUMA enabled    *)
(* there is a pool for every node of the machine: receivers take from the  *)
(* home pool and transmitters return to it, callbacks return to pool 0,    *)
(* workers return to and take from the pool of the node they run on, and   *)
(* go to the other pools when theirs is short.  Nothing waits for a buffer:*)
(* acquire throws.                                                         *)
(*                                                                         *)
(* Buffers are alike, so places hold numbers of them.  The races inside    *)
(* the callback and inside DetachSource are those of WorkerLifecycle; here *)
(* each is one step.                                                       *)
(***************************************************************************)
EXTENDS Integers, FiniteSets

CONSTANTS
    Receiver,       \* receivers; each has a worker while it is attached
    Transmitter,
    QUEUE_CAP,      \* common.h
    Setup           \* the NUMA nodes, the IQ_POOL_CAP and the attached transmitters to try

ASSUME PoolAssumption ==
    /\ IsFiniteSet(Receiver) /\ IsFiniteSet(Transmitter)
    /\ QUEUE_CAP \in Nat /\ QUEUE_CAP >= 2
    /\ Setup \subseteq [nodes : Nat \ {0}, cap : Nat \ {0}, attached : SUBSET Transmitter]

VARIABLES
    pool,        \* available buffers of each DataArrayPool in m_iq_pools
    home,        \* index of iq_pool, the Controller's m_numa_node
    capacity,    \* history: buffers created
    attached,    \* transmitters of the channel, m_destinationMap
    add2Queue,   \* each receiver's callback
    rx,          \* receiver thread: about to call Recv, inside it, or ended
    m_queue,     \* length of each receiver's own queue
    queue,       \* length of each worker's queue
    numa_node,   \* node of each worker
    worker,      \* each worker: step, destinations to serve, pool it tries, buffers in hand
    ready,       \* destinations of each worker's burst that may be pushed to
    txQueue,     \* length of each Transmitter's queue
    txHand,      \* bursts each transmitter thread is sending
    silent       \* no more bursts arrive

rxVars == <<add2Queue, rx, m_queue>>
txVars == <<txQueue, txHand>>
conf == <<home, capacity, attached, numa_node>>
vars == <<pool, rxVars, queue, worker, ready, txVars, conf, silent>>

Node == DOMAIN pool
Work(pc, dests, at, got) == [pc |-> pc, dests |-> dests, at |-> at, got |-> got]
Idle == Work("pop", {}, 0, 0)

Put(n, k) == pool' = [pool EXCEPT ![n] = @ + k]
Take(n) == pool' = [pool EXCEPT ![n] = @ - 1]

-----------------------------------------------------------------------------
(* Receivers *)

\* Recv takes a buffer before it waits for packets; the exception of an empty
\* pool ends the receiver thread.
CallRecv(r) ==
    /\ rx[r] = "call"
    /\ \/ pool[home] > 0 /\ Take(home) /\ rx' = [rx EXCEPT ![r] = "recv"]
       \/ pool[home] = 0 /\ rx' = [rx EXCEPT ![r] = "ended"] /\ UNCHANGED pool
    /\ UNCHANGED <<add2Queue, m_queue, queue, worker, ready, txVars, conf, silent>>

\* recvmmsg fails.
RecvFails(r) ==
    /\ rx[r] = "recv" /\ ~silent
    /\ Put(home, 1)
    /\ rx' = [rx EXCEPT ![r] = "call"]
    /\ UNCHANGED <<add2Queue, m_queue, queue, worker, ready, txVars, conf, silent>>

OwnQueueFull(r) == m_queue[r] >= QUEUE_CAP

\* Mutant: nothing makes room in the queue of a worker.
WorkerQueueFull_Never(r) == FALSE
WorkerQueueFull(r) == queue[r] >= QUEUE_CAP - 1

\* Recv returns a burst.  A full queue of the receiver gives one up, whether or
\* not the burst is for that queue; the callback of a worker makes room too.
Burst(r) ==
    LET over == IF OwnQueueFull(r) THEN 1 ELSE 0
        trim == IF add2Queue[r] = "worker" /\ WorkerQueueFull(r) THEN 1 ELSE 0
        back == IF add2Queue[r] = "release" THEN 1 ELSE 0
        kept(mode) == IF add2Queue[r] = mode THEN 1 ELSE 0
    IN  /\ rx[r] = "recv" /\ ~silent
        /\ pool' = [n \in Node |-> pool[n] + (IF n = home THEN over ELSE 0)
                                           + (IF n = 0 THEN trim + back ELSE 0)]
        /\ m_queue' = [m_queue EXCEPT ![r] = @ - over + kept("none")]
        /\ queue' = [queue EXCEPT ![r] = @ - trim + kept("worker")]
        /\ rx' = [rx EXCEPT ![r] = "call"]
        /\ UNCHANGED <<add2Queue, worker, ready, txVars, conf, silent>>

AttachSource(r) ==
    /\ add2Queue[r] # "worker"
    /\ add2Queue' = [add2Queue EXCEPT ![r] = "worker"]
    /\ UNCHANGED <<pool, rx, m_queue, queue, worker, ready, txVars, conf, silent>>

\* The worker is joined, so it is not in the middle of a burst.
DetachSource(r) ==
    /\ add2Queue[r] = "worker" /\ worker[r] = Idle
    /\ add2Queue' = [add2Queue EXCEPT ![r] = "release"]
    /\ Put(0, queue[r])
    /\ queue' = [queue EXCEPT ![r] = 0]
    /\ UNCHANGED <<rx, m_queue, worker, ready, txVars, conf, silent>>

-----------------------------------------------------------------------------
(* Workers *)

\* The channel is taken to have destinations; without any a worker does not pop.
PopBurst(r) ==
    /\ worker[r] = Idle /\ queue[r] > 0
    /\ queue' = [queue EXCEPT ![r] = @ - 1]
    /\ worker' = [worker EXCEPT ![r] = Work("burst", {}, 0, 0)]
    /\ UNCHANGED <<pool, rxVars, ready, txVars, conf, silent>>

\* The burst is too old, or it is converted; its buffer goes back either way.
\* The outputs are acquired from the worker's own pool first.
Convert(r) ==
    /\ worker[r].pc = "burst"
    /\ Put(numa_node[r], 1)
    /\ \E dests \in SUBSET attached :
        worker' = [worker EXCEPT ![r] =
            IF dests = {} THEN Idle ELSE Work("batch", dests, numa_node[r], 0)]
    /\ UNCHANGED <<rxVars, queue, ready, txVars, conf, silent>>

\* acquireBatch pops one buffer after the other.
TakeOne(r) ==
    LET w == worker[r]
    IN  /\ w.pc = "batch" /\ pool[w.at] > 0
        /\ Take(w.at)
        /\ worker' = [worker EXCEPT ![r] =
                Work(IF w.got + 1 = Cardinality(w.dests) THEN "deliver" ELSE "batch",
                     w.dests, w.at, w.got + 1)]
        /\ UNCHANGED <<rxVars, queue, ready, txVars, conf, silent>>

\* Mutant: a worker waits until its batch is complete.
BatchFails_Wait(r) == worker[r].pc = "batch" /\ pool[worker[r].at] = 0 /\ UNCHANGED vars

BatchFails(r) ==
    /\ worker[r].pc = "batch" /\ pool[worker[r].at] = 0
    /\ worker' = [worker EXCEPT ![r] = Work("back", @.dests, @.at, @.got)]
    /\ UNCHANGED <<pool, rxVars, queue, ready, txVars, conf, silent>>

\* The pools in the order ProcessSignal tries them.
Untried(r) ==
    LET own == numa_node[r]
        at == worker[r].at
    IN  {n \in Node \ {own} : at = own \/ n > at}

\* The next pool is tried; after the last one the burst is dropped.
TryNext(r) ==
    \/ Untried(r) = {} /\ worker' = [worker EXCEPT ![r] = Idle]
    \/ \E n \in Untried(r) :
        /\ \A m \in Untried(r) : n <= m
        /\ worker' = [worker EXCEPT ![r] = Work("batch", @.dests, n, 0)]

\* Mutant: what a failed batch had taken is forgotten.
PutBack_Forget(r) ==
    /\ worker[r].pc = "back"
    /\ TryNext(r)
    /\ UNCHANGED <<pool, rxVars, queue, ready, txVars, conf, silent>>

\* What a failed batch had taken goes back.
PutBack(r) ==
    /\ worker[r].pc = "back"
    /\ Put(worker[r].at, worker[r].got)
    /\ TryNext(r)
    /\ UNCHANGED <<rxVars, queue, ready, txVars, conf, silent>>

Served(w, t) ==
    IF w.dests = {t} THEN Idle ELSE Work("deliver", w.dests \ {t}, w.at, w.got - 1)

\* A destination without a usable rate gives its buffer back.
NoOutput(r, t) ==
    /\ worker[r].pc = "deliver" /\ t \in worker[r].dests \ ready[r]
    /\ Put(numa_node[r], 1)
    /\ worker' = [worker EXCEPT ![r] = Served(@, t)]
    /\ UNCHANGED <<rxVars, queue, ready, txVars, conf, silent>>

\* Add2Buff tests the length of the queue and pushes in a later step; at the
\* limit it releases the oldest burst and the new one.
Add2BuffTest(r, t) ==
    /\ worker[r].pc = "deliver" /\ t \in worker[r].dests \ ready[r]
    /\ \/ /\ txQueue[t] >= QUEUE_CAP - 1
          /\ Put(home, 2)
          /\ txQueue' = [txQueue EXCEPT ![t] = @ - 1]
          /\ worker' = [worker EXCEPT ![r] = Served(@, t)]
          /\ UNCHANGED ready
       \/ /\ txQueue[t] < QUEUE_CAP - 1
          /\ ready' = [ready EXCEPT ![r] = @ \cup {t}]
          /\ UNCHANGED <<pool, txQueue, worker>>
    /\ UNCHANGED <<rxVars, queue, txHand, conf, silent>>

Add2BuffPush(r, t) ==
    /\ t \in ready[r]
    /\ txQueue' = [txQueue EXCEPT ![t] = @ + 1]
    /\ ready' = [ready EXCEPT ![r] = @ \ {t}]
    /\ worker' = [worker EXCEPT ![r] = Served(@, t)]
    /\ UNCHANGED <<pool, rxVars, queue, txHand, conf, silent>>

-----------------------------------------------------------------------------
(* Transmitters *)

TakeSignal(t) ==
    /\ txHand[t] = 0 /\ txQueue[t] > 0
    /\ txHand' = [txHand EXCEPT ![t] = 1]
    /\ txQueue' = [txQueue EXCEPT ![t] = @ - 1]
    /\ UNCHANGED <<pool, rxVars, queue, worker, ready, conf, silent>>

\* Too old, empty or sent, the burst's buffer goes to the home pool.
ReleaseSignal(t) ==
    /\ txHand[t] = 1
    /\ Put(home, 1)
    /\ txHand' = [txHand EXCEPT ![t] = 0]
    /\ UNCHANGED <<rxVars, queue, worker, ready, txQueue, conf, silent>>

\* The nodes stop sending.
Silence ==
    /\ ~silent
    /\ silent' = TRUE
    /\ UNCHANGED <<pool, rxVars, queue, worker, ready, txVars, conf>>

-----------------------------------------------------------------------------
PerNode(cap, n) == IF cap \div n = 0 THEN 1 ELSE cap \div n

Init ==
    /\ \E s \in Setup :
        /\ pool = [i \in 0 .. s.nodes - 1 |-> PerNode(s.cap, s.nodes)]
        /\ capacity = s.nodes * PerNode(s.cap, s.nodes)
        /\ attached = s.attached
    /\ home \in Node
    /\ numa_node \in [Receiver -> Node]
    /\ add2Queue = [r \in Receiver |-> "none"]
    /\ rx = [r \in Receiver |-> "call"]
    /\ m_queue = [r \in Receiver |-> 0] /\ queue = [r \in Receiver |-> 0]
    /\ worker = [r \in Receiver |-> Idle] /\ ready = [r \in Receiver |-> {}]
    /\ txQueue = [t \in Transmitter |-> 0] /\ txHand = [t \in Transmitter |-> 0]
    /\ silent = FALSE

Worker(r) ==
    \/ PopBurst(r) \/ Convert(r) \/ TakeOne(r) \/ BatchFails(r) \/ PutBack(r)
    \/ \E t \in Transmitter : NoOutput(r, t) \/ Add2BuffTest(r, t) \/ Add2BuffPush(r, t)
Sender(t) == TakeSignal(t) \/ ReleaseSignal(t)

Next ==
    \/ \E r \in Receiver :
        \/ CallRecv(r) \/ RecvFails(r) \/ Burst(r)
        \/ AttachSource(r) \/ DetachSource(r)
        \/ Worker(r)
    \/ \E t \in Transmitter : Sender(t)
    \/ Silence

Spec == Init /\ [][Next]_vars

\* Every worker and every transmitter thread that can run does.
FairSpec ==
    /\ Spec
    /\ \A r \in Receiver : WF_vars(Worker(r))
    /\ \A t \in Transmitter : WF_vars(Sender(t))

-----------------------------------------------------------------------------
(* Properties *)

InHand(r) == IF worker[r].pc = "burst" THEN 1 ELSE worker[r].got
Parked(r) == (IF rx[r] = "recv" THEN 1 ELSE 0) + m_queue[r]
HeldFor(r) == Parked(r) + queue[r] + InHand(r)
HeldBy(t) == txQueue[t] + txHand[t]

\* What a function counts, counted: one token for each of f[x] items at x.
Tokens(f) == UNION {{x} \X (1 .. f[x]) : x \in DOMAIN f}
Total(f) == Cardinality(Tokens(f))

\* Buffers wander between the pools but none is made, lost or handed out twice:
\* the pools, the queues and the threads' hands always add up to what the
\* Controller created, through failed batches and overflowing queues.  (The
\* one buffer a detach may lose is LossBounded of WorkerLifecycle.)
BuffersConserved ==
    Total(pool) + Total([r \in Receiver |-> HeldFor(r)]) + Total([t \in Transmitter |-> HeldBy(t)])
        = capacity

\* The most that can be out at once.  Each receiver has one buffer in Recv, a
\* queue of its own, which its first burst after AttachSource takes below the
\* limit and nothing empties further, and a worker's queue; each worker holds
\* one input or its outputs; and the test in Add2Buff lets every worker past
\* the limit of a transmitter's queue once.
Most(a, b) == IF a > b THEN a ELSE b
Demand ==
    LET W == Cardinality(Receiver)
        T == Cardinality(attached)
    IN  W * (1 + 2 * (QUEUE_CAP - 1) + Most(1, T)) + T * (1 + (QUEUE_CAP - 2 + W))

\* A single pool of Demand buffers is enough: no Recv finds it empty, which
\* would end the receiver thread for good, and no batch fails, which would drop
\* a burst.  With one buffer less that is no longer so; and it is not so for
\* several pools of any size, between which the buffers drift.
DemandMet ==
    capacity >= Demand /\ Cardinality(Node) = 1 =>
        \A r \in Receiver : rx[r] # "ended" /\ worker[r].pc # "back"

\* After the nodes fall silent every buffer is back in a pool, apart from the
\* one each receiver waits with and those parked in a receiver's own queue:
\* no worker waits for buffers another one holds.
BuffersReturn ==
    silent ~> (Total(pool) + Total([r \in Receiver |-> Parked(r)]) = capacity)

=============================================================================
