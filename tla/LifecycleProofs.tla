-------------------------- MODULE LifecycleProofs --------------------------
(***************************************************************************)
(* Two threads that come and go beside the data path, the worker of a      *)
(* receiver and the poll thread of the Sionna extension.  WorkerSpec is    *)
(* that of WorkerLifecycle, Spec that of SionnaExtension.                  *)
(*                                                                         *)
(* For every pool of buffers, every queue capacity and every number of     *)
(* attachments: the races between the receiver's callback, the worker and  *)
(* DetachSource neither duplicate nor drop a buffer, and a detach destroys *)
(* one buffer at most.  The invariant says what each thread holds at each  *)
(* of its steps, and how far DetachSource has come: after the flag is down *)
(* a callback that has not passed it never will, so that after the drain   *)
(* at most one burst can still arrive.                                     *)
(*                                                                         *)
(* For any number of nodes, positions, commands and faults: taps are those *)
(* of their link, no link bypasses the path loss without taps, and none is *)
(* marked after a stop.  The first rests on the two ends counting devices  *)
(* alike: while the scene is up, the server's order is the client's, and   *)
(* what it traced is a prefix of that order, since devices are only added. *)
(***************************************************************************)
EXTENDS WorkerLifecycle, SionnaExtension, FiniteSetTheorems, TLAPS

\* The prover of the leaves that do not name another one.
USE ZenonT(30)

-----------------------------------------------------------------------------
(* Receiver, worker and DetachSource: what each holds *)

\* The context is gone.
Detached == {"erased", "detached"}

\* What each thread holds, and what the caller's progress says of the context.
Phases ==
    /\ pool \subseteq Buffer /\ destroyed \subseteq Buffer
    /\ local_queue \in Seq(Buffer) /\ queue \in Seq(Buffer)
    /\ r_pc \in {"recv", "check", "trim", "push", "dead"}
    /\ r_buf \in IF r_pc = "recv" THEN {NoBuffer} ELSE Buffer
    /\ w_buf \in IF w_pc = "burst" THEN Buffer ELSE {NoBuffer}
    /\ d_pc \in Detached \cup {"attached", "flagged", "replaced", "aborted", "stopped",
                               "drained", "joined"}
    /\ d_pc \in Detached \cup {"joined"} => w_pc = "exit"
    /\ alive = (d_pc \notin Detached)
    /\ d_pc \in Detached => queue = << >>
    /\ running_flag => d_pc = "attached"
    /\ ctx \in Nat

\* One burst at most is on its way into the queue or in it once that has been
\* drained, and each context that is gone has cost one buffer at most.
Lossy ==
    /\ d_pc \in {"drained", "joined"} =>
        Len(queue) <= 1 /\ (r_pc \in {"trim", "push"} => queue = << >>)
    /\ Cardinality(destroyed) <= ctx
    /\ d_pc \notin Detached => Cardinality(destroyed) < ctx

-----------------------------------------------------------------------------
(* Queues as sets *)

\* What a push and a pop do to the bursts in a queue that has none twice.
LEMMA Pushed ==
    ASSUME NEW q \in Seq(Buffer), NEW b \in Buffer
    PROVE  /\ Append(q, b) \in Seq(Buffer)
           /\ Range(Append(q, b)) = Range(q) \cup {b}
           /\ IsInjective(q) /\ b \notin Range(q) => IsInjective(Append(q, b))
<1> DEFINE s == Append(q, b)
<1>1. /\ s \in Seq(Buffer) /\ DOMAIN s = 1 .. Len(q) + 1 /\ DOMAIN q = 1 .. Len(q)
      /\ s[Len(q) + 1] = b /\ \A i \in 1 .. Len(q) : s[i] = q[i]
      /\ Len(q) \in Nat
  BY SMTT(30)
<1> HIDE DEF s
<1>2. Range(s) = Range(q) \cup {b}
  BY <1>1, SMTT(30) DEF Range
<1>3. IsInjective(q) /\ b \notin Range(q) => IsInjective(s)
  BY <1>1, SMTT(30) DEF Range, IsInjective
<1> QED BY <1>1, <1>2, <1>3 DEF s

\* The pop.
LEMMA Popped ==
    ASSUME NEW q \in Seq(Buffer), q # << >>
    PROVE  /\ Head(q) \in Range(q) /\ Tail(q) \in Seq(Buffer) /\ Len(Tail(q)) = Len(q) - 1
           /\ IsInjective(q) => /\ Range(Tail(q)) = Range(q) \ {Head(q)}
                                /\ IsInjective(Tail(q))
<1> DEFINE s == Tail(q)
<1>1. /\ s \in Seq(Buffer) /\ DOMAIN s = 1 .. Len(q) - 1 /\ DOMAIN q = 1 .. Len(q)
      /\ Head(q) = q[1] /\ \A i \in 1 .. Len(q) - 1 : s[i] = q[i + 1]
      /\ Len(q) \in Nat /\ Len(q) >= 1 /\ Len(s) = Len(q) - 1
  BY SMTT(30)
<1> HIDE DEF s
<1>2. Head(q) \in Range(q)
  BY <1>1, SMTT(30) DEF Range
<1>3. ASSUME IsInjective(q) PROVE Range(s) = Range(q) \ {Head(q)}
  <2>1. ASSUME NEW x \in Range(s) PROVE x \in Range(q) \ {Head(q)}
    <3>1. PICK i \in 1 .. Len(q) - 1 : x = s[i]
      BY <1>1 DEF Range
    <3>2. i + 1 \in DOMAIN q /\ 1 \in DOMAIN q /\ i + 1 # 1 /\ x = q[i + 1]
      BY <1>1, <3>1, SMTT(30)
    <3> QED BY <1>1, <1>3, <3>2 DEF Range, IsInjective
  <2>2. ASSUME NEW x \in Range(q) \ {Head(q)} PROVE x \in Range(s)
    <3>1. PICK i \in 1 .. Len(q) : x = q[i]
      BY <1>1 DEF Range
    <3>2. i - 1 \in 1 .. Len(q) - 1 /\ s[i - 1] = x
      BY <1>1, <3>1, SMTT(30)
    <3> QED BY <1>1, <3>2 DEF Range
  <2> QED BY <2>1, <2>2
<1>4. ASSUME IsInjective(q) PROVE IsInjective(s)
  <2>1. ASSUME NEW i \in DOMAIN s, NEW j \in DOMAIN s, s[i] = s[j] PROVE i = j
    <3>1. i + 1 \in DOMAIN q /\ j + 1 \in DOMAIN q /\ q[i + 1] = q[j + 1]
      BY <1>1, <2>1, SMTT(30)
    <3>2. i + 1 = j + 1
      BY <1>4, <3>1 DEF IsInjective
    <3> QED BY <1>1, <3>2, SMTT(30)
  <2> QED BY <2>1 DEF IsInjective
<1> QED BY <1>1, <1>2, <1>3, <1>4 DEF s

\* An empty queue holds nothing, and a queue only what its type allows.
LEMMA QueueSet ==
    /\ Range(<< >>) = {} /\ IsInjective(<< >>) /\ << >> \in Seq(Buffer) /\ Len(<< >>) = 0
    /\ \A q \in Seq(Buffer) : Range(q) \subseteq Buffer
  BY SMTT(30) DEF Range, IsInjective

\* The places, one by one.
Apart(a, b, c, d, e, f) ==
    /\ a \cap b = {} /\ a \cap c = {} /\ a \cap d = {} /\ a \cap e = {} /\ a \cap f = {}
    /\ b \cap c = {} /\ b \cap d = {} /\ b \cap e = {} /\ b \cap f = {}
    /\ c \cap d = {} /\ c \cap e = {} /\ c \cap f = {}
    /\ d \cap e = {} /\ d \cap f = {} /\ e \cap f = {}
    /\ a \cup b \cup c \cup d \cup e \cup f = Buffer

\* Places that are apart and make up all the buffers, as BuffersConserved has
\* them.
LEMMA SixPlaces ==
    ASSUME NEW a, NEW b, NEW c, NEW d, NEW e, NEW f
    PROVE  LET P == <<a, b, c, d, e, f>>
           IN  /\ UNION Range(P) = Buffer
               /\ \A i, j \in DOMAIN P : i # j => P[i] \cap P[j] = {}
               <=> Apart(a, b, c, d, e, f)
<1> DEFINE P == <<a, b, c, d, e, f>>
<1>1. /\ DOMAIN P = 1 .. 6
      /\ P[1] = a /\ P[2] = b /\ P[3] = c /\ P[4] = d /\ P[5] = e /\ P[6] = f
  BY SMTT(30)
<1> HIDE DEF P
<1>2. Range(P) = {a, b, c, d, e, f}
  BY <1>1, SMTT(30) DEF Range
<1>3. UNION Range(P) = a \cup b \cup c \cup d \cup e \cup f
  BY <1>2
<1>4. ASSUME \A i, j \in DOMAIN P : i # j => P[i] \cap P[j] = {},
             UNION Range(P) = Buffer
      PROVE  Apart(a, b, c, d, e, f)
  BY <1>1, <1>3, <1>4, SMTT(30) DEF Apart
<1>5. ASSUME Apart(a, b, c, d, e, f), NEW i \in DOMAIN P, NEW j \in DOMAIN P, i # j
      PROVE  P[i] \cap P[j] = {}
  BY <1>1, <1>5, SMTT(30) DEF Apart
<1>6. Apart(a, b, c, d, e, f) => UNION Range(P) = Buffer
  BY <1>3 DEF Apart
<1> QED BY <1>4, <1>5, <1>6 DEF P

\* BuffersConserved in those terms.
Spread ==
    /\ Apart(pool, destroyed, Range(local_queue), Range(queue), Hand(r_buf), Hand(w_buf))
    /\ IsInjective(local_queue) /\ IsInjective(queue)

\* The two say the same.
LEMMA Conserved == BuffersConserved <=> Spread
  BY SixPlaces DEF BuffersConserved, Places, Spread

-----------------------------------------------------------------------------
(* One lemma for each thread: its steps keep the invariant *)

\* The receiver thread, and the callback it runs.
LEMMA ReceiverKeeps ==
    ASSUME Phases, Spread, (\E b \in Buffer : Receive(b)) \/ Callback
    PROVE  Phases' /\ Spread'
<1> USE BufferAssumption, CapAssumption DEF Phases, Detached
<1> USE DEF Spread, Apart, Hand
<1>1. ASSUME NEW b \in Buffer, Receive(b) PROVE Phases' /\ Spread'
  <2>1. CASE add2Queue # "none"
    BY <1>1, <2>1, SMTT(30) DEF Receive, workVars
  <2>2. CASE add2Queue = "none" /\ ~(Len(local_queue) >= QUEUE_CAP)
    <3>1. local_queue' = Append(local_queue, b) /\ pool' = pool \ {b} /\ b \in pool
      BY <1>1, <2>2, SMTT(30) DEF Receive
    <3> QED BY <1>1, <2>2, <3>1, Pushed, SMTT(30) DEF Receive, recvVars, workVars
  <2>3. CASE add2Queue = "none" /\ Len(local_queue) >= QUEUE_CAP
    <3> DEFINE t == Tail(local_queue)
               h == Head(local_queue)
    <3>1. local_queue' = Append(t, b) /\ pool' = (pool \ {b}) \cup {h} /\ b \in pool
      BY <1>1, <2>3 DEF Receive
    <3>2. /\ h \in Range(local_queue) /\ t \in Seq(Buffer)
          /\ Range(t) = Range(local_queue) \ {h} /\ IsInjective(t)
      BY <2>3, Popped, SMTT(30)
    <3> HIDE DEF t, h
    <3>3. /\ Append(t, b) \in Seq(Buffer) /\ Range(Append(t, b)) = Range(t) \cup {b}
          /\ IsInjective(Append(t, b))
      BY <3>1, <3>2, Pushed
    <3> QED BY <1>1, <2>3, <3>1, <3>2, <3>3, QueueSet, SMTT(30) DEF Receive, recvVars, workVars
  <2> HIDE DEF Phases, Detached, Spread, Apart, Hand
  <2> QED BY <2>1, <2>2, <2>3
<1>2. CASE CheckFlag
  BY <1>2 DEF CheckFlag, ReleaseBurst, FlagUp, workVars
<1>3. CASE TrimQueue
  <2>1. CASE UNCHANGED <<pool, queue>>
    BY <1>3, <2>1 DEF TrimQueue, Stale, workVars
  <2>2. CASE Len(queue) >= QUEUE_CAP - 1 /\ pool' = pool \cup {Head(queue)} /\ queue' = Tail(queue)
    <3>1. queue # << >> /\ d_pc \notin Detached
      BY <1>3, <2>2, SMTT(30)
    <3>2. /\ Head(queue) \in Range(queue) /\ queue' \in Seq(Buffer)
          /\ Range(queue') = Range(queue) \ {Head(queue)} /\ IsInjective(queue')
      BY <2>2, <3>1, Popped
    <3> QED BY <1>3, <2>2, <3>1, <3>2, QueueSet, SMTT(30) DEF TrimQueue, Stale, workVars
  <2> QED BY <1>3, <2>1, <2>2 DEF TrimQueue
<1>4. CASE PushBurst
  <2>1. CASE UNCHANGED queue
    BY <1>4, <2>1, SMTT(30) DEF PushBurst, ReleaseBurst, Stale, workVars
  <2>2. CASE ~Stale /\ queue' = Append(queue, r_buf) /\ r_buf' = NoBuffer /\ r_pc' = "recv" /\ UNCHANGED pool
    <3>1. r_buf \in Buffer /\ r_buf \notin Range(queue)
      BY <1>4 DEF PushBurst
    <3>2. /\ queue' \in Seq(Buffer)
          /\ Range(queue') = Range(queue) \cup {r_buf} /\ IsInjective(queue')
      BY <2>2, <3>1, Pushed
    <3> QED BY <1>4, <2>2, <3>1, <3>2 DEF PushBurst, Stale, workVars
  <2> QED BY <1>4, <2>1, <2>2 DEF PushBurst
<1> QED BY <1>1, <1>2, <1>3, <1>4 DEF Callback

\* The worker: what it pops is in its hand and no longer in the queue.
LEMMA WorkerKeeps ==
    ASSUME Phases, Spread, WorkerThread
    PROVE  Phases' /\ Spread'
<1> USE BufferAssumption DEF Phases, Detached, Spread, Apart, Hand
<1>1. CASE LoopCheck \/ EnterPop \/ PopAborted
  BY <1>1, SMTT(30) DEF LoopCheck, EnterPop, PopAborted, recvVars, workVars
<1>2. CASE PopBurst
  <2>1. /\ Head(queue) \in Range(queue) /\ queue' \in Seq(Buffer)
        /\ Range(queue') = Range(queue) \ {Head(queue)} /\ IsInjective(queue')
    BY <1>2, Popped DEF PopBurst
  <2> QED BY <1>2, <2>1, QueueSet, SMTT(30) DEF PopBurst, recvVars
<1>3. CASE FinishBurst
  BY <1>3 DEF FinishBurst, recvVars
<1> QED BY <1>1, <1>2, <1>3 DEF WorkerThread

\* The caller: the drain moves a queue into the pool, the end of the context
\* what has come since to the destroyed buffers.
LEMMA CallerKeeps ==
    ASSUME Phases, Spread, AttachSource \/ LowerFlag \/ Detach
    PROVE  Phases' /\ Spread'
<1> USE BufferAssumption, QueueSet DEF Phases, Detached, Spread
<1>1. CASE AttachSource
  <2>1. Spread'
    BY <1>1 DEF AttachSource, recvVars
  <2>2. ctx' \in Nat /\ w_buf' = NoBuffer /\ alive' = TRUE /\ d_pc' = "attached"
    BY <1>1, SMTT(30) DEF AttachSource
  <2> QED BY <1>1, <2>1, <2>2 DEF AttachSource, recvVars
<1>2. CASE LowerFlag \/ ReplaceCallback \/ AbortQueue \/ StopRunning
  BY <1>2, SMTT(30) DEF LowerFlag, ReplaceCallback, AbortQueue, StopRunning, recvVars, workVars
<1>3. CASE Drain
  BY <1>3 DEF Drain, recvVars, workVars, Apart
<1>4. CASE Join \/ EraseSource
  BY <1>4, SMTT(30) DEF Join, EraseSource, recvVars, workVars
<1>5. CASE EraseContext
  BY <1>5 DEF EraseContext, recvVars, workVars, Apart
<1> QED BY <1>1, <1>2, <1>3, <1>4, <1>5 DEF Detach

\* The rest touches neither buffers nor the context.
Elsewhere == AttachDestination \/ DetachDestination \/ Start \/ Forget \/ UNCHANGED workerVars

\* So the invariant stays.
LEMMA ElsewhereKeeps ==
    ASSUME Elsewhere
    PROVE  UNCHANGED <<pool, destroyed, local_queue, recvVars, ctx, alive, running_flag, queue, workVars, d_pc>>
  BY DEF Elsewhere, AttachDestination, DetachDestination, Start, StartTest, StartSleep, Forget, workerVars,
         recvVars, workVars

\* Phases and conservation hold in every reachable state.
LEMMA InvAlways == WorkerSpec => [](Phases /\ BuffersConserved)
<1>1. WorkerInit => Phases /\ Spread
  <2> SUFFICES ASSUME WorkerInit PROVE Phases /\ Spread
    OBVIOUS
  <2>1. Phases
    BY QueueSet DEF WorkerInit, Phases, Detached
  <2>2. Spread
    BY QueueSet DEF WorkerInit, Spread, Apart, Hand
  <2> QED BY <2>1, <2>2
<1>2. Phases /\ Spread /\ [WorkerNext]_workerVars => Phases' /\ Spread'
  <2> SUFFICES ASSUME Phases, Spread, [WorkerNext]_workerVars PROVE Phases' /\ Spread'
    OBVIOUS
  <2>1. CASE Elsewhere
    BY <2>1, ElsewhereKeeps, SMTT(30) DEF Phases, Detached, Spread, recvVars, workVars
  <2> QED BY <2>1, ReceiverKeeps, WorkerKeeps, CallerKeeps DEF WorkerNext, Elsewhere
<1>3. WorkerSpec => [](Phases /\ Spread)
  BY <1>1, <1>2, PTL DEF WorkerSpec
<1> QED BY <1>3, Conserved, PTL

\* However the callback, the worker, DetachSource's drain and the end of the
\* context interleave, every IQ buffer stays in exactly one place.
THEOREM BuffersStayConserved == WorkerSpec => []BuffersConserved
  BY InvAlways, PTL

-----------------------------------------------------------------------------
(* What a detach destroys *)

\* The end of a context: at most one burst is left in its queue.
LEMMA EraseLoses ==
    ASSUME Phases, Lossy, EraseContext
    PROVE  Lossy'
<1>1. /\ Cardinality(destroyed) \in Nat /\ Cardinality(destroyed) < ctx /\ ctx \in Nat
      /\ IsFiniteSet(destroyed) /\ Len(queue) <= 1
  BY BufferAssumption, FS_Subset, FS_CardinalityType DEF Phases, Lossy, EraseContext, Detached
<1> DEFINE L == destroyed \cup Range(queue)
<1>2. Cardinality(L) <= Cardinality(destroyed) + 1
  <2>1. CASE queue = << >>
    <3>1. L = destroyed
      BY <2>1, QueueSet
    <3> HIDE DEF L
    <3> QED BY <1>1, <3>1, SMTT(30)
  <2>2. CASE queue # << >>
    <3>0. queue \in Seq(Buffer)
      BY DEF Phases
    <3>1. DOMAIN queue = {1}
      BY <1>1, <2>2, <3>0, SMTT(30)
    <3>2. \E x : L = destroyed \cup {x}
      BY <3>1, SMTT(30) DEF Range
    <3>3. PICK x : L = destroyed \cup {x}
      BY <3>2
    <3> HIDE DEF L
    <3>4. Cardinality(L) = IF x \in destroyed THEN Cardinality(destroyed) ELSE Cardinality(destroyed) + 1
      BY <1>1, <3>3, FS_AddElement
    <3> QED BY <1>1, <3>4, SMTT(30)
  <2> QED BY <2>1, <2>2
<1>3. Cardinality(L) \in Nat
  <2>1. L \subseteq Buffer
    BY QueueSet DEF Phases
  <2> HIDE DEF L
  <2> QED BY <2>1, BufferAssumption, FS_Subset, FS_CardinalityType
<1>4. Cardinality(destroyed') <= ctx' /\ d_pc' = "erased"
  BY <1>1, <1>2, <1>3, SMTT(30) DEF EraseContext
<1> QED BY <1>4 DEF Lossy, Detached

\* Every other step: a burst gets into the queue of a context after the drain
\* only from a callback that had found the flag up.
LEMMA LossyKept ==
    ASSUME Phases, Lossy, [WorkerNext]_workerVars, ~EraseContext
    PROVE  Lossy'
<1> USE CapAssumption DEF Phases, Detached
<1>1. Cardinality(destroyed) \in Nat
  BY BufferAssumption, FS_Subset, FS_CardinalityType
<1>2. CASE Elsewhere
  BY <1>2, ElsewhereKeeps DEF Lossy, recvVars
<1>3. ASSUME NEW b \in Buffer, Receive(b) PROVE Lossy'
  BY <1>3 DEF Lossy, Receive, recvVars
<1>4. CASE CheckFlag
  BY <1>4 DEF Lossy, CheckFlag, FlagUp, ReleaseBurst
<1>5. CASE TrimQueue
  <2>1. CASE UNCHANGED queue
    BY <1>5, <2>1 DEF Lossy, TrimQueue
  <2>2. CASE Len(queue) >= QUEUE_CAP - 1
    <3>1. d_pc \notin {"drained", "joined"}
      BY <1>5, <2>2, QueueSet, SMTT(30) DEF Lossy, TrimQueue
    <3> QED BY <1>5, <3>1 DEF Lossy, TrimQueue
  <2> QED BY <1>5, <2>1, <2>2 DEF TrimQueue
<1>6. CASE PushBurst
  <2>1. CASE UNCHANGED queue
    BY <1>6, <2>1 DEF Lossy, PushBurst, ReleaseBurst
  <2>2. CASE queue' = Append(queue, r_buf) /\ r_pc' = "recv"
    <3>1. d_pc \in {"drained", "joined"} => Len(queue') <= 1
      BY <1>6, <2>2, SMTT(30) DEF Lossy, PushBurst
    <3> QED BY <1>6, <2>2, <3>1 DEF Lossy, PushBurst
  <2> QED BY <1>6, <2>1, <2>2 DEF PushBurst
<1>7. CASE LoopCheck \/ EnterPop \/ PopAborted \/ FinishBurst
  BY <1>7 DEF Lossy, LoopCheck, EnterPop, PopAborted, FinishBurst, recvVars
<1>8. CASE PopBurst
  <2>1. Len(queue') = Len(queue) - 1 /\ Len(queue) \in Nat /\ queue # << >>
    BY <1>8, Popped, SMTT(30) DEF PopBurst
  <2> QED BY <1>8, <2>1, SMTT(30) DEF Lossy, PopBurst, recvVars
<1>9. CASE AttachSource
  BY <1>1, <1>9, QueueSet, SMTT(30) DEF Lossy, AttachSource
<1>10. CASE LowerFlag \/ ReplaceCallback \/ AbortQueue \/ StopRunning \/ Join \/ EraseSource
  BY <1>10 DEF Lossy, LowerFlag, ReplaceCallback, AbortQueue, StopRunning, Join, EraseSource, recvVars
<1>11. CASE Drain
  BY <1>11, QueueSet, SMTT(30) DEF Lossy, Drain
<1> QED BY <1>2, <1>3, <1>4, <1>5, <1>6, <1>7, <1>8, <1>9, <1>10, <1>11
        DEF WorkerNext, Callback, WorkerThread, Detach, Elsewhere

\* DetachSource destroys at most one buffer with each context: only a callback
\* that had read running_flag before it was lowered can still push, and the
\* receiver is inside one callback at a time.
THEOREM LossStaysBounded == WorkerSpec => []LossBounded
<1>1. WorkerInit => Lossy
  BY FS_EmptySet, SMTT(30) DEF WorkerInit, Lossy, Detached
<1>2. Phases /\ Lossy /\ [WorkerNext]_workerVars => Lossy'
  BY EraseLoses, LossyKept
<1>3. Lossy => LossBounded
  BY DEF Lossy, LossBounded
<1> QED BY <1>1, <1>2, <1>3, InvAlways, PTL DEF WorkerSpec

-----------------------------------------------------------------------------
(* The Sionna extension: its state *)

\* The order of the devices of each role.
Orders == [Role -> Seq(Node)]
AnyPosition == Position \cup {NoPosition}

\* The steps of the poll thread with their locals.
ThreadType ==
    th \in [at : {"off", "create", "post", "head", "links", "paths", "cir", "end"}]
           \cup [at : {"sync"}, n : Node]
           \cup [at : Role, n : Node, pos : AnyPosition]
           \cup [at : {"apply", "flag"}, rx : Nat \ {0}, tx : Nat \ {0}, matrix : Orders]

\* The orders of both ends and the positions.
DataType ==
    /\ m_order \in Orders
    /\ scene \in [up : BOOLEAN, order : Orders, traced : Orders,
                  pos : [Role -> [Node -> AnyPosition]]]
    /\ location \in [Node -> AnyPosition]

\* A channel is a record of its taps and its mark.
ChannelType ==
    /\ channels = [l \in DOMAIN channels |-> channels[l]]
    /\ \A l \in DOMAIN channels :
           channels[l] = [taps |-> channels[l].taps, sionna |-> channels[l].sionna]

\* The types of the extension.
TypeInv == ThreadType /\ DataType /\ ChannelType

\* An extension that is stopped has no thread and leaves no mark.
Stopped ==
    ~m_running /\ ~joining => th.at = "off" /\ \A l \in DOMAIN channels : ~channels[l].sionna

\* A link about to be marked has its taps, unless it went away.
Tapped ==
    /\ BypassHasTaps
    /\ ~recreated /\ th.at = "flag" =>
           Pair \in DOMAIN channels /\ channels[Pair].taps # NoTaps

\* s is the beginning of t.
Begins(s, t) == Len(s) <= Len(t) /\ \A i \in 1 .. Len(s) : s[i] = t[i]

\* The poll thread has a scene.
InScene == th.at \notin {"off", "create", "post", "end"}

\* Client and server number the devices alike, as long as every answer to a
\* registration arrived; a restarted server has nothing until it has a scene.
Counted ==
    /\ th.at \in {"off", "create", "post"} => m_order = NoOrder
    /\ ~scene.up => scene.traced = NoOrder
    /\ ~lost /\ InScene /\ scene.up =>
           scene.order = m_order /\ \A r \in Role : Begins(scene.traced[r], m_order[r])
    /\ ~lost /\ th.at \in {"apply", "flag"} =>
           \A r \in Role : Begins(th.matrix[r], m_order[r])

-----------------------------------------------------------------------------
(* Types *)

\* Two sequences for each role, empty at first.
LEMMA NoOrderType == NoOrder \in Orders
  BY SMTT(30) DEF NoOrder, Orders, Role

\* A scene without devices.
LEMMA NoSceneType ==
    NoScene \in [up : BOOLEAN, order : Orders, traced : Orders,
                 pos : [Role -> [Node -> AnyPosition]]]
  BY NoOrderType DEF NoScene, AnyPosition

\* What the server makes of a request is a scene.
LEMMA ServedType ==
    ASSUME DataType, NEW r \in Role, NEW n \in Node, NEW p \in AnyPosition
    PROVE  Served(r, n, p) \in [up : BOOLEAN, order : Orders, traced : Orders,
                                pos : [Role -> [Node -> AnyPosition]]]
<1> DEFINE order == [scene.order EXCEPT ![r] = IF n \in Range(@) THEN @ ELSE Append(@, n)]
           pos == [scene.pos EXCEPT ![r][n] = p]
<1>1. order \in Orders
  BY SMTT(30) DEF DataType, Orders
<1>2. pos \in [Role -> [Node -> AnyPosition]]
  BY DEF DataType
<1>3. \/ Served(r, n, p) = scene
      \/ Served(r, n, p) = [up |-> scene.up, order |-> order, traced |-> scene.traced, pos |-> pos]
  BY DEF DataType, Served
<1> HIDE DEF order, pos
<1> QED BY <1>1, <1>2, <1>3, SMTT(30) DEF DataType

\* Registering a device extends the order of its role.
LEMMA EnrolType ==
    ASSUME DataType, NEW r \in Role, NEW n \in Node
    PROVE  Enrol(r, n) \in Orders
  BY SMTT(30) DEF DataType, Enrol, Orders

\* The next pair is one of the matrix, or none.
LEMMA NextPairType ==
    ASSUME ThreadType, th.at \in {"apply", "flag"}
    PROVE  /\ NextPair \in [at : {"head"}]
                 \cup [at : {"apply"}, rx : Nat \ {0}, tx : Nat \ {0}, matrix : Orders]
           /\ NextPair.at = "apply" => NextPair.matrix = th.matrix
<1>1. th \in [at : {"apply", "flag"}, rx : Nat \ {0}, tx : Nat \ {0}, matrix : Orders]
  BY DEF ThreadType, Role
<1>2. th.tx + 1 \in Nat \ {0} /\ th.rx + 1 \in Nat \ {0}
  BY <1>1, SMTT(30)
<1> QED BY <1>1, <1>2, SMTT(30) DEF NextPair, AtEntry, At

\* After a request comes the other role, the next node or the links.
LEMMA AfterSendType ==
    ASSUME SionnaAssumption, ThreadType, th.at \in Role, AfterSend
    PROVE  /\ ThreadType' /\ th'.at \in {"rx", "sync", "links"}
           /\ th.n \in Node /\ th.pos \in AnyPosition
<1>1. th \in [at : Role, n : Node, pos : AnyPosition]
  BY DEF ThreadType, Role
<1>2. CASE th.at = "tx"
  <2>1. th' = [th EXCEPT !.at = "rx"]
    BY <1>2 DEF AfterSend
  <2>2. th' \in [at : Role, n : Node, pos : AnyPosition] /\ th'.at = "rx"
    BY <1>1, <2>1 DEF Role
  <2> QED BY <1>1, <2>2 DEF ThreadType
<1>3. CASE th.at = "rx"
  <2>1. th' = IF th.n < NumNodes THEN [at |-> "sync", n |-> th.n + 1] ELSE At("links")
    BY <1>3 DEF AfterSend
  <2>2. th.n < NumNodes => th.n + 1 \in Node
    BY <1>1, SMTT(30) DEF Node, SionnaAssumption
  <2>3. th' \in [at : {"sync"}, n : Node] \/ th' \in [at : {"links"}]
    BY <2>1, <2>2 DEF At
  <2> QED BY <1>1, <2>3 DEF ThreadType
<1> QED BY <1>2, <1>3 DEF Role

\* The steps of the poll thread keep the types.
LEMMA TypeThread == ASSUME TypeInv, Local \/ Requests PROVE TypeInv'
<1> USE SionnaAssumption
<1>1. CASE pollLoop
  <2>1. th' \in [at : {"post", "end"}] \/ th' \in [at : {"sync"}, n : Node]
    BY <1>1, SMTT(30) DEF pollLoop, At, Node
  <2>2. ThreadType'
    BY <2>1 DEF ThreadType
  <2> QED BY <1>1, <2>2 DEF pollLoop, TypeInv, DataType, ChannelType, client
<1>2. CASE syncPositions
  <2>1. th \in [at : {"sync"}, n : Node]
    BY <1>2 DEF syncPositions, TypeInv, ThreadType, Role
  <2>2. th.n < NumNodes => th.n + 1 \in Node
    BY <2>1, SMTT(30) DEF Node
  <2>3. location[th.n] \in AnyPosition
    BY <2>1 DEF TypeInv, DataType
  <2>4. \/ th' \in [at : {"tx"}, n : Node, pos : AnyPosition]
        \/ th' \in [at : {"sync"}, n : Node] \/ th' \in [at : {"links"}]
    BY <1>2, <2>1, <2>2, <2>3 DEF syncPositions, At
  <2>5. ThreadType'
    BY <2>4 DEF ThreadType, Role
  <2> QED BY <1>2, <2>5 DEF syncPositions, TypeInv, DataType, ChannelType, client
<1>3. CASE HasLinks \/ NoCIR
  <2>1. th' \in [at : {"head", "paths"}]
    BY <1>3, SMTT(30) DEF HasLinks, NoCIR, At
  <2>2. ThreadType'
    BY <2>1 DEF ThreadType
  <2> QED BY <1>3, <2>2 DEF HasLinks, NoCIR, TypeInv, DataType, ChannelType, client
<1>4. CASE updateCIR
  <2>1. th \in [at : {"apply", "flag"}, rx : Nat \ {0}, tx : Nat \ {0}, matrix : Orders]
    BY <1>4 DEF updateCIR, TypeInv, ThreadType, Role
  <2>2. th' = [th EXCEPT !.at = "flag"] \/ th' = NextPair
    BY <1>4 DEF updateCIR
  <2>3. ThreadType'
    BY <1>4, <2>1, <2>2, NextPairType DEF updateCIR, TypeInv, ThreadType
  <2>4. ChannelType'
    BY <1>4 DEF updateCIR, TypeInv, ChannelType
  <2> QED BY <1>4, <2>3, <2>4 DEF updateCIR, TypeInv, DataType, client
<1>5. CASE setActiveExtension
  <2>1. ThreadType'
    BY <1>5, NextPairType DEF setActiveExtension, TypeInv, ThreadType
  <2>2. ChannelType'
    BY <1>5 DEF setActiveExtension, TypeInv, ChannelType
  <2> QED BY <1>5, <2>1, <2>2 DEF setActiveExtension, TypeInv, DataType, client
<1>6. CASE createScene
  <2>1. th' \in [at : {"head"}]
    BY <1>6 DEF createScene, At
  <2>2. ThreadType'
    BY <2>1 DEF ThreadType
  <2>3. DataType'
    BY <1>6, NoSceneType DEF createScene, TypeInv, DataType
  <2> QED BY <1>6, <2>2, <2>3 DEF createScene, TypeInv, ChannelType
<1>7. CASE createScene_Fails
  <2>1. th' \in [at : {"create"}]
    BY <1>7 DEF createScene_Fails, At
  <2>2. ThreadType'
    BY <2>1 DEF ThreadType
  <2> QED BY <1>7, <2>2 DEF createScene_Fails, TypeInv, DataType, ChannelType, client
<1>8. CASE Send
  <2>1. ThreadType' /\ th.n \in Node /\ th.pos \in AnyPosition
    BY <1>8, AfterSendType DEF Send, TypeInv
  <2>2. DataType'
    BY <1>8, <2>1, ServedType, EnrolType DEF Send, TypeInv, DataType
  <2> QED BY <1>8, <2>1, <2>2 DEF Send, TypeInv, ChannelType
<1>9. ASSUME NEW reached \in BOOLEAN, SendFails(reached) PROVE TypeInv'
  <2>1. ThreadType' /\ th.n \in Node /\ th.pos \in AnyPosition
    BY <1>9, AfterSendType DEF SendFails, TypeInv
  <2>2. DataType'
    BY <1>9, <2>1, ServedType DEF SendFails, TypeInv, DataType
  <2> QED BY <1>9, <2>1, <2>2 DEF SendFails, TypeInv, ChannelType
<1>10. ASSUME NEW traces \in BOOLEAN, ComputePaths(traces) PROVE TypeInv'
  <2>1. th' \in [at : {"cir"}]
    BY <1>10 DEF ComputePaths, At
  <2>2. ThreadType'
    BY <2>1 DEF ThreadType
  <2>3. DataType'
    BY <1>10 DEF ComputePaths, TypeInv, DataType, client
  <2> QED BY <1>10, <2>2, <2>3 DEF ComputePaths, TypeInv, ChannelType
<1>11. CASE FetchCIR
  <2>1. th' \in [at : {"apply"}, rx : Nat \ {0}, tx : Nat \ {0}, matrix : Orders]
    BY <1>11, SMTT(30) DEF FetchCIR, AtEntry, TypeInv, DataType
  <2>2. ThreadType'
    BY <2>1 DEF ThreadType
  <2> QED BY <1>11, <2>2 DEF FetchCIR, TypeInv, DataType, ChannelType, client
<1> QED BY <1>1, <1>2, <1>3, <1>4, <1>5, <1>6, <1>7, <1>8, <1>9, <1>10, <1>11 DEF Local, Requests

\* Commands, links, positions and the server's restart that are not of the thread.
Others ==
    \/ onStart \/ onStop \/ onStop_Joined
    \/ \E l \in Link : AddLink(l) \/ RemoveLink(l)
    \/ \E n \in Node, p \in Position : setLocation(n, p)
    \/ ServerRestart

\* So do commands, links that come and go, moves and restarts.
LEMMA TypeOthers == ASSUME TypeInv, Others PROVE TypeInv'
<1>1. CASE onStart
  <2>1. th' \in [at : {"create"}]
    BY <1>1 DEF onStart, At
  <2> QED BY <1>1, <2>1, SMTT(30) DEF onStart, TypeInv, ThreadType, DataType, ChannelType
<1>2. CASE onStop
  BY <1>2 DEF onStop, TypeInv, ThreadType, DataType, ChannelType
<1>3. CASE onStop_Joined
  <2>1. th' \in [at : {"off"}]
    BY <1>3 DEF onStop_Joined, At
  <2>2. ChannelType'
    BY <1>3 DEF onStop_Joined, clearExtensionFlags, TypeInv, ChannelType
  <2> QED BY <1>3, <2>1, <2>2, NoOrderType DEF onStop_Joined, TypeInv, ThreadType, DataType
<1>4. ASSUME NEW l \in Link, AddLink(l) \/ RemoveLink(l) PROVE TypeInv'
  <2>1. ChannelType'
    BY <1>4, SMTT(30) DEF AddLink, RemoveLink, TypeInv, ChannelType
  <2> QED BY <1>4, <2>1 DEF AddLink, RemoveLink, TypeInv, ThreadType, DataType, client
<1>5. ASSUME NEW n \in Node, NEW p \in Position, setLocation(n, p) PROVE TypeInv'
  BY <1>5, SMTT(30) DEF setLocation, TypeInv, ThreadType, DataType, ChannelType, client, AnyPosition
<1>6. CASE ServerRestart
  BY <1>6, NoSceneType DEF ServerRestart, TypeInv, ThreadType, DataType, ChannelType, client
<1> QED BY <1>1, <1>2, <1>3, <1>4, <1>5, <1>6 DEF Others

\* Every reachable state of the extension is well typed.
LEMMA TypesHold == Spec => []TypeInv
<1>1. Init => TypeInv
  <2> SUFFICES ASSUME Init PROVE TypeInv
    OBVIOUS
  <2>1. th \in [at : {"off"}]
    BY DEF Init, At
  <2>2. ChannelType
    BY SMTT(30) DEF Init, ChannelType
  <2>3. DataType
    BY NoOrderType, NoSceneType DEF Init, DataType, AnyPosition
  <2> QED BY <2>1, <2>2, <2>3 DEF TypeInv, ThreadType
<1>2. TypeInv /\ [Next]_vars => TypeInv'
  <2> SUFFICES ASSUME TypeInv, [Next]_vars PROVE TypeInv'
    OBVIOUS
  <2>1. CASE UNCHANGED vars
    BY <2>1 DEF vars, client, TypeInv, ThreadType, DataType, ChannelType
  <2> QED BY <2>1, TypeThread, TypeOthers DEF Next, Others
<1> QED BY <1>1, <1>2, PTL DEF Spec

-----------------------------------------------------------------------------
(* After a stop *)

\* The poll thread runs only between onStart and the join in onStop, and leaves
\* m_running and the joining command alone.
LEMMA ThreadAlive ==
    ASSUME TypeInv, Local \/ Requests
    PROVE  th.at # "off" /\ UNCHANGED <<m_running, joining>>
<1>1. CASE Local
  BY <1>1 DEF Local, pollLoop, syncPositions, HasLinks, updateCIR, setActiveExtension, client
<1>2. CASE Requests
  BY <1>2 DEF Requests, createScene, createScene_Fails, Send, SendFails, ComputePaths, FetchCIR,
              NoCIR, client, Role
<1> QED BY <1>1, <1>2

\* A stopped extension has no thread and no marks.
LEMMA StoppedHolds == Spec => []Stopped
<1>1. Init => Stopped
  BY SMTT(30) DEF Init, Stopped, At
<1>2. TypeInv /\ Stopped /\ [Next]_vars => Stopped'
  <2> SUFFICES ASSUME TypeInv, Stopped, [Next]_vars PROVE Stopped'
    OBVIOUS
  <2>1. CASE Local \/ Requests
    BY <2>1, ThreadAlive DEF Stopped
  <2>2. CASE onStart \/ onStop
    BY <2>2 DEF onStart, onStop, Stopped
  <2>3. CASE onStop_Joined
    <3>1. th'.at = "off"
      BY <2>3 DEF onStop_Joined, At
    <3>2. \A l \in DOMAIN channels' : ~channels'[l].sionna
      BY <2>3, SMTT(30) DEF onStop_Joined, clearExtensionFlags, TypeInv, ChannelType
    <3> QED BY <3>1, <3>2 DEF Stopped
  <2>4. ASSUME NEW l \in Link, AddLink(l) \/ RemoveLink(l) PROVE Stopped'
    BY <2>4, SMTT(30) DEF AddLink, RemoveLink, Stopped, client
  <2>5. CASE (\E n \in Node, p \in Position : setLocation(n, p)) \/ ServerRestart \/ UNCHANGED vars
    BY <2>5 DEF setLocation, ServerRestart, vars, client, Stopped
  <2> QED BY <2>1, <2>2, <2>3, <2>4, <2>5 DEF Next
<1> QED BY <1>1, <1>2, TypesHold, PTL DEF Spec

\* Once onStop has returned, no link is marked as driven by the extension,
\* wherever the thread was when it was told to stop.
THEOREM StaysUnmarked == Spec => []StoppedUnmarked
<1>1. Stopped => StoppedUnmarked
  BY DEF Stopped, StoppedUnmarked
<1> QED BY <1>1, StoppedHolds, PTL

-----------------------------------------------------------------------------
(* Marks and taps *)

\* A thread that is not at a mark does not come to one but by updateCIR.
LEMMA FlagByUpdate ==
    ASSUME TypeInv, Local \/ Requests, ~updateCIR, ~setActiveExtension
    PROVE  th'.at # "flag" /\ UNCHANGED <<channels, recreated>>
<1> USE SionnaAssumption
<1>1. CASE Send \/ \E reached \in BOOLEAN : SendFails(reached)
  BY <1>1, AfterSendType DEF Send, SendFails, TypeInv, history
<1>2. CASE pollLoop \/ syncPositions \/ HasLinks
  BY <1>2, SMTT(30) DEF pollLoop, syncPositions, HasLinks, At, history
<1>3. CASE \/ createScene \/ createScene_Fails \/ FetchCIR \/ NoCIR
           \/ \E traces \in BOOLEAN : ComputePaths(traces)
  BY <1>3, SMTT(30) DEF createScene, createScene_Fails, FetchCIR, NoCIR, ComputePaths, At, AtEntry, history
<1> QED BY <1>1, <1>2, <1>3 DEF Local, Requests

\* updateCIR gives the pair its taps before the thread goes on to mark it.
LEMMA UpdateTaps ==
    ASSUME TypeInv, Tapped, updateCIR
    PROVE  Tapped'
<1>1. th \in [at : {"apply", "flag"}, rx : Nat \ {0}, tx : Nat \ {0}, matrix : Orders]
  BY DEF updateCIR, TypeInv, ThreadType, Role
<1>2. ASSUME Pair \in DOMAIN channels, th' = [th EXCEPT !.at = "flag"],
             channels' = [channels EXCEPT ![Pair].taps =
                             <<th.matrix["tx"][th.tx], th.matrix["rx"][th.rx]>>]
      PROVE  Tapped'
  <2> DEFINE new == <<th.matrix["tx"][th.tx], th.matrix["rx"][th.rx]>>
  <2>1. new # NoTaps
    BY DEF NoTaps
  <2> HIDE DEF new
  <2>2. Pair' = Pair
    BY <1>1, <1>2 DEF Pair, updateCIR, client
  <2>3. /\ DOMAIN channels' = DOMAIN channels /\ channels'[Pair].taps = new
        /\ \A l \in DOMAIN channels : channels'[l].sionna = channels[l].sionna
        /\ \A l \in DOMAIN channels \ {Pair} : channels'[l] = channels[l]
    BY <1>2, SMTT(30) DEF TypeInv, ChannelType, new
  <2>4. BypassHasTaps'
    BY <2>1, <2>3 DEF Tapped, BypassHasTaps, updateCIR, history
  <2> QED BY <1>2, <2>1, <2>2, <2>3, <2>4 DEF Tapped
<1>3. CASE th' = NextPair /\ UNCHANGED channels
  <2>1. th'.at # "flag"
    BY <1>3, NextPairType DEF updateCIR, TypeInv
  <2> QED BY <1>3, <2>1 DEF updateCIR, Tapped, BypassHasTaps, history
<1> QED BY <1>2, <1>3 DEF updateCIR

\* A link that bypasses the statistical path loss has taps, unless a link was
\* removed between updateCIR and setActiveExtension.
THEOREM BypassKeepsTaps == Spec => []BypassHasTaps
<1>1. Init => Tapped
  BY SMTT(30) DEF Init, Tapped, BypassHasTaps, At
<1>2. TypeInv /\ Tapped /\ [Next]_vars => Tapped'
  <2> SUFFICES ASSUME TypeInv, Tapped, [Next]_vars PROVE Tapped'
    OBVIOUS
  <2>1. CASE (Local \/ Requests) /\ ~updateCIR /\ ~setActiveExtension
    BY <2>1, FlagByUpdate DEF Tapped, BypassHasTaps
  <2>2. CASE updateCIR
    BY <2>2, UpdateTaps
  <2>3. CASE setActiveExtension
    <3>1. th'.at # "flag"
      BY <2>3, NextPairType DEF setActiveExtension, TypeInv
    <3>2. /\ DOMAIN channels' = DOMAIN channels
          /\ \A l \in DOMAIN channels : channels'[l].taps = channels[l].taps
          /\ \A l \in DOMAIN channels : l # Pair => channels'[l] = channels[l]
      BY <2>3, SMTT(30) DEF setActiveExtension, TypeInv, ChannelType
    <3> QED BY <2>3, <3>1, <3>2 DEF setActiveExtension, Tapped, BypassHasTaps, history
  <2>4. CASE onStart \/ onStop \/ onStop_Joined
    <3>1. CASE onStart
      BY <3>1 DEF onStart, Tapped, BypassHasTaps, At, history
    <3>2. CASE onStop
      BY <3>2 DEF onStop, Tapped, BypassHasTaps, Pair, history
    <3>3. CASE onStop_Joined
      <4>1. /\ DOMAIN channels' = DOMAIN channels
            /\ \A l \in DOMAIN channels' : ~channels'[l].sionna
        BY <3>3, SMTT(30) DEF onStop_Joined, clearExtensionFlags, TypeInv, ChannelType
      <4>2. th'.at # "flag"
        BY <3>3 DEF onStop_Joined, At
      <4> QED BY <4>1, <4>2 DEF Tapped, BypassHasTaps
    <3> QED BY <2>4, <3>1, <3>2, <3>3
  <2>5. ASSUME NEW l \in Link, AddLink(l) PROVE Tapped'
    BY <2>5 DEF AddLink, Tapped, BypassHasTaps, Pair, client, history
  <2>6. ASSUME NEW l \in Link, RemoveLink(l) PROVE Tapped'
    BY <2>6 DEF RemoveLink, Tapped, BypassHasTaps, Pair, client
  <2>7. CASE (\E n \in Node, p \in Position : setLocation(n, p)) \/ ServerRestart \/ UNCHANGED vars
    BY <2>7 DEF setLocation, ServerRestart, vars, client, history, Tapped, BypassHasTaps, Pair
  <2> QED BY <2>1, <2>2, <2>3, <2>4, <2>5, <2>6, <2>7 DEF Next
<1>3. Tapped => BypassHasTaps
  BY DEF Tapped
<1> QED BY <1>1, <1>2, <1>3, TypesHold, PTL DEF Spec

-----------------------------------------------------------------------------
(* Taps and their links *)

\* A sequence begins with itself, with the empty one, and still begins with what
\* it began with when an element is added.
LEMMA BeginsFacts ==
    ASSUME NEW s \in Seq(Node), NEW t \in Seq(Node), NEW n \in Node
    PROVE  /\ Begins(s, s) /\ Begins(<< >>, s)
           /\ Begins(s, t) => Begins(s, Append(t, n))
  BY SMTT(30) DEF Begins

\* Client and server put a device they both do not know at the same place.
LEMMA ServedOrder ==
    ASSUME DataType, NEW r \in Role, NEW n \in Node, NEW p \in AnyPosition
    PROVE  /\ Served(r, n, p).up = scene.up /\ Served(r, n, p).traced = scene.traced
           /\ scene.up /\ scene.order = m_order => Served(r, n, p).order = Enrol(r, n)
<1> DEFINE order == [scene.order EXCEPT ![r] = IF n \in Range(@) THEN @ ELSE Append(@, n)]
           pos == [scene.pos EXCEPT ![r][n] = p]
<1>1. \/ Served(r, n, p) = scene
      \/ Served(r, n, p) = [up |-> scene.up, order |-> order, traced |-> scene.traced, pos |-> pos]
  BY DEF DataType, Served
<1>2. scene.up /\ scene.order = m_order =>
        Served(r, n, p) = [up |-> scene.up, order |-> order, traced |-> scene.traced, pos |-> pos]
  BY DEF DataType, Served, Registered
<1>3. scene.order = m_order => order = Enrol(r, n)
  BY DEF DataType, Enrol, Registered, Orders
<1> HIDE DEF order, pos
<1> QED BY <1>1, <1>2, <1>3, SMTT(30)

\* Registering a device leaves the beginning of the order as it was.
LEMMA EnrolBegins ==
    ASSUME DataType, NEW r \in Role, NEW n \in Node, NEW q \in Role, NEW s \in Seq(Node),
           Begins(s, m_order[q])
    PROVE  Begins(s, Enrol(r, n)[q])
<1>1. m_order[q] \in Seq(Node)
  BY DEF DataType, Orders
<1>2. Enrol(r, n)[q] = m_order[q] \/ Enrol(r, n)[q] = Append(m_order[q], n)
  BY DEF DataType, Enrol, Orders
<1> QED BY <1>1, <1>2, BeginsFacts

\* Registrations and updates keep the two counts alike.
LEMMA CountedSend ==
    ASSUME TypeInv, Counted, Send \/ \E reached \in BOOLEAN : SendFails(reached)
    PROVE  Counted'
<1> USE SionnaAssumption
<1>1. /\ th.at \in Role /\ th.n \in Node /\ th.pos \in AnyPosition
      /\ th'.at \in {"rx", "sync", "links"}
  BY AfterSendType DEF Send, SendFails, TypeInv
<1>2. InScene
  BY <1>1 DEF InScene, Role
<1>3. CASE Send
  <2>1. scene' = Served(th.at, th.n, th.pos) /\ m_order' = Enrol(th.at, th.n) /\ lost' = lost
    BY <1>3 DEF Send, history
  <2>2. scene'.up = scene.up /\ scene'.traced = scene.traced
    BY <1>1, <2>1, ServedOrder DEF TypeInv
  <2>3. ASSUME ~lost, scene.up
        PROVE  scene'.order = m_order' /\ \A r \in Role : Begins(scene'.traced[r], m_order'[r])
    <3>1. scene'.order = m_order'
      BY <1>1, <1>2, <2>1, <2>3, ServedOrder DEF TypeInv, Counted
    <3>2. ASSUME NEW q \in Role PROVE Begins(scene'.traced[q], m_order'[q])
      <4>1. scene.traced[q] \in Seq(Node) /\ Begins(scene.traced[q], m_order[q])
        BY <1>2, <2>3 DEF Counted, TypeInv, DataType, Orders
      <4> QED BY <1>1, <2>1, <2>2, <4>1, EnrolBegins DEF TypeInv
    <3> QED BY <3>1, <3>2
  <2> QED BY <1>1, <2>1, <2>2, <2>3 DEF Counted
<1>4. ASSUME NEW reached \in BOOLEAN, SendFails(reached) PROVE Counted'
  <2>1. /\ scene' = IF reached THEN Served(th.at, th.n, th.pos) ELSE scene
        /\ m_order' = m_order
        /\ lost' = (lost \/ (reached /\ ~Registered(th.at, th.n)))
    BY <1>4 DEF SendFails
  <2>2. scene'.up = scene.up /\ scene'.traced = scene.traced
    BY <1>1, <2>1, ServedOrder DEF TypeInv
  <2>3. ASSUME ~lost', scene.up
        PROVE  scene'.order = m_order
    <3>1. scene.order = m_order
      BY <1>2, <2>1, <2>3 DEF Counted
    <3>2. CASE ~reached
      BY <2>1, <3>1, <3>2
    <3>3. CASE reached
      <4>1. Enrol(th.at, th.n) = m_order
        BY <2>1, <2>3, <3>3 DEF Enrol
      <4> QED BY <1>1, <2>1, <2>3, <3>1, <3>3, <4>1, ServedOrder DEF TypeInv
    <3> QED BY <3>2, <3>3
  <2> QED BY <1>1, <1>2, <2>1, <2>2, <2>3 DEF Counted
<1> QED BY <1>3, <1>4

\* The matrix the client fetches begins its own order of the devices.
LEMMA CountedFetch ==
    ASSUME TypeInv, Counted, FetchCIR \/ \E traces \in BOOLEAN : ComputePaths(traces)
    PROVE  Counted'
<1>1. InScene
  BY DEF FetchCIR, ComputePaths, InScene
<1>2. CASE FetchCIR
  <2>1. /\ th'.at = "apply" /\ th'.matrix = scene.traced
        /\ UNCHANGED <<scene, m_order, lost>> /\ scene.traced # NoOrder
    BY <1>2 DEF FetchCIR, AtEntry, client, history
  <2>2. scene.up
    BY <2>1 DEF Counted
  <2> QED BY <1>1, <2>1, <2>2 DEF Counted, InScene
<1>3. ASSUME NEW traces \in BOOLEAN, ComputePaths(traces) PROVE Counted'
  <2>1. /\ th'.at = "cir" /\ UNCHANGED <<m_order, lost>>
        /\ scene' = IF traces THEN [scene EXCEPT !.traced = scene.order] ELSE scene
        /\ traces => scene.up
    BY <1>3 DEF ComputePaths, At, client, history
  <2>2. /\ scene'.up = scene.up /\ scene'.order = scene.order
        /\ scene'.traced = IF traces THEN scene.order ELSE scene.traced
    BY <2>1 DEF TypeInv, DataType
  <2>3. \A r \in Role : m_order[r] \in Seq(Node)
    BY DEF TypeInv, DataType, Orders
  <2>4. \A r \in Role : Begins(m_order[r], m_order[r])
    BY <2>3, SMTT(30) DEF Begins
  <2> QED BY <1>1, <2>1, <2>2, <2>4 DEF Counted
<1> QED BY <1>2, <1>3

\* A thread that creates its scene starts with nothing on either side.
LEMMA CountedCreate ==
    ASSUME TypeInv, Counted, createScene
    PROVE  Counted'
<1>1. /\ th'.at = "head" /\ m_order = NoOrder /\ m_order' = m_order
      /\ scene' = [NoScene EXCEPT !.up = TRUE]
  BY DEF createScene, Counted, At
<1>2. scene'.up /\ scene'.order = NoOrder /\ scene'.traced = NoOrder
  BY <1>1 DEF NoScene
<1>3. \A r \in Role : Begins(NoOrder[r], NoOrder[r])
  BY SMTT(30) DEF NoOrder, Begins
<1> QED BY <1>1, <1>2, <1>3 DEF Counted

\* The other steps of the thread count nothing.
LEMMA CountedThread == ASSUME TypeInv, Counted, Local \/ Requests PROVE Counted'
<1>1. CASE pollLoop
  BY <1>1, SMTT(30) DEF pollLoop, Counted, InScene, At, client, history
<1>2. CASE syncPositions \/ HasLinks \/ NoCIR \/ createScene_Fails
  <2>1. UNCHANGED <<m_order, scene, lost>>
    BY <1>2 DEF syncPositions, HasLinks, NoCIR, createScene_Fails, client, history
  <2>2. \/ th.at = "post" /\ th'.at = "create"
        \/ th.at \in {"sync", "links", "paths", "cir"}
           /\ th'.at \in {"tx", "sync", "links", "head", "paths"}
    <3>1. CASE syncPositions
      BY <3>1 DEF syncPositions, At
    <3>2. CASE HasLinks
      BY <3>2 DEF HasLinks, At
    <3>3. CASE NoCIR \/ createScene_Fails
      BY <3>3, SMTT(30) DEF NoCIR, createScene_Fails, At
    <3> QED BY <1>2, <3>1, <3>2, <3>3
  <2> QED BY <2>1, <2>2 DEF Counted, InScene
<1>3. CASE updateCIR \/ setActiveExtension
  <2>1. th \in [at : {"apply", "flag"}, rx : Nat \ {0}, tx : Nat \ {0}, matrix : Orders]
    BY <1>3 DEF updateCIR, setActiveExtension, TypeInv, ThreadType, Role
  <2>2. th' = [th EXCEPT !.at = "flag"] \/ th' = NextPair
    BY <1>3 DEF updateCIR, setActiveExtension
  <2>3. th'.at = "head" \/ (th'.at \in {"apply", "flag"} /\ th'.matrix = th.matrix)
    BY <2>1, <2>2, NextPairType DEF TypeInv
  <2>4. UNCHANGED <<m_order, scene, lost>>
    BY <1>3 DEF updateCIR, setActiveExtension, client, history
  <2> QED BY <2>1, <2>3, <2>4 DEF Counted, InScene
<1> QED BY <1>1, <1>2, <1>3, CountedSend, CountedFetch, CountedCreate DEF Local, Requests

\* Commands and restarts forget one side only while the thread has no scene.
LEMMA CountedOthers == ASSUME TypeInv, Stopped, Counted, Others PROVE Counted'
<1>1. CASE onStart
  BY <1>1 DEF onStart, Stopped, Counted, InScene, At, history
<1>2. CASE onStop
  BY <1>2 DEF onStop, Counted, InScene, history
<1>3. CASE onStop_Joined
  BY <1>3 DEF onStop_Joined, Counted, InScene, At, history
<1>4. ASSUME NEW l \in Link, AddLink(l) \/ RemoveLink(l) PROVE Counted'
  BY <1>4 DEF AddLink, RemoveLink, Counted, InScene, client, history
<1>5. ASSUME NEW n \in Node, NEW p \in Position, setLocation(n, p) PROVE Counted'
  BY <1>5 DEF setLocation, Counted, InScene, client, history
<1>6. CASE ServerRestart
  BY <1>6 DEF ServerRestart, NoScene, Counted, InScene, client, history
<1> QED BY <1>1, <1>2, <1>3, <1>4, <1>5, <1>6 DEF Others

\* updateCIR installs on a link what was traced for it.
LEMMA UpdateOfLink ==
    ASSUME TypeInv, Counted, TapsOfTheirLink, updateCIR
    PROVE  TapsOfTheirLink'
<1>1. th \in [at : {"apply", "flag"}, rx : Nat \ {0}, tx : Nat \ {0}, matrix : Orders]
  BY DEF updateCIR, TypeInv, ThreadType, Role
<1>2. ASSUME ~lost, InMatrix, Pair \in DOMAIN channels,
             channels' = [channels EXCEPT ![Pair].taps =
                             <<th.matrix["tx"][th.tx], th.matrix["rx"][th.rx]>>]
      PROVE  TapsOfTheirLink'
  <2>1. /\ th.matrix["tx"] \in Seq(Node) /\ th.matrix["rx"] \in Seq(Node)
        /\ m_order["tx"] \in Seq(Node) /\ m_order["rx"] \in Seq(Node)
    BY <1>1 DEF TypeInv, DataType, Orders, Role
  <2>2. th.tx \in 1 .. Len(th.matrix["tx"]) /\ th.rx \in 1 .. Len(th.matrix["rx"])
    BY <1>1, <1>2, <2>1, SMTT(30) DEF InMatrix, Rows
  <2>3. Begins(th.matrix["tx"], m_order["tx"]) /\ Begins(th.matrix["rx"], m_order["rx"])
    BY <1>1, <1>2 DEF Counted, Role
  <2>4. <<th.matrix["tx"][th.tx], th.matrix["rx"][th.rx]>> = Pair
    BY <2>2, <2>3 DEF Begins, Pair
  <2>5. channels' = [channels EXCEPT ![Pair].taps = Pair]
    BY <1>2, <2>4
  <2> HIDE DEF Pair
  <2>6. /\ DOMAIN channels' = DOMAIN channels /\ channels'[Pair].taps = Pair
        /\ \A l \in DOMAIN channels : l # Pair => channels'[l] = channels[l]
    BY <1>2, <2>5 DEF TypeInv, ChannelType
  <2> QED BY <1>2, <2>6 DEF TapsOfTheirLink
<1>3. CASE lost \/ UNCHANGED channels
  BY <1>3 DEF updateCIR, TapsOfTheirLink, history
<1> QED BY <1>2, <1>3 DEF updateCIR

\* Taps are applied to the corresponding Channel: as long as no answer to a
\* registration was lost, the response on a link was traced for that link,
\* through failures, restarts, stops and changes of links.
THEOREM TapsStayWithLink == Spec => []TapsOfTheirLink
<1>1. Init => Stopped /\ Counted /\ TapsOfTheirLink
  BY SMTT(30) DEF Init, Stopped, Counted, TapsOfTheirLink, InScene, At, NoScene
<1>2. TypeInv /\ Stopped /\ Counted /\ [Next]_vars => Counted'
  <2> SUFFICES ASSUME TypeInv, Stopped, Counted, [Next]_vars PROVE Counted'
    OBVIOUS
  <2>1. CASE UNCHANGED vars
    BY <2>1 DEF vars, client, history, Counted, InScene
  <2> QED BY <2>1, CountedThread, CountedOthers DEF Next, Others
<1>3. TypeInv /\ Counted /\ TapsOfTheirLink /\ [Next]_vars => TapsOfTheirLink'
  <2> SUFFICES ASSUME TypeInv, Counted, TapsOfTheirLink, [Next]_vars PROVE TapsOfTheirLink'
    OBVIOUS
  <2>1. CASE updateCIR
    BY <2>1, UpdateOfLink
  <2>2. CASE setActiveExtension
    <3>1. /\ DOMAIN channels' = DOMAIN channels
          /\ \A l \in DOMAIN channels : channels'[l].taps = channels[l].taps
      BY <2>2, SMTT(30) DEF setActiveExtension, TypeInv, ChannelType
    <3> QED BY <2>2, <3>1 DEF setActiveExtension, TapsOfTheirLink, history
  <2>3. CASE (Local \/ Requests) /\ ~updateCIR /\ ~setActiveExtension
    <3>1. channels' = channels
      BY <2>3, FlagByUpdate
    <3>2. lost => lost'
      BY <2>3 DEF Local, Requests, pollLoop, syncPositions, HasLinks, createScene,
                  createScene_Fails, Send, SendFails, ComputePaths, FetchCIR, NoCIR, history
    <3> QED BY <3>1, <3>2 DEF TapsOfTheirLink
  <2>4. CASE onStop_Joined
    <3>1. /\ DOMAIN channels' = DOMAIN channels
          /\ \A l \in DOMAIN channels : channels'[l].taps = channels[l].taps
      BY <2>4, SMTT(30) DEF onStop_Joined, clearExtensionFlags, TypeInv, ChannelType
    <3> QED BY <2>4, <3>1 DEF onStop_Joined, TapsOfTheirLink, history
  <2>5. ASSUME NEW l \in Link, AddLink(l) \/ RemoveLink(l) PROVE TapsOfTheirLink'
    BY <2>5, SMTT(30) DEF AddLink, RemoveLink, TapsOfTheirLink, history
  <2>6. CASE \/ onStart \/ onStop \/ (\E n \in Node, p \in Position : setLocation(n, p))
             \/ ServerRestart \/ UNCHANGED vars
    BY <2>6 DEF onStart, onStop, setLocation, ServerRestart, vars, history, TapsOfTheirLink
  <2> QED BY <2>1, <2>2, <2>3, <2>4, <2>5, <2>6 DEF Next
<1> QED BY <1>1, <1>2, <1>3, TypesHold, StoppedHolds, PTL DEF Spec

=============================================================================
