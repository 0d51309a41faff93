-------------------------- MODULE WorkerLifecycle --------------------------
(***************************************************************************)
(* One receiver and the worker that AttachSource starts for it: the        *)
(* receiver thread, which hands bursts over through the add2Queue callback,*)
(* the worker thread, which pops them from the bounded queue of its        *)
(* WorkerContext, and the caller that attaches and detaches the source;    *)
(* and the life of the Intermediate they belong to: its Start thread, which*)
(* keeps it alive, the flag work, and the map of the Controller.           *)
(*                                                                         *)
(* A burst is the IQ buffer that carries it.  Contexts are numbered in the *)
(* order AttachSource creates them; at most the last one is alive, since a *)
(* source is attached again only after DetachSource has erased it.         *)
(***************************************************************************)
EXTENDS Naturals, Sequences, FiniteSets, Functions

CONSTANTS
    Buffer,      \* the IQ buffers of the pool
    NoBuffer,    \* no buffer in hand
    QUEUE_CAP,   \* capacity of the queues
    MaxAttach    \* bound: times the source is attached

ASSUME BufferAssumption == IsFiniteSet(Buffer) /\ NoBuffer \notin Buffer
ASSUME CapAssumption == QUEUE_CAP \in Nat /\ QUEUE_CAP >= 2 /\ MaxAttach \in Nat

VARIABLES
    pool,          \* buffers in the DataArrayPool
    destroyed,     \* buffers destroyed with a context instead of released
    local_queue,   \* Receiver::m_queue
    add2Queue,     \* what the receiver's callback is bound to
    r_pc, r_buf,   \* receiver thread: position, buffer in hand
    r_cb, r_ctx,   \* the callback it entered and the context that one points to
    ctx,           \* number of the last context created
    alive,         \* the last context has not been erased
    running_flag, running, queue,    \* its fields
    aborted,       \* abort() was called while its worker waited in pop
    w_pc, w_buf,   \* worker thread
    d_pc,          \* the caller
    hasDest,       \* m_destCount # 0
    work,          \* Intermediate::work
    s_pc,          \* thread of Intermediate::Start
    in_map,        \* the Controller's map refers to the Intermediate
    emptied,       \* history: the call that last found the Intermediate empty
    freed_use      \* an erased context was used

recvVars == <<r_pc, r_buf, r_cb, r_ctx>>
workVars == <<w_pc, w_buf>>
chanVars == <<hasDest, work, s_pc, in_map, emptied>>
workerVars == <<pool, destroyed, local_queue, add2Queue, recvVars, ctx, alive, running_flag,
                running, queue, aborted, workVars, d_pc, chanVars, freed_use>>

-----------------------------------------------------------------------------
(* The receiver thread: Receiver::Start and the callback of AttachSource *)

\* Recv returns a burst in a buffer it took from the pool; with no callback the
\* full local queue gives up its oldest burst and the new one is pushed.
Receive(b) ==
    /\ r_pc = "recv"
    /\ b \in pool
    /\ IF add2Queue = "none"
       THEN /\ LET full == Len(local_queue) >= QUEUE_CAP
               IN  /\ local_queue' = Append(IF full THEN Tail(local_queue) ELSE local_queue, b)
                   /\ pool' = (pool \ {b}) \cup (IF full THEN {Head(local_queue)} ELSE {})
            /\ UNCHANGED recvVars
       ELSE /\ pool' = pool \ {b}
            /\ r_pc' = "check" /\ r_buf' = b /\ r_cb' = add2Queue /\ r_ctx' = ctx
            /\ UNCHANGED local_queue
    /\ UNCHANGED <<destroyed, add2Queue, ctx, alive, running_flag, running, queue, aborted,
                   workVars, d_pc, chanVars, freed_use>>

\* The flag outlives the context, and it stays down once DetachSource lowered it.
FlagUp == r_cb = "worker" /\ r_ctx = ctx /\ running_flag
Stale == r_ctx # ctx \/ ~alive

ReleaseBurst == pool' = pool \cup {r_buf} /\ r_buf' = NoBuffer /\ r_pc' = "recv"

CheckFlag ==
    /\ r_pc = "check"
    /\ \/ ~FlagUp /\ ReleaseBurst
       \/ FlagUp /\ r_pc' = "trim" /\ UNCHANGED <<pool, r_buf>>
    /\ UNCHANGED <<destroyed, local_queue, add2Queue, r_cb, r_ctx, ctx, alive, running_flag,
                   running, queue, aborted, workVars, d_pc, chanVars, freed_use>>

\* A nearly full queue gives up its oldest burst.
TrimQueue ==
    /\ r_pc = "trim"
    /\ freed_use' = (freed_use \/ Stale)
    /\ \/ Stale /\ r_pc' = "dead" /\ UNCHANGED <<pool, queue>>
       \/ /\ ~Stale /\ r_pc' = "push"
          /\ \/ Len(queue) >= QUEUE_CAP - 1
                /\ pool' = pool \cup {Head(queue)} /\ queue' = Tail(queue)
             \/ Len(queue) < QUEUE_CAP - 1 /\ UNCHANGED <<pool, queue>>
    /\ UNCHANGED <<destroyed, local_queue, add2Queue, r_buf, r_cb, r_ctx, ctx, alive, running_flag,
                   running, aborted, workVars, d_pc, chanVars>>

\* try_push; a full queue would send the burst back to the pool.
PushBurst ==
    /\ r_pc = "push"
    /\ freed_use' = (freed_use \/ Stale)
    /\ \/ Stale /\ r_pc' = "dead" /\ UNCHANGED <<pool, queue, r_buf>>
       \/ ~Stale /\ IF Len(queue) < QUEUE_CAP
                    THEN /\ queue' = Append(queue, r_buf)
                         /\ r_buf' = NoBuffer /\ r_pc' = "recv" /\ UNCHANGED pool
                    ELSE ReleaseBurst /\ UNCHANGED queue
    /\ UNCHANGED <<destroyed, local_queue, add2Queue, r_cb, r_ctx, ctx, alive, running_flag,
                   running, aborted, workVars, d_pc, chanVars>>

-----------------------------------------------------------------------------
(* The worker thread: WorkerLoop *)

\* Mutant: a worker without destinations leaves its loop.
LoopCheck_Break ==
    /\ w_pc = "loop"
    /\ \/ ~(running /\ work /\ hasDest) /\ w_pc' = "exit"
       \/ running /\ work /\ hasDest /\ w_pc' = "enter"
    /\ UNCHANGED <<pool, destroyed, local_queue, add2Queue, recvVars, ctx, alive, running_flag,
                   running, queue, aborted, w_buf, d_pc, chanVars, freed_use>>

\* The loop condition.  Without destinations the worker sleeps and comes back
\* to it, which changes nothing.
LoopCheck ==
    /\ w_pc = "loop"
    /\ \/ ~(running /\ work) /\ w_pc' = "exit"
       \/ running /\ work /\ hasDest /\ w_pc' = "enter"
    /\ UNCHANGED <<pool, destroyed, local_queue, add2Queue, recvVars, ctx, alive, running_flag,
                   running, queue, aborted, w_buf, d_pc, chanVars, freed_use>>

\* pop() has begun: only from here on does abort() concern this worker.
EnterPop ==
    /\ w_pc = "enter"
    /\ w_pc' = "pop"
    /\ UNCHANGED <<pool, destroyed, local_queue, add2Queue, recvVars, ctx, alive, running_flag,
                   running, queue, aborted, w_buf, d_pc, chanVars, freed_use>>

PopBurst ==
    /\ w_pc = "pop"
    /\ queue # << >>
    /\ w_buf' = Head(queue) /\ queue' = Tail(queue)
    /\ w_pc' = "burst" /\ aborted' = FALSE
    /\ UNCHANGED <<pool, destroyed, local_queue, add2Queue, recvVars, ctx, alive, running_flag,
                   running, d_pc, chanVars, freed_use>>

\* pop() throws user_abort and the loop is left.
PopAborted ==
    /\ w_pc = "pop"
    /\ aborted
    /\ w_pc' = "exit"
    /\ UNCHANGED <<pool, destroyed, local_queue, add2Queue, recvVars, ctx, alive, running_flag,
                   running, queue, aborted, w_buf, d_pc, chanVars, freed_use>>

\* Too old or processed, the burst's buffer goes back to the pool.
FinishBurst ==
    /\ w_pc = "burst"
    /\ pool' = pool \cup {w_buf} /\ w_buf' = NoBuffer
    /\ w_pc' = "loop"
    /\ UNCHANGED <<destroyed, local_queue, add2Queue, recvVars, ctx, alive, running_flag,
                   running, queue, aborted, d_pc, chanVars, freed_use>>

-----------------------------------------------------------------------------
(* The caller, holding src_mutex through each call.  Start holds it between *)
(* its test of work and its sleep.                                          *)

MutexFree == d_pc \in {"detached", "attached"} /\ s_pc # "tested"

AttachSource ==
    /\ d_pc = "detached" /\ MutexFree /\ in_map
    /\ ctx < MaxAttach
    /\ ctx' = ctx + 1 /\ alive' = TRUE
    /\ running_flag' = TRUE /\ running' = TRUE /\ queue' = << >> /\ aborted' = FALSE
    /\ add2Queue' = "worker"
    /\ w_pc' = "loop"
    /\ d_pc' = "attached"
    /\ UNCHANGED <<pool, destroyed, local_queue, recvVars, w_buf, chanVars, freed_use>>

LowerFlag ==
    /\ d_pc = "attached" /\ MutexFree
    /\ running_flag' = FALSE
    /\ d_pc' = "flagged"
    /\ UNCHANGED <<pool, destroyed, local_queue, add2Queue, recvVars, ctx, alive, running, queue,
                   aborted, workVars, chanVars, freed_use>>

ReplaceCallback ==
    /\ d_pc = "flagged"
    /\ add2Queue' = "release"
    /\ d_pc' = "replaced"
    /\ UNCHANGED <<pool, destroyed, local_queue, recvVars, ctx, alive, running_flag,
                   running, queue, aborted, workVars, chanVars, freed_use>>

\* abort() wakes a worker that is inside pop() and no other.
AbortQueue ==
    /\ d_pc = "replaced"
    /\ aborted' = (w_pc = "pop")
    /\ d_pc' = "aborted"
    /\ UNCHANGED <<pool, destroyed, local_queue, add2Queue, recvVars, ctx, alive, running_flag,
                   running, queue, workVars, chanVars, freed_use>>

\* Mutant: running is left as it is.
StopRunning_Missed ==
    /\ d_pc = "aborted"
    /\ d_pc' = "stopped"
    /\ UNCHANGED <<pool, destroyed, local_queue, add2Queue, recvVars, ctx, alive, running_flag,
                   running, queue, aborted, workVars, chanVars, freed_use>>

StopRunning ==
    /\ d_pc = "aborted"
    /\ running' = FALSE
    /\ d_pc' = "stopped"
    /\ UNCHANGED <<pool, destroyed, local_queue, add2Queue, recvVars, ctx, alive, running_flag,
                   queue, aborted, workVars, chanVars, freed_use>>

\* Mutant: the drained bursts stay in the queue and are released again.
Drain_Keep ==
    /\ d_pc = "stopped"
    /\ pool' = pool \cup Range(queue)
    /\ d_pc' = "drained"
    /\ UNCHANGED <<destroyed, local_queue, add2Queue, recvVars, ctx, alive, running_flag,
                   running, queue, aborted, workVars, chanVars, freed_use>>

\* Mutant: the queue is not drained.
Drain_Skip ==
    /\ d_pc = "stopped"
    /\ d_pc' = "drained"
    /\ UNCHANGED <<pool, destroyed, local_queue, add2Queue, recvVars, ctx, alive, running_flag,
                   running, queue, aborted, workVars, chanVars, freed_use>>

Drain ==
    /\ d_pc = "stopped"
    /\ pool' = pool \cup Range(queue) /\ queue' = << >>
    /\ d_pc' = "drained"
    /\ UNCHANGED <<destroyed, local_queue, add2Queue, recvVars, ctx, alive, running_flag, running,
                   aborted, workVars, chanVars, freed_use>>

Join ==
    /\ d_pc = "drained"
    /\ w_pc = "exit"
    /\ d_pc' = "joined"
    /\ UNCHANGED <<pool, destroyed, local_queue, add2Queue, recvVars, ctx, alive, running_flag,
                   running, queue, aborted, workVars, chanVars, freed_use>>

\* The context goes, and with it the buffers of bursts still in its queue.
EraseContext ==
    /\ d_pc = "joined"
    /\ alive' = FALSE
    /\ destroyed' = destroyed \cup Range(queue) /\ queue' = << >>
    /\ d_pc' = "erased"
    /\ UNCHANGED <<pool, local_queue, add2Queue, recvVars, ctx, running_flag, running,
                   aborted, workVars, chanVars, freed_use>>

\* Mutant: work is cleared and nobody is told.
EmptyChannelChecker_Silent(empty, who) ==
    /\ work' = (work /\ ~empty)
    /\ emptied' = IF empty THEN who ELSE emptied
    /\ UNCHANGED s_pc

\* notify_all wakes a Start thread that sleeps; it tests work again.
EmptyChannelChecker(empty, who) ==
    /\ work' = (work /\ ~empty)
    /\ emptied' = IF empty THEN who ELSE emptied
    /\ s_pc' = IF empty /\ s_pc = "wait" THEN "start" ELSE s_pc

EraseSource ==
    /\ d_pc = "erased"
    /\ EmptyChannelChecker(~hasDest, "DetachSource")
    /\ d_pc' = "detached"
    /\ UNCHANGED <<pool, destroyed, local_queue, add2Queue, recvVars, ctx, alive, running_flag,
                   running, queue, aborted, workVars, hasDest, in_map, freed_use>>

-----------------------------------------------------------------------------
(* The Intermediate: its destinations, its Start thread, its owner *)

\* The first destination comes, the last one goes; neither call takes src_mutex.
AttachDestination ==
    /\ ~hasDest /\ in_map
    /\ hasDest' = TRUE
    /\ UNCHANGED <<pool, destroyed, local_queue, add2Queue, recvVars, ctx, alive, running_flag,
                   running, queue, aborted, workVars, d_pc, work, s_pc, in_map, emptied, freed_use>>

DetachDestination ==
    /\ hasDest
    /\ hasDest' = FALSE
    /\ EmptyChannelChecker(d_pc = "detached", "DetachDestination")
    /\ UNCHANGED <<pool, destroyed, local_queue, add2Queue, recvVars, ctx, alive, running_flag,
                   running, queue, aborted, workVars, d_pc, in_map, freed_use>>

\* cv.wait: lock src_mutex and test work, then sleep and give the mutex up.
StartTest ==
    /\ s_pc = "start" /\ MutexFree
    /\ s_pc' = IF work THEN "tested" ELSE "end"
    /\ UNCHANGED <<pool, destroyed, local_queue, add2Queue, recvVars, ctx, alive, running_flag,
                   running, queue, aborted, workVars, d_pc, hasDest, work, in_map, emptied, freed_use>>

StartSleep ==
    /\ s_pc = "tested"
    /\ s_pc' = "wait"
    /\ UNCHANGED <<pool, destroyed, local_queue, add2Queue, recvVars, ctx, alive, running_flag,
                   running, queue, aborted, workVars, d_pc, hasDest, work, in_map, emptied, freed_use>>

\* The Controller drops an Intermediate it finds empty; it does not stop it.
Forget ==
    /\ in_map /\ ~hasDest /\ d_pc = "detached"
    /\ in_map' = FALSE
    /\ UNCHANGED <<pool, destroyed, local_queue, add2Queue, recvVars, ctx, alive, running_flag,
                   running, queue, aborted, workVars, d_pc, hasDest, work, s_pc, emptied, freed_use>>

-----------------------------------------------------------------------------
WorkerInit ==
    /\ pool = Buffer /\ destroyed = {} /\ local_queue = << >> /\ add2Queue = "none"
    /\ r_pc = "recv" /\ r_buf = NoBuffer /\ r_cb = "none" /\ r_ctx = 0
    /\ ctx = 0 /\ alive = FALSE
    /\ running_flag = FALSE /\ running = FALSE /\ queue = << >> /\ aborted = FALSE
    /\ w_pc = "exit" /\ w_buf = NoBuffer
    /\ d_pc = "detached" /\ hasDest = FALSE /\ freed_use = FALSE
    /\ work = TRUE /\ s_pc = "start" /\ in_map = TRUE /\ emptied = "no"

Callback == CheckFlag \/ TrimQueue \/ PushBurst
WorkerThread == LoopCheck \/ EnterPop \/ PopBurst \/ PopAborted \/ FinishBurst
Detach == ReplaceCallback \/ AbortQueue \/ StopRunning \/ Drain \/ Join \/ EraseContext
          \/ EraseSource
Start == StartTest \/ StartSleep

WorkerNext ==
    \/ \E b \in Buffer : Receive(b)
    \/ Callback \/ WorkerThread
    \/ AttachSource \/ LowerFlag \/ Detach
    \/ AttachDestination \/ DetachDestination
    \/ Start \/ Forget

WorkerSpec == WorkerInit /\ [][WorkerNext]_workerVars

\* The operating system schedules every thread that can run; nothing obliges a
\* burst to arrive or a caller to start a call.
WorkerFairSpec ==
    /\ WorkerSpec
    /\ WF_workerVars(Callback) /\ WF_workerVars(WorkerThread)
    /\ WF_workerVars(Detach) /\ WF_workerVars(Start)

-----------------------------------------------------------------------------
(* Properties *)

Hand(b) == {b} \ {NoBuffer}
Places == <<pool, destroyed, Range(local_queue), Range(queue), Hand(r_buf), Hand(w_buf)>>

\* Every IQ buffer is in exactly one place: the pool, a queue, a thread's hand
\* or destroyed.  Nothing is released twice, whoever wins the races between
\* the callback, the worker and DetachSource's drain.
BuffersConserved ==
    /\ UNION Range(Places) = Buffer
    /\ \A i, j \in DOMAIN Places : i # j => Places[i] \cap Places[j] = {}
    /\ IsInjective(local_queue) /\ IsInjective(queue)

\* Lowering the flag, replacing the callback and draining the queue do not
\* save a burst whose callback had already seen the flag up: it lands in the
\* queue after the drain and its buffer is destroyed with the context.  One
\* receiver thread is inside one callback, so a detach loses one buffer at most.
LossBounded == Cardinality(destroyed) <= ctx

\* While the Intermediate works, has destinations and nobody detaches, a
\* queued burst is popped: the worker never sleeps on a queue that is not empty.
BurstServed ==
    \A b \in Buffer :
        b \in Range(queue) ~> (b \notin Range(queue) \/ ~hasDest \/ ~work \/ d_pc # "attached")

\* "Use shared_ptr flag so the lambda remains safe after WorkerContext
\* destruction": the callback never touches an erased context.
CallbackSafe == ~freed_use

\* The worker went to sleep in pop() after abort() had been called: it had
\* tested running before StopRunning and missed both.
Overtaken == d_pc = "drained" /\ w_pc = "pop" /\ ~aborted /\ queue = << >>

\* A DetachSource that has begun returns, unless its worker overtook it: that
\* is the only way in which the join can last for ever, wherever the worker
\* and the callback are and whether or not there are destinations.
DetachReturns == d_pc = "flagged" ~> (d_pc = "detached" \/ Overtaken)

\* DetachDestination found the Intermediate empty and notified while Start was
\* between its test of work and its sleep; DetachDestination does not hold
\* src_mutex, so nothing keeps it out of that gap.
SleptThrough == s_pc = "wait" /\ emptied = "DetachDestination"

\* The thread of an Intermediate that has run empty ends, and with it the last
\* reference that keeps the object alive once the Controller has dropped it,
\* unless Start sleeps through the wakeup.  A DetachSource that empties it
\* never misses Start, since it holds src_mutex.
StartEnds == ~work ~> (s_pc = "end" \/ SleptThrough)

=============================================================================
