------------------------------ MODULE TxQueue ------------------------------
(***************************************************************************)
(* A Transmitter: the workers of several sources put processed bursts into *)
(* its queue with Add2Buff, its own thread takes them out in Start and     *)
(* sends them.  The queue has no lock; m_queue_mutex and m_queue_cv only   *)
(* wake the thread.                                                        *)
(*                                                                         *)
(* A burst is the IQ buffer that carries it.  Which burst the priority     *)
(* queue gives up is left open, since no property depends on it.           *)
(***************************************************************************)
EXTENDS Naturals, FiniteSets

CONSTANTS
    Buffer, NoBuffer,
    Worker,
    QUEUE_CAP

ASSUME TxAssumption ==
    /\ IsFiniteSet(Buffer) /\ NoBuffer \notin Buffer
    /\ IsFiniteSet(Worker) /\ Worker # {}
    /\ QUEUE_CAP \in Nat /\ QUEUE_CAP >= 2

VARIABLES
    pool,            \* the IQ pool
    m_queue,
    a_pc, a_buf,     \* each worker in Add2Buff: step, burst in hand
    t_pc, t_sig      \* the transmitter thread; it holds m_queue_mutex in "test"

txVars == <<pool, m_queue, a_pc, a_buf, t_pc, t_sig>>

MutexFree == t_pc # "test"

-----------------------------------------------------------------------------
(* Add2Buff *)

\* ProcessDestinationSignal calls it with a burst in an output buffer.
Add2Buff(w, b) ==
    /\ a_pc[w] = "idle" /\ b \in pool
    /\ pool' = pool \ {b}
    /\ a_buf' = [a_buf EXCEPT ![w] = b]
    /\ a_pc' = [a_pc EXCEPT ![w] = "check"]
    /\ UNCHANGED <<m_queue, t_pc, t_sig>>

Full_AtCap == Cardinality(m_queue) >= QUEUE_CAP       \* mutant: one burst too late
Full == Cardinality(m_queue) >= QUEUE_CAP - 1

CheckSize(w) ==
    /\ a_pc[w] = "check"
    /\ a_pc' = [a_pc EXCEPT ![w] = IF Full THEN "drop" ELSE "push"]
    /\ UNCHANGED <<pool, m_queue, a_buf, t_pc, t_sig>>

\* Mutant: the burst taken out of the queue is not released.
DropBoth_Forget(w) ==
    /\ a_pc[w] = "drop"
    /\ \/ m_queue = {} /\ UNCHANGED m_queue
       \/ \E b \in m_queue : m_queue' = m_queue \ {b}
    /\ pool' = pool \cup {a_buf[w]}
    /\ a_buf' = [a_buf EXCEPT ![w] = NoBuffer]
    /\ a_pc' = [a_pc EXCEPT ![w] = "idle"]
    /\ UNCHANGED <<t_pc, t_sig>>

\* A burst of the queue and the new one go back to the pool.
DropBoth(w) ==
    /\ a_pc[w] = "drop"
    /\ \/ m_queue = {} /\ pool' = pool \cup {a_buf[w]} /\ UNCHANGED m_queue
       \/ \E b \in m_queue : pool' = pool \cup {a_buf[w], b} /\ m_queue' = m_queue \ {b}
    /\ a_buf' = [a_buf EXCEPT ![w] = NoBuffer]
    /\ a_pc' = [a_pc EXCEPT ![w] = "idle"]
    /\ UNCHANGED <<t_pc, t_sig>>

Push(w) ==
    /\ a_pc[w] = "push"
    /\ m_queue' = m_queue \cup {a_buf[w]}
    /\ a_buf' = [a_buf EXCEPT ![w] = NoBuffer]
    /\ a_pc' = [a_pc EXCEPT ![w] = "lock"]
    /\ UNCHANGED <<pool, t_pc, t_sig>>

\* The empty critical section: wait until the thread is not between its test
\* of the queue and its wait.
LockUnlock_Skip(w) ==           \* mutant: no critical section
    /\ a_pc[w] = "lock"
    /\ a_pc' = [a_pc EXCEPT ![w] = "notify"]
    /\ UNCHANGED <<pool, m_queue, a_buf, t_pc, t_sig>>

LockUnlock(w) ==
    /\ a_pc[w] = "lock" /\ MutexFree
    /\ a_pc' = [a_pc EXCEPT ![w] = "notify"]
    /\ UNCHANGED <<pool, m_queue, a_buf, t_pc, t_sig>>

Notify(w) ==
    /\ a_pc[w] = "notify"
    /\ t_pc' = IF t_pc = "waiting" THEN "lock" ELSE t_pc
    /\ a_pc' = [a_pc EXCEPT ![w] = "idle"]
    /\ UNCHANGED <<pool, m_queue, a_buf, t_sig>>

-----------------------------------------------------------------------------
(* Start *)

\* The predicate of wait sees the queue empty or not, with the mutex held.
Lock ==
    /\ t_pc = "lock"
    /\ t_pc' = IF m_queue = {} THEN "test" ELSE "pop"
    /\ UNCHANGED <<pool, m_queue, a_pc, a_buf, t_sig>>

\* It was empty: release the mutex and wait, in one step.
Wait ==
    /\ t_pc = "test"
    /\ t_pc' = "waiting"
    /\ UNCHANGED <<pool, m_queue, a_pc, a_buf, t_sig>>

\* A worker may have taken the burst in the meantime.
TryPop ==
    /\ t_pc = "pop"
    /\ \/ m_queue = {} /\ t_pc' = "lock" /\ UNCHANGED <<m_queue, t_sig>>
       \/ \E b \in m_queue : m_queue' = m_queue \ {b} /\ t_sig' = b /\ t_pc' = "send"
    /\ UNCHANGED <<pool, a_pc, a_buf>>

\* Sent or too old, its buffer is released.
SendBurst ==
    /\ t_pc = "send"
    /\ pool' = pool \cup {t_sig} /\ t_sig' = NoBuffer
    /\ t_pc' = "lock"
    /\ UNCHANGED <<m_queue, a_pc, a_buf>>

-----------------------------------------------------------------------------
TxInit ==
    /\ pool = Buffer /\ m_queue = {}
    /\ a_pc = [w \in Worker |-> "idle"] /\ a_buf = [w \in Worker |-> NoBuffer]
    /\ t_pc = "lock" /\ t_sig = NoBuffer

Adding(w) == CheckSize(w) \/ DropBoth(w) \/ Push(w) \/ LockUnlock(w) \/ Notify(w)
Start == Lock \/ Wait \/ TryPop \/ SendBurst

TxNext == (\E w \in Worker : Adding(w) \/ \E b \in Buffer : Add2Buff(w, b)) \/ Start

TxSpec == TxInit /\ [][TxNext]_txVars

\* Threads that can run do run; nothing obliges a burst to arrive.
TxFairSpec == TxSpec /\ WF_txVars(Start) /\ \A w \in Worker : WF_txVars(Adding(w))

-----------------------------------------------------------------------------
(* Properties *)

\* Types; a burst is in hand exactly where the code holds one.
TypeOK ==
    /\ pool \subseteq Buffer /\ m_queue \subseteq Buffer
    /\ a_pc \in [Worker -> {"idle", "check", "drop", "push", "lock", "notify"}]
    /\ a_buf \in [Worker -> Buffer \cup {NoBuffer}]
    /\ \A w \in Worker : a_buf[w] = NoBuffer <=> a_pc[w] \in {"idle", "lock", "notify"}
    /\ t_pc \in {"lock", "test", "waiting", "pop", "send"}
    /\ t_sig \in Buffer \cup {NoBuffer} /\ (t_sig = NoBuffer <=> t_pc # "send")

\* An IQ buffer is in one place: the pool, the queue, or the hand of one thread.
\* Two workers dropping at once, or one racing the thread, release no buffer
\* twice and lose none.
BuffersConserved ==
    /\ pool \cap m_queue = {}
    /\ \A w \in Worker : a_buf[w] \notin pool \cup m_queue \cup {t_sig} \/ a_buf[w] = NoBuffer
    /\ \A v, w \in Worker : v # w /\ a_buf[v] = a_buf[w] => a_buf[v] = NoBuffer
    /\ t_sig \notin pool \cup m_queue
    /\ Buffer = pool \cup m_queue \cup {b \in Buffer : b = t_sig \/ \E w \in Worker : a_buf[w] = b}

\* The size check and the push are two steps, so every worker may add one burst
\* to a queue that was one short of full; the queue grows no further.
QueueBounded == Cardinality(m_queue) <= QUEUE_CAP - 2 + Cardinality(Worker)

\* The transmitter thread does not sleep on a burst: whatever the order of push,
\* test, wait and notify, a queue that is not empty is served.
QueueServed == m_queue # {} ~> (t_pc = "send" \/ m_queue = {})

=============================================================================
