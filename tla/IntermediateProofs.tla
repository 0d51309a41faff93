------------------------- MODULE IntermediateProofs -------------------------
(***************************************************************************)
(* Proofs about module Intermediate, for every set of nodes and of callers *)
(* and every bound on the calls.                                           *)
(***************************************************************************)
EXTENDS Intermediate, TLAPS

-----------------------------------------------------------------------------
(* The channel map *)

\* updateChannelMap keeps every channel it finds and allocates the missing ones.
LEMMA UpdateChannelMapType ==
    ASSUME DOMAIN m_channelMap \subseteq Node \X Node,
           m_channelMap \in [DOMAIN m_channelMap -> Nat],
           m_destVersion \in Nat,
           NEW S \in SUBSET Node, NEW D \in SUBSET Node, NEW X \in SUBSET Node
    PROVE  /\ DOMAIN updateChannelMap(S, D, X) = DOMAIN m_channelMap \cup Links(S, D, X)
           /\ DOMAIN updateChannelMap(S, D, X) \subseteq Node \X Node
           /\ updateChannelMap(S, D, X) \in [DOMAIN updateChannelMap(S, D, X) -> Nat]
  BY DEF updateChannelMap, Links

\* removeChannel only removes.
LEMMA RemoveChannelType ==
    ASSUME DOMAIN m_channelMap \subseteq Node \X Node,
           m_channelMap \in [DOMAIN m_channelMap -> Nat],
           NEW n \in Node
    PROVE  /\ DOMAIN removeChannel(n) = {q \in DOMAIN m_channelMap : q[1] # n /\ q[2] # n}
           /\ DOMAIN removeChannel(n) \subseteq Node \X Node
           /\ removeChannel(n) \in [DOMAIN removeChannel(n) -> Nat]
  BY DEF removeChannel

\* A snapshot is a set of DestInfo records.
LEMMA SnapshotType ==
    ASSUME TypeOK, NEW n \in Node
    PROVE  Snapshot(n) \in SUBSET DestInfo
  <1>1. Reachable(n) \subseteq Node
    BY DEF TypeOK, Reachable
  <1>2. \A d \in Reachable(n) : m_channelMap[<<n, d>>] \in Nat /\ rate[d] \in Rate
    BY <1>1 DEF TypeOK, Reachable
  <1> DEFINE info(d) == [dest |-> d, channel |-> m_channelMap[<<n, d>>], rate |-> rate[d]]
  <1>3. \A d \in Reachable(n) : info(d) \in DestInfo
    BY <1>1, <1>2 DEF DestInfo
  <1> HIDE DEF info
  <1>4. {info(d) : d \in Reachable(n)} \subseteq DestInfo
    BY <1>3
  <1>5. Snapshot(n) = {info(d) : d \in Reachable(n)}
    BY DEF Snapshot, info
  <1> QED
    BY <1>4, <1>5

\* The links of a snapshot are the links of the moment it is taken.
LEMMA SnapshotLinks ==
    ASSUME TypeOK, NEW n \in Node
    PROVE  Channels(Snapshot(n)) = LinksOf(n)
  <1> DEFINE info(d) == [dest |-> d, channel |-> m_channelMap[<<n, d>>], rate |-> rate[d]]
             link(i) == <<i.dest, i.channel>>
             here(d) == <<d, m_channelMap[<<n, d>>]>>
  <1>1. \A d \in Reachable(n) : link(info(d)) = here(d)
    OBVIOUS
  <1> HIDE DEF info, link, here
  <1>2. {link(i) : i \in {info(d) : d \in Reachable(n)}} = {here(d) : d \in Reachable(n)}
    BY <1>1
  <1>3. Channels(Snapshot(n)) = {link(i) : i \in {info(d) : d \in Reachable(n)}}
    BY DEF Channels, Snapshot, info, link
  <1>4. LinksOf(n) = {here(d) : d \in Reachable(n)}
    BY DEF LinksOf, here
  <1> QED
    BY <1>2, <1>3, <1>4

-----------------------------------------------------------------------------
(* Type correctness *)

HistoryTyped == calls \in 0 .. MaxCalls /\ overlap \in BOOLEAN /\ sandboxed \in BOOLEAN

MapTyped ==
    /\ DOMAIN m_channelMap \subseteq Node \X Node
    /\ m_channelMap \in [DOMAIN m_channelMap -> Nat]

\* The empty Intermediate has the right types.
LEMMA TypeInit == Init => TypeOK
  <1> SUFFICES ASSUME Init PROVE TypeOK
    OBVIOUS
  <1>1. DOMAIN m_channelMap = {} /\ m_channelMap \in [{} -> Nat]
    BY DEF Init
  <1>2. op \in [Thread -> {Idle} \cup [at : Steps, node : Node]] /\ \A t \in Thread : op[t] = Idle
    BY DEF Init
  <1>3. calls \in 0 .. MaxCalls
    BY MaxCallsAssumption DEF Init
  <1> QED
    BY <1>1, <1>2, <1>3 DEF Init, TypeOK

\* Each step of an attach, a detach or a sandbox call keeps the types, and
\* only the holder of src_mutex is inside a call on sources.
LEMMA TypeCaller ==
    ASSUME TypeOK, NEW t \in Thread, NEW n \in Node,
           \/ AttachDestination(t, n) \/ DetachDestination(t, n)
           \/ \E r \in Rate : setSampleRate(t, n, r)
           \/ addSandboxNode(t, n) \/ removeSandboxNode(t, n)
           \/ AttachSource(t, n) \/ AttachSource_Link(t, n) \/ AttachSource_Print(t, n)
           \/ DetachSource(t, n) \/ DetachSource_Join(t, n)
           \/ DetachSource_Unlink(t, n) \/ DetachSource_Erase(t, n)
    PROVE  TypeOK'
  <1> USE MaxCallsAssumption, SandboxAssumption, NoThreadAssumption DEF history
  <1>0. m_sourceMap \in SUBSET Node /\ m_destinationMap \in SUBSET Node /\ m_sandboxNodes \in SUBSET Node
    BY DEF TypeOK
  <1>1. CASE AttachDestination(t, n)
    <2>1. m_destinationMap' \in SUBSET Node
      BY <1>1 DEF TypeOK, AttachDestination
    <2>2. m_channelMap' = updateChannelMap(m_sourceMap, m_destinationMap', m_sandboxNodes)
      BY <1>1 DEF AttachDestination
    <2>3. MapTyped'
      BY <1>0, <2>1, <2>2, UpdateChannelMapType DEF TypeOK, MapTyped
    <2>4. /\ m_destVersion' \in Nat /\ HistoryTyped' /\ crashed' \in BOOLEAN
          /\ UNCHANGED <<m_sourceMap, m_sandboxNodes, rate, work, src_mutex, op, workers>>
      BY <1>1 DEF TypeOK, AttachDestination, Call, Begin, HistoryTyped, Printable
    <2> QED
      BY <2>1, <2>3, <2>4 DEF TypeOK, MapTyped, workers, HistoryTyped
  <1>2. CASE DetachDestination(t, n)
    <2>1. m_channelMap' = removeChannel(n)
      BY <1>2 DEF DetachDestination
    <2>2. MapTyped'
      BY <2>1, RemoveChannelType DEF TypeOK, MapTyped
    <2> QED
      BY <1>2, <2>2 DEF MapTyped, TypeOK, DetachDestination, Call, Begin, HistoryTyped, workers, EmptyChannelChecker
  <1>3. CASE \E r \in Rate : setSampleRate(t, n, r)
    BY <1>3 DEF TypeOK, setSampleRate, Call, Begin, HistoryTyped, maps, workers
  <1>4. CASE addSandboxNode(t, n)
    <2>1. m_sandboxNodes' \in SUBSET Node
      BY <1>4 DEF TypeOK, addSandboxNode
    <2>2. m_channelMap' = updateChannelMap(m_sourceMap, m_destinationMap, m_sandboxNodes')
      BY <1>4 DEF addSandboxNode
    <2>3. MapTyped'
      BY <1>0, <2>1, <2>2, UpdateChannelMapType DEF TypeOK, MapTyped
    <2>4. /\ m_sandboxNodes' \subseteq Sandbox
          /\ m_destVersion' \in Nat /\ HistoryTyped'
          /\ UNCHANGED <<m_sourceMap, m_destinationMap, rate, work, src_mutex, op, workers, crashed>>
      BY <1>4 DEF TypeOK, addSandboxNode, SandboxCall, Begin, HistoryTyped
    <2> QED
      BY <2>3, <2>4 DEF TypeOK, MapTyped, workers, HistoryTyped
  <1>5. CASE removeSandboxNode(t, n)
    <2>1. m_channelMap' = removeChannel(n)
      BY <1>5 DEF removeSandboxNode
    <2>2. MapTyped'
      BY <2>1, RemoveChannelType DEF TypeOK, MapTyped
    <2> QED
      BY <1>5, <2>2 DEF MapTyped, TypeOK, removeSandboxNode, SandboxCall, Begin, HistoryTyped, workers
  <1>6. CASE AttachSource(t, n)
    BY <1>6 DEF TypeOK, AttachSource, Call, Begin, HistoryTyped, Op, Steps
  <1>7. CASE AttachSource_Link(t, n)
    <2>1. m_channelMap' = updateChannelMap(m_sourceMap, m_destinationMap, m_sandboxNodes)
      BY <1>7 DEF AttachSource_Link
    <2>2. MapTyped'
      BY <1>0, <2>1, UpdateChannelMapType DEF TypeOK, MapTyped
    <2> QED
      BY <1>7, <2>2 DEF MapTyped, TypeOK, AttachSource_Link, At, Op, Steps, Idle, workers
  <1>8. CASE AttachSource_Print(t, n)
    BY <1>8 DEF TypeOK, AttachSource_Print, At, Op, Idle, maps, workers, Printable
  <1>9. CASE DetachSource(t, n)
    BY <1>9 DEF TypeOK, DetachSource, Call, Begin, HistoryTyped, Op, Steps, maps, workers
  <1>10. CASE DetachSource_Join(t, n)
    BY <1>10 DEF TypeOK, DetachSource_Join, At, Op, Steps, Idle, maps
  <1>11. CASE DetachSource_Unlink(t, n)
    <2>1. m_channelMap' = removeChannel(n)
      BY <1>11 DEF DetachSource_Unlink
    <2>2. MapTyped'
      BY <2>1, RemoveChannelType DEF TypeOK, MapTyped
    <2> QED
      BY <1>11, <2>2 DEF MapTyped, TypeOK, DetachSource_Unlink, At, Op, Steps, Idle, workers
  <1>12. CASE DetachSource_Erase(t, n)
    BY <1>12 DEF TypeOK, DetachSource_Erase, At, Op, Idle, workers, EmptyChannelChecker
  <1> QED
    BY <1>1, <1>2, <1>3, <1>4, <1>5, <1>6, <1>7, <1>8, <1>9, <1>10, <1>11, <1>12

\* The steps of a worker in ProcessSignal keep the types.
LEMMA TypeWorker ==
    ASSUME TypeOK, NEW n \in Node, WorkerStep(n)
    PROVE  TypeOK'
  <1> USE DEF history
  <1>1. CASE ProcessSignal(n)
    BY <1>1 DEF TypeOK, ProcessSignal, Worker, maps
  <1>2. CASE ReuseSnapshot(n)
    BY <1>2 DEF TypeOK, ReuseSnapshot, Worker, maps
  <1>3. CASE TakeSnapshot(n)
    BY <1>3, SnapshotType DEF TypeOK, TakeSnapshot, Worker, maps
  <1>4. CASE FinishSignal(n)
    BY <1>4 DEF TypeOK, FinishSignal, Worker, maps
  <1> QED
    BY <1>1, <1>2, <1>3, <1>4 DEF WorkerStep

\* So does a step that changes nothing.
LEMMA TypeStutter == TypeOK /\ UNCHANGED vars => TypeOK'
  BY DEF TypeOK, vars, maps, workers, history

\* Types are inductive.
LEMMA TypeNext == TypeOK /\ [Next]_vars => TypeOK'
  BY TypeCaller, TypeWorker, TypeStutter DEF Next, Caller

\* Every reachable state of a channel is well typed, and a thread inside
\* AttachSource or DetachSource holds src_mutex.
THEOREM TypeCorrect == Spec => []TypeOK
  BY TypeInit, TypeNext, PTL DEF Spec

-----------------------------------------------------------------------------
(* The destination end of every channel *)

\* The channels updateChannelMap adds join endpoints it was given.
LEMMA UpdateChannelMapEnds ==
    ASSUME NEW S, NEW D, NEW X, NEW p \in DOMAIN updateChannelMap(S, D, X)
    PROVE  p \in DOMAIN m_channelMap \/ (p[1] \in S \cup X /\ p[2] \in D \cup X)
  BY DEF updateChannelMap, Links

\* removeChannel(n) leaves the channels that do not end at n.
LEMMA RemoveChannelEnds ==
    ASSUME NEW n, NEW p \in DOMAIN removeChannel(n)
    PROVE  p \in DOMAIN m_channelMap /\ p[1] # n /\ p[2] # n
  BY DEF removeChannel

\* No step leaves a channel that leads to a node it detaches.
LEMMA DestinationsNext ==
    ASSUME DestinationsAttached, [Next]_vars
    PROVE  DestinationsAttached'
  <1> SUFFICES ASSUME NEW p \in DOMAIN m_channelMap'
               PROVE  p[2] \in m_destinationMap' \cup m_sandboxNodes'
    BY DEF DestinationsAttached
  <1>1. ASSUME NEW t \in Thread, NEW n \in Node, AttachDestination(t, n)
        PROVE  p[2] \in m_destinationMap' \cup m_sandboxNodes'
    BY <1>1, UpdateChannelMapEnds DEF AttachDestination, DestinationsAttached
  <1>2. ASSUME NEW t \in Thread, NEW n \in Node, DetachDestination(t, n)
        PROVE  p[2] \in m_destinationMap' \cup m_sandboxNodes'
    BY <1>2, RemoveChannelEnds DEF DetachDestination, DestinationsAttached
  <1>3. ASSUME NEW t \in Thread, NEW n \in Node, addSandboxNode(t, n)
        PROVE  p[2] \in m_destinationMap' \cup m_sandboxNodes'
    BY <1>3, UpdateChannelMapEnds DEF addSandboxNode, DestinationsAttached
  <1>4. ASSUME NEW t \in Thread, NEW n \in Node, removeSandboxNode(t, n)
        PROVE  p[2] \in m_destinationMap' \cup m_sandboxNodes'
    BY <1>4, RemoveChannelEnds DEF removeSandboxNode, DestinationsAttached
  <1>5. ASSUME NEW t \in Thread, NEW n \in Node, AttachSource_Link(t, n)
        PROVE  p[2] \in m_destinationMap' \cup m_sandboxNodes'
    BY <1>5, UpdateChannelMapEnds DEF AttachSource_Link, DestinationsAttached
  <1>6. ASSUME NEW t \in Thread, NEW n \in Node, DetachSource_Unlink(t, n)
        PROVE  p[2] \in m_destinationMap' \cup m_sandboxNodes'
    BY <1>6, RemoveChannelEnds DEF DetachSource_Unlink, DestinationsAttached
  <1>7. ASSUME UNCHANGED <<m_channelMap, m_destinationMap, m_sandboxNodes>>
        PROVE  p[2] \in m_destinationMap' \cup m_sandboxNodes'
    BY <1>7 DEF DestinationsAttached
  <1>8. ASSUME NEW t \in Thread, NEW n \in Node,
               \/ \E r \in Rate : setSampleRate(t, n, r)
               \/ AttachSource(t, n) \/ AttachSource_Print(t, n) \/ DetachSource(t, n)
               \/ DetachSource_Join(t, n) \/ DetachSource_Erase(t, n)
        PROVE  UNCHANGED <<m_channelMap, m_destinationMap, m_sandboxNodes>>
    BY <1>8 DEF setSampleRate, AttachSource, AttachSource_Print, DetachSource,
                DetachSource_Join, DetachSource_Erase, maps
  <1>9. ASSUME NEW n \in Node, WorkerStep(n)
        PROVE  UNCHANGED <<m_channelMap, m_destinationMap, m_sandboxNodes>>
    BY <1>9 DEF WorkerStep, ProcessSignal, ReuseSnapshot, TakeSnapshot, FinishSignal, maps
  <1>10. CASE UNCHANGED vars
    BY <1>7, <1>10 DEF vars, maps
  <1> QED
    BY <1>1, <1>2, <1>3, <1>4, <1>5, <1>6, <1>7, <1>8, <1>9, <1>10 DEF Next, Caller

\* DetachDestination and removeSandboxNode drop a node's channels in the
\* section that drops the node, so with any number of concurrent callers no
\* channel leads to a node that is not attached.
THEOREM DestinationsStayAttached == Spec => []DestinationsAttached
  <1>1. Init => DestinationsAttached
    BY DEF Init, DestinationsAttached
  <1>2. DestinationsAttached /\ [Next]_vars => DestinationsAttached'
    BY DestinationsNext
  <1> QED
    BY <1>1, <1>2, PTL DEF Spec

-----------------------------------------------------------------------------
(* The version protocol *)

\* A step that touches the destinations or the channels bumps the version and
\* leaves the workers' locals alone; every other step keeps all three.
LEMMA VersionStep ==
    ASSUME [Next]_vars
    PROVE  \/ /\ m_destVersion' = m_destVersion + 1
              /\ UNCHANGED workers
           \/ UNCHANGED <<m_destVersion, m_destinationMap, m_channelMap>>
  <1>1. ASSUME NEW t \in Thread, Caller(t)
        PROVE  \/ m_destVersion' = m_destVersion + 1 /\ UNCHANGED workers
               \/ UNCHANGED <<m_destVersion, m_destinationMap, m_channelMap>>
    BY <1>1 DEF Caller, AttachDestination, DetachDestination, setSampleRate, addSandboxNode,
                removeSandboxNode, AttachSource, AttachSource_Link, AttachSource_Print,
                DetachSource, DetachSource_Join, DetachSource_Unlink, DetachSource_Erase, maps
  <1>2. ASSUME NEW n \in Node, WorkerStep(n)
        PROVE  UNCHANGED <<m_destVersion, m_destinationMap, m_channelMap>>
    BY <1>2 DEF WorkerStep, ProcessSignal, ReuseSnapshot, TakeSnapshot, FinishSignal, maps
  <1>3. CASE UNCHANGED vars
    BY <1>3 DEF vars, maps
  <1> QED
    BY <1>1, <1>2, <1>3 DEF Next

\* SnapshotFresh is not inductive by itself: no version a worker remembers may
\* lie ahead of m_destVersion, and at version 0 there are no channels yet.
VersionInv ==
    /\ SnapshotFresh
    /\ \A n \in Node : cached_dest_version[n] <= m_destVersion
    /\ \A n \in Node : current_version[n] <= m_destVersion
    /\ m_destVersion = 0 => DOMAIN m_channelMap = {}

Fresh(n) ==
    /\ w_pc[n] = "process" /\ current_version[n] = m_destVersion
          => Channels(destinations[n]) = LinksOf(n)
    /\ w_pc[n] # "off" /\ cached_dest_version[n] = m_destVersion
          => Channels(cached_destinations[n]) = LinksOf(n)
    /\ cached_dest_version[n] <= m_destVersion
    /\ current_version[n] <= m_destVersion

\* A bump outdates every version a worker remembers.
LEMMA FreshAfterBump ==
    ASSUME TypeOK, NEW n \in Node, Fresh(n),
           m_destVersion' = m_destVersion + 1, UNCHANGED workers
    PROVE  Fresh(n)'
  <1>1. cached_dest_version[n] # m_destVersion + 1 /\ current_version[n] # m_destVersion + 1
    BY DEF TypeOK, Fresh
  <1> QED
    BY <1>1 DEF TypeOK, Fresh, workers

\* While the version stands, the steps of a worker keep its lists fresh.
LEMMA FreshWorker ==
    ASSUME TypeOK, NEW n \in Node, NEW m \in Node, Fresh(n), WorkerStep(m),
           LinksOf(n)' = LinksOf(n), m_destVersion' = m_destVersion
    PROVE  Fresh(n)'
  <1>1. CASE m # n
    BY <1>1 DEF TypeOK, Fresh, WorkerStep, ProcessSignal, ReuseSnapshot, TakeSnapshot, FinishSignal
  <1>2. CASE m = n /\ ProcessSignal(n)
    BY <1>2 DEF TypeOK, Fresh, ProcessSignal, Worker
  <1>3. CASE m = n /\ ReuseSnapshot(n)
    BY <1>3 DEF TypeOK, Fresh, ReuseSnapshot, CacheHit, Worker
  <1>4. CASE m = n /\ TakeSnapshot(n)
    <2>1. Channels(Snapshot(n)) = LinksOf(n)
      BY SnapshotLinks
    <2>2. /\ destinations'[n] = Snapshot(n) /\ cached_destinations'[n] = Snapshot(n)
          /\ cached_dest_version'[n] = current_version[n] /\ current_version'[n] = current_version[n]
      BY <1>4 DEF TypeOK, TakeSnapshot
    <2>3. Channels(destinations'[n]) = LinksOf(n) /\ Channels(cached_destinations'[n]) = LinksOf(n)
      BY <2>1, <2>2
    <2> QED
      BY <2>2, <2>3 DEF Fresh, Channels
  <1>5. CASE m = n /\ FinishSignal(n)
    BY <1>5 DEF TypeOK, Fresh, FinishSignal, Worker
  <1> QED
    BY <1>1, <1>2, <1>3, <1>4, <1>5 DEF WorkerStep

\* A worker that AttachSource starts has version 0 and an empty list.
LEMMA FreshAttach ==
    ASSUME TypeOK, NEW n \in Node, NEW m \in Node, NEW t \in Thread, Fresh(n),
           m_destVersion = 0 => DOMAIN m_channelMap = {},
           AttachSource(t, m), LinksOf(n)' = LinksOf(n)
    PROVE  Fresh(n)'
  <1>1. CASE m # n
    BY <1>1 DEF TypeOK, Fresh, AttachSource
  <1>2. CASE m = n
    <2>1. m_destVersion = 0 => LinksOf(n) = {}
      BY DEF LinksOf, Reachable
    <2>2. Channels({}) = {}
      BY DEF Channels
    <2>3. /\ cached_dest_version'[n] = 0 /\ cached_destinations'[n] = {} /\ w_pc'[n] = "idle"
          /\ UNCHANGED <<m_destVersion, current_version>>
      BY <1>2 DEF TypeOK, AttachSource
    <2>4. m_destVersion = 0 => Channels(cached_destinations'[n]) = LinksOf(n)
      BY <2>1, <2>2, <2>3
    <2> QED
      BY <2>3, <2>4 DEF TypeOK, Fresh, Channels
  <1> QED
    BY <1>1, <1>2

\* A step of a caller keeps what a worker knows fresh, or makes it old.
LEMMA FreshCaller ==
    ASSUME TypeOK, NEW n \in Node, NEW t \in Thread, Caller(t), Fresh(n),
           m_destVersion = 0 => DOMAIN m_channelMap = {},
           LinksOf(n)' = LinksOf(n), m_destVersion' = m_destVersion
    PROVE  Fresh(n)'
  <1>1. PICK m \in Node :
            \/ AttachDestination(t, m) \/ DetachDestination(t, m)
            \/ \E r \in Rate : setSampleRate(t, m, r)
            \/ addSandboxNode(t, m) \/ removeSandboxNode(t, m)
            \/ AttachSource(t, m) \/ AttachSource_Link(t, m) \/ AttachSource_Print(t, m)
            \/ DetachSource(t, m) \/ DetachSource_Join(t, m)
            \/ DetachSource_Unlink(t, m) \/ DetachSource_Erase(t, m)
    BY DEF Caller
  <1>2. CASE AttachSource(t, m)
    BY <1>2, FreshAttach
  <1>3. CASE DetachSource_Join(t, m)
    BY <1>3 DEF TypeOK, Fresh, DetachSource_Join
  <1>4. CASE UNCHANGED workers
    BY <1>4 DEF Fresh, workers
  <1>5. ~AttachSource(t, m) /\ ~DetachSource_Join(t, m) => UNCHANGED workers
    BY <1>1 DEF AttachDestination, DetachDestination, setSampleRate, addSandboxNode,
                removeSandboxNode, AttachSource_Link, AttachSource_Print, DetachSource,
                DetachSource_Unlink, DetachSource_Erase, workers
  <1> QED
    BY <1>2, <1>3, <1>4, <1>5

\* The version protocol is inductive.
LEMMA VersionNext ==
    ASSUME TypeOK, VersionInv, [Next]_vars
    PROVE  VersionInv'
  <1>1. \A n \in Node : Fresh(n)
    BY DEF VersionInv, SnapshotFresh, Fresh
  <1>2. CASE m_destVersion' = m_destVersion + 1 /\ UNCHANGED workers
    <2>1. \A n \in Node : Fresh(n)'
      BY <1>1, <1>2, FreshAfterBump
    <2>2. m_destVersion' # 0
      BY <1>2 DEF TypeOK
    <2> QED
      BY <2>1, <2>2 DEF VersionInv, SnapshotFresh, Fresh
  <1>3. CASE UNCHANGED <<m_destVersion, m_destinationMap, m_channelMap>>
    <2>1. ASSUME NEW n \in Node PROVE Fresh(n)'
      <3>1. LinksOf(n)' = LinksOf(n)
        BY <1>3 DEF LinksOf, Reachable
      <3>2. CASE \E t \in Thread : Caller(t)
        BY <1>1, <1>3, <3>1, <3>2, FreshCaller DEF VersionInv
      <3>3. CASE \E m \in Node : WorkerStep(m)
        BY <1>1, <1>3, <3>1, <3>3, FreshWorker
      <3>4. CASE UNCHANGED vars
        BY <1>1, <3>1, <3>4 DEF Fresh, vars, maps, workers
      <3> QED
        BY <3>2, <3>3, <3>4 DEF Next
    <2> QED
      BY <1>3, <2>1 DEF VersionInv, SnapshotFresh, Fresh
  <1> QED
    BY <1>2, <1>3, VersionStep

\* What a worker remembers is never ahead of the maps.
LEMMA VersionsHold == Spec => []VersionInv
  <1>1. Init => VersionInv
    <2> SUFFICES ASSUME Init PROVE VersionInv
      OBVIOUS
    <2>1. \A n \in Node : w_pc[n] = "off" /\ cached_dest_version[n] = 0 /\ current_version[n] = 0
      BY DEF Init
    <2> QED
      BY <2>1 DEF Init, VersionInv, SnapshotFresh
  <1>2. TypeOK /\ VersionInv /\ [Next]_vars => VersionInv'
    BY VersionNext
  <1> QED
    BY <1>1, <1>2, TypeCorrect, PTL DEF Spec

\* Reusing the cached destination list without dest_mutex is sound: whatever
\* the callers do meanwhile, a worker that loaded the version in force works
\* on exactly the destinations and Channel objects of that moment.
THEOREM SnapshotsFresh == Spec => []SnapshotFresh
  <1>1. VersionInv => SnapshotFresh
    BY DEF VersionInv
  <1> QED
    BY <1>1, VersionsHold, PTL

-----------------------------------------------------------------------------
(* Calls that do not overlap *)

\* As long as no call met another, nothing happens between DetachSource's last
\* two steps, so the source it is about to erase has no channel left.
SerialInv ==
    /\ SourcesAttached
    /\ overlap \/ \A t \in Thread, n \in Node : op[t] = Op("erase", n) =>
                      \A p \in DOMAIN m_channelMap : p[1] # n

\* A thread inside a call is not idle.
LEMMA InsideNotIdle ==
    ASSUME NEW step \in Steps, NEW n
    PROVE  Op(step, n) # Idle
  <1>1. Op(step, n).at = step /\ Idle.at = "idle"
    BY DEF Op, Idle
  <1>2. step # "idle"
    BY DEF Steps
  <1> QED
    BY <1>1, <1>2

\* A call that meets no other finds every thread idle.
LEMMA BeginAlone ==
    ASSUME NEW t \in Thread, Begin(t), ~overlap'
    PROVE  ~overlap /\ \A u \in Thread : op[u] = Idle
  BY DEF Begin

\* Each step of a call leaves no channel with a source that is not attached,
\* unless two calls overlapped.
LEMMA SerialCaller ==
    ASSUME SerialInv, TypeOK, NEW t \in Thread, Caller(t)
    PROVE  SerialInv'
  <1> SUFFICES ASSUME ~overlap' PROVE SerialInv'
    BY DEF SerialInv, SourcesAttached
  <1>1. PICK n \in Node :
            \/ AttachDestination(t, n) \/ DetachDestination(t, n)
            \/ \E r \in Rate : setSampleRate(t, n, r)
            \/ addSandboxNode(t, n) \/ removeSandboxNode(t, n)
            \/ AttachSource(t, n) \/ AttachSource_Link(t, n) \/ AttachSource_Print(t, n)
            \/ DetachSource(t, n) \/ DetachSource_Join(t, n)
            \/ DetachSource_Unlink(t, n) \/ DetachSource_Erase(t, n)
    BY DEF Caller
  <1>2. CASE AttachDestination(t, n)
    <2>1. ~overlap /\ \A u \in Thread : op[u] = Idle
      BY <1>2, BeginAlone DEF AttachDestination, Call
    <2>2. \A u \in Thread, m \in Node : op'[u] # Op("erase", m)
      BY <1>2, <2>1, InsideNotIdle DEF AttachDestination, Steps
    <2>3. \A p \in DOMAIN m_channelMap' : p[1] \in m_sourceMap \cup m_sandboxNodes
      BY <1>2, <2>1, UpdateChannelMapEnds DEF AttachDestination, SerialInv, SourcesAttached
    <2>4. SourcesAttached'
      BY <1>2, <2>3 DEF AttachDestination, SourcesAttached
    <2> QED
      BY <2>2, <2>4 DEF SerialInv
  <1>3. CASE DetachDestination(t, n)
    BY <1>3, BeginAlone, RemoveChannelEnds
       DEF DetachDestination, Call, SerialInv, SourcesAttached
  <1>4. CASE \E r \in Rate : setSampleRate(t, n, r)
    BY <1>4, BeginAlone DEF setSampleRate, Call, SerialInv, SourcesAttached, maps
  <1>5. CASE addSandboxNode(t, n)
    <2>1. ~overlap /\ \A u \in Thread : op[u] = Idle
      BY <1>5, BeginAlone DEF addSandboxNode, SandboxCall
    <2>2. \A u \in Thread, m \in Node : op'[u] # Op("erase", m)
      BY <1>5, <2>1, InsideNotIdle DEF addSandboxNode, Steps
    <2>3. \A p \in DOMAIN m_channelMap' : p[1] \in m_sourceMap \cup m_sandboxNodes'
      BY <1>5, <2>1, UpdateChannelMapEnds DEF addSandboxNode, SerialInv, SourcesAttached
    <2>4. SourcesAttached'
      BY <1>5, <2>3 DEF addSandboxNode, SourcesAttached
    <2> QED
      BY <2>2, <2>4 DEF SerialInv
  <1>6. CASE removeSandboxNode(t, n)
    BY <1>6, BeginAlone, RemoveChannelEnds
       DEF removeSandboxNode, SandboxCall, SerialInv, SourcesAttached
  <1>7. CASE AttachSource(t, n)
    BY <1>7, BeginAlone DEF AttachSource, Call, SerialInv, SourcesAttached, TypeOK, Op
  <1>8. CASE AttachSource_Link(t, n)
    BY <1>8, UpdateChannelMapEnds
       DEF AttachSource_Link, At, SerialInv, SourcesAttached, TypeOK, Op, Idle, history
  <1>9. CASE AttachSource_Print(t, n)
    BY <1>9 DEF AttachSource_Print, SerialInv, SourcesAttached, TypeOK, Op, Idle, maps, history
  <1>10. CASE DetachSource(t, n)
    BY <1>10, BeginAlone DEF DetachSource, Call, SerialInv, SourcesAttached, TypeOK, Op, maps
  <1>11. CASE DetachSource_Join(t, n)
    BY <1>11 DEF DetachSource_Join, SerialInv, SourcesAttached, TypeOK, Op, maps, history
  <1>12. CASE DetachSource_Unlink(t, n)
    BY <1>12, RemoveChannelEnds
       DEF DetachSource_Unlink, At, SerialInv, SourcesAttached, TypeOK, Op, Idle, history
  <1>13. CASE DetachSource_Erase(t, n)
    BY <1>13 DEF DetachSource_Erase, At, SerialInv, SourcesAttached, TypeOK, Op, Idle, history
  <1> QED
    BY <1>1, <1>2, <1>3, <1>4, <1>5, <1>6, <1>7, <1>8, <1>9, <1>10, <1>11, <1>12, <1>13

\* Workers in ProcessSignal do not touch the channel map.
LEMMA SerialWorker ==
    ASSUME SerialInv, NEW n \in Node, WorkerStep(n)
    PROVE  SerialInv'
  BY DEF SerialInv, SourcesAttached, WorkerStep, ProcessSignal, ReuseSnapshot, TakeSnapshot,
         FinishSignal, maps, history

\* The invariant is inductive.
LEMMA SerialNext ==
    ASSUME TypeOK, SerialInv, [Next]_vars
    PROVE  SerialInv'
  <1>1. CASE UNCHANGED vars
    BY <1>1 DEF SerialInv, SourcesAttached, vars, maps, history
  <1> QED
    BY <1>1, SerialCaller, SerialWorker DEF Next

\* At first there are no channels and nobody is inside a call.
LEMMA SerialInit == Init => SerialInv
  BY DEF Init, SerialInv, SourcesAttached, Idle, Op

\* As long as no call of a thread meets a call of another, no channel is left
\* with a source that DetachSource has erased.
THEOREM SourcesStayAttached == Spec => []SourcesAttached
  <1>1. TypeOK /\ SerialInv /\ [Next]_vars => SerialInv'
    BY SerialNext
  <1>2. SerialInv => SourcesAttached
    BY DEF SerialInv
  <1> QED
    BY <1>1, <1>2, SerialInit, TypeCorrect, PTL DEF Spec

\* Without sandbox nodes, attached endpoints are endpoints printStatus finds.
LEMMA AttachedPrintable ==
    ASSUME SourcesAttached, DestinationsAttached, ~overlap, m_sandboxNodes = {}
    PROVE  Printable(DOMAIN m_channelMap, m_sourceMap, m_destinationMap)
  BY DEF SourcesAttached, DestinationsAttached, Printable

\* Only printStatus crashes, and it crashes in a state it cannot print.
LEMMA CrashUnprintable ==
    ASSUME [Next]_vars, ~crashed, crashed'
    PROVE  ~Printable(DOMAIN m_channelMap, m_sourceMap, m_destinationMap)'
  <1>1. ASSUME NEW t \in Thread, NEW n \in Node, AttachDestination(t, n)
        PROVE  ~Printable(DOMAIN m_channelMap, m_sourceMap, m_destinationMap)'
    BY <1>1 DEF AttachDestination, Printable
  <1>2. ASSUME NEW t \in Thread, NEW n \in Node, AttachSource_Print(t, n)
        PROVE  ~Printable(DOMAIN m_channelMap, m_sourceMap, m_destinationMap)'
    BY <1>2 DEF AttachSource_Print, Printable, maps
  <1>3. ASSUME NEW t \in Thread, NEW n \in Node,
               \/ DetachDestination(t, n)
               \/ \E r \in Rate : setSampleRate(t, n, r)
               \/ addSandboxNode(t, n) \/ removeSandboxNode(t, n)
               \/ AttachSource(t, n) \/ AttachSource_Link(t, n)
               \/ DetachSource(t, n) \/ DetachSource_Join(t, n)
               \/ DetachSource_Unlink(t, n) \/ DetachSource_Erase(t, n)
        PROVE  UNCHANGED crashed
    BY <1>3 DEF DetachDestination, setSampleRate, addSandboxNode, removeSandboxNode,
                AttachSource, AttachSource_Link, DetachSource, DetachSource_Join,
                DetachSource_Unlink, DetachSource_Erase
  <1>4. ASSUME NEW n \in Node, WorkerStep(n) PROVE UNCHANGED crashed
    BY <1>4 DEF WorkerStep, ProcessSignal, ReuseSnapshot, TakeSnapshot, FinishSignal
  <1>5. CASE UNCHANGED vars
    BY <1>5 DEF vars
  <1> QED
    BY <1>1, <1>2, <1>3, <1>4, <1>5 DEF Next, Caller

\* A program that has crashed takes no step.
LEMMA CrashStops ==
    ASSUME [Next]_vars, crashed
    PROVE  UNCHANGED vars
  <1>1. ASSUME NEW t \in Thread, Caller(t) PROVE FALSE
    BY <1>1 DEF Caller, AttachDestination, DetachDestination, setSampleRate, addSandboxNode,
                removeSandboxNode, AttachSource, AttachSource_Link, AttachSource_Print,
                DetachSource, DetachSource_Join, DetachSource_Unlink, DetachSource_Erase,
                Call, SandboxCall, Begin, At
  <1>2. ASSUME NEW n \in Node, WorkerStep(n) PROVE FALSE
    BY <1>2 DEF WorkerStep, ProcessSignal, ReuseSnapshot, TakeSnapshot, FinishSignal, Worker
  <1> QED
    BY <1>1, <1>2 DEF Next

\* printStatus finds both endpoints of every channel, unless a sandbox node is
\* registered or two calls overlapped.
THEOREM PrintStatusSafe == Spec => []NoNullEndpoint
  <1>1. Init => NoNullEndpoint
    BY DEF Init, NoNullEndpoint
  <1>2. ASSUME SourcesAttached', DestinationsAttached', NoNullEndpoint, [Next]_vars
        PROVE  NoNullEndpoint'
    <2>1. CASE crashed
      BY <1>2, <2>1, CrashStops DEF NoNullEndpoint, vars, maps, history
    <2>2. CASE ~crashed /\ crashed'
      <3>1. ~Printable(DOMAIN m_channelMap, m_sourceMap, m_destinationMap)'
        BY <1>2, <2>2, CrashUnprintable
      <3>2. (SourcesAttached /\ DestinationsAttached /\ ~overlap /\ m_sandboxNodes = {}
                => Printable(DOMAIN m_channelMap, m_sourceMap, m_destinationMap))'
        BY DEF SourcesAttached, DestinationsAttached, Printable
      <3> QED
        BY <1>2, <3>1, <3>2 DEF NoNullEndpoint
    <2>3. CASE ~crashed'
      BY <2>3 DEF NoNullEndpoint
    <2> QED
      BY <2>1, <2>2, <2>3
  <1>3. SourcesAttached' /\ DestinationsAttached' /\ NoNullEndpoint /\ [Next]_vars
            => NoNullEndpoint'
    BY <1>2
  <1> QED
    BY <1>1, <1>3, SourcesStayAttached, DestinationsStayAttached, PTL DEF Spec

-----------------------------------------------------------------------------
(* Complete links *)

\* A pair without a channel is one whose source is between its insertion and
\* its linking, or between its unlinking and its erasure.
Pending(n) == \E t \in Thread : op[t] = Op("link", n) \/ op[t] = Op("erase", n)
LinkInv ==
    ~overlap /\ ~sandboxed =>
        \A x, y \in m_sourceMap \cap m_destinationMap :
            <<x, y>> \in DOMAIN m_channelMap \/ Pending(x) \/ Pending(y)

\* When every thread is idle nothing is pending.
LEMMA IdlePending ==
    ASSUME \A u \in Thread : op[u] = Idle, NEW x
    PROVE  ~Pending(x)
  BY InsideNotIdle DEF Pending, Steps

\* What is pending belongs to the one call that holds src_mutex.
LEMMA PendingOf ==
    ASSUME TypeOK, NEW t \in Thread, NEW n \in Node, NEW step \in Steps, op[t] = Op(step, n),
           NEW x \in Node, Pending(x)
    PROVE  x = n /\ step \in {"link", "erase"}
  <1>1. PICK u \in Thread : op[u] = Op("link", x) \/ op[u] = Op("erase", x)
    BY DEF Pending
  <1>2. op[u] # Idle /\ op[t] # Idle
    BY <1>1 DEF Op, Idle
  <1>3. u = t
    BY <1>2 DEF TypeOK
  <1> QED
    BY <1>1, <1>3 DEF Op

\* Each step of a call links what it attaches or is still about to.
LEMMA LinkCaller ==
    ASSUME TypeOK, LinkInv, NEW t \in Thread, Caller(t)
    PROVE  LinkInv'
  <1> SUFFICES ASSUME ~overlap', ~sandboxed',
                      NEW x \in (m_sourceMap \cap m_destinationMap)',
                      NEW y \in (m_sourceMap \cap m_destinationMap)'
               PROVE  (<<x, y>> \in DOMAIN m_channelMap \/ Pending(x) \/ Pending(y))'
    BY DEF LinkInv
  <1>0. x \in Node /\ y \in Node
    BY TypeCaller DEF Caller, TypeOK
  <1>1. PICK n \in Node :
            \/ AttachDestination(t, n) \/ DetachDestination(t, n)
            \/ \E r \in Rate : setSampleRate(t, n, r)
            \/ addSandboxNode(t, n) \/ removeSandboxNode(t, n)
            \/ AttachSource(t, n) \/ AttachSource_Link(t, n) \/ AttachSource_Print(t, n)
            \/ DetachSource(t, n) \/ DetachSource_Join(t, n)
            \/ DetachSource_Unlink(t, n) \/ DetachSource_Erase(t, n)
    BY DEF Caller
  <1> DEFINE Linked(p, q) == <<p, q>> \in DOMAIN m_channelMap
  <1>2. CASE AttachDestination(t, n)
    BY <1>2 DEF AttachDestination, updateChannelMap, Links
  <1>3. CASE DetachDestination(t, n)
    <2>1. Linked(x, y) /\ x # n /\ y # n
      BY <1>3, BeginAlone, IdlePending DEF DetachDestination, Call, LinkInv
    <2> QED
      BY <1>3, <2>1 DEF DetachDestination, removeChannel
  <1>4. CASE \E r \in Rate : setSampleRate(t, n, r)
    BY <1>4, BeginAlone, IdlePending DEF setSampleRate, Call, LinkInv, maps
  <1>5. CASE addSandboxNode(t, n) \/ removeSandboxNode(t, n)
    BY <1>5 DEF addSandboxNode, removeSandboxNode, SandboxCall
  <1>6. CASE AttachSource(t, n)
    <2>1. op'[t] = Op("link", n)
      BY <1>6 DEF AttachSource, TypeOK
    <2>2. CASE x = n \/ y = n
      BY <2>1, <2>2 DEF Pending
    <2>3. CASE x # n /\ y # n
      BY <1>6, <2>3, BeginAlone, IdlePending DEF AttachSource, Call, LinkInv
    <2> QED
      BY <2>2, <2>3
  <1>7. CASE AttachSource_Link(t, n)
    BY <1>7 DEF AttachSource_Link, updateChannelMap, Links
  <1>8. CASE AttachSource_Print(t, n)
    <2>1. ~Pending(x) /\ ~Pending(y)
      BY <1>0, <1>8, PendingOf DEF AttachSource_Print, At, Steps
    <2> QED
      BY <1>8, <2>1 DEF AttachSource_Print, LinkInv, maps, history
  <1>9. CASE DetachSource(t, n)
    BY <1>9, BeginAlone, IdlePending DEF DetachSource, Call, LinkInv, maps
  <1>10. CASE DetachSource_Join(t, n)
    <2>1. ~Pending(x) /\ ~Pending(y)
      BY <1>0, <1>10, PendingOf DEF DetachSource_Join, At, Steps
    <2> QED
      BY <1>10, <2>1 DEF DetachSource_Join, LinkInv, maps, history
  <1>11. CASE DetachSource_Unlink(t, n)
    <2>1. op'[t] = Op("erase", n)
      BY <1>11 DEF DetachSource_Unlink, TypeOK
    <2>2. CASE x = n \/ y = n
      BY <2>1, <2>2 DEF Pending
    <2>3. CASE x # n /\ y # n
      <3>1. ~Pending(x) /\ ~Pending(y)
        BY <1>0, <1>11, PendingOf DEF DetachSource_Unlink, At, Steps
      <3>2. Linked(x, y)
        BY <1>11, <3>1 DEF DetachSource_Unlink, LinkInv, history
      <3> QED
        BY <1>11, <2>3, <3>2 DEF DetachSource_Unlink, removeChannel
    <2> QED
      BY <2>2, <2>3
  <1>12. CASE DetachSource_Erase(t, n)
    <2>1. x # n /\ y # n
      BY <1>12 DEF DetachSource_Erase
    <2>2. ~Pending(x) /\ ~Pending(y)
      BY <1>0, <1>12, <2>1, PendingOf DEF DetachSource_Erase, At, Steps
    <2> QED
      BY <1>12, <2>2 DEF DetachSource_Erase, LinkInv, history
  <1> QED
    BY <1>1, <1>2, <1>3, <1>4, <1>5, <1>6, <1>7, <1>8, <1>9, <1>10, <1>11, <1>12

\* As long as no call met another and no sandbox node was touched, nodes with
\* both devices attached are linked whenever no call is in progress.
THEOREM LinksStayComplete == Spec => []LinksComplete
  <1>1. Init => LinkInv
    BY DEF Init, LinkInv
  <1>2. TypeOK /\ LinkInv /\ [Next]_vars => LinkInv'
    <2> SUFFICES ASSUME TypeOK, LinkInv, [Next]_vars PROVE LinkInv'
      OBVIOUS
    <2>1. ASSUME NEW n \in Node, WorkerStep(n) PROVE LinkInv'
      BY <2>1 DEF LinkInv, Pending, WorkerStep, ProcessSignal, ReuseSnapshot, TakeSnapshot,
                  FinishSignal, maps, history
    <2>2. CASE UNCHANGED vars
      BY <2>2 DEF LinkInv, Pending, vars, maps, history
    <2> QED
      BY <2>1, <2>2, LinkCaller DEF Next
  <1>3. LinkInv => LinksComplete
    <2> SUFFICES ASSUME LinkInv, ~overlap, ~sandboxed, \A t \in Thread : op[t] = Idle,
                        NEW x \in m_sourceMap \cap m_destinationMap,
                        NEW y \in m_sourceMap \cap m_destinationMap
                 PROVE  <<x, y>> \in DOMAIN m_channelMap
      BY DEF LinksComplete
    <2> QED
      BY IdlePending DEF LinkInv
  <1> QED
    BY <1>1, <1>2, <1>3, TypeCorrect, PTL DEF Spec

-----------------------------------------------------------------------------
(* The read of the destinations as one step *)

\* Only an attached source has a worker, and DetachSource has joined the worker
\* before it unlinks the source.
WorkerInv ==
    /\ \A n \in Node : w_pc[n] # "off" => n \in m_sourceMap
    /\ \A t \in Thread, n \in Node :
           op[t] = Op("unlink", n) \/ op[t] = Op("erase", n) => w_pc[n] = "off"

\* Steps of callers keep workers and sources together.
LEMMA WorkerCaller ==
    ASSUME TypeOK, WorkerInv, NEW t \in Thread, Caller(t)
    PROVE  WorkerInv'
  <1>1. PICK n \in Node :
            \/ AttachDestination(t, n) \/ DetachDestination(t, n)
            \/ \E r \in Rate : setSampleRate(t, n, r)
            \/ addSandboxNode(t, n) \/ removeSandboxNode(t, n)
            \/ AttachSource(t, n) \/ AttachSource_Link(t, n) \/ AttachSource_Print(t, n)
            \/ DetachSource(t, n) \/ DetachSource_Join(t, n)
            \/ DetachSource_Unlink(t, n) \/ DetachSource_Erase(t, n)
    BY DEF Caller
  <1>2. CASE AttachSource(t, n)
    <2>1. \A u \in Thread : op[u] = Idle
      BY <1>2, NoThreadAssumption DEF AttachSource, TypeOK
    <2> QED
      <3>1. \A u \in Thread, m \in Node :
                op'[u] # Op("unlink", m) /\ op'[u] # Op("erase", m)
        <4>1. \A u \in Thread : op'[u] = Idle \/ op'[u] = Op("link", n)
          BY <1>2, <2>1 DEF AttachSource, TypeOK
        <4>2. \A m : Op("link", n) # Op("unlink", m) /\ Op("link", n) # Op("erase", m)
          BY DEF Op
        <4> QED
          BY <4>1, <4>2, InsideNotIdle DEF Steps
      <3>2. \A m \in Node : w_pc'[m] # "off" => m \in m_sourceMap'
        BY <1>2 DEF AttachSource, WorkerInv, TypeOK
      <3> QED
        BY <3>1, <3>2 DEF WorkerInv
  <1>3. CASE DetachSource_Join(t, n)
    BY <1>3 DEF DetachSource_Join, WorkerInv, TypeOK, Op, maps
  <1>4. CASE DetachSource_Unlink(t, n)
    BY <1>4 DEF DetachSource_Unlink, At, WorkerInv, TypeOK, Op, workers
  <1>5. CASE DetachSource_Erase(t, n)
    BY <1>5 DEF DetachSource_Erase, At, WorkerInv, TypeOK, Op, Idle, workers
  <1>6. CASE AttachSource_Link(t, n) \/ AttachSource_Print(t, n) \/ DetachSource(t, n)
    <2>1. UNCHANGED <<w_pc, m_sourceMap>>
      BY <1>6 DEF AttachSource_Link, AttachSource_Print, DetachSource, maps, workers
    <2>2. \A u \in Thread : \/ op'[u] = op[u]
                            \/ op'[u] \in {Idle, Op("print", n), Op("join", n)}
      BY <1>6 DEF AttachSource_Link, AttachSource_Print, DetachSource, TypeOK
    <2>3. \A m : /\ {Op("unlink", m), Op("erase", m)} \cap {Op("print", n), Op("join", n)} = {}
                 /\ Op("unlink", m) # Idle /\ Op("erase", m) # Idle
      BY InsideNotIdle DEF Op, Steps
    <2>4. \A u \in Thread, m \in Node :
              op'[u] = Op("unlink", m) \/ op'[u] = Op("erase", m) => op'[u] = op[u]
      BY <2>2, <2>3
    <2> QED
      BY <2>1, <2>4 DEF WorkerInv
  <1>7. CASE \/ AttachDestination(t, n) \/ DetachDestination(t, n)
             \/ \E r \in Rate : setSampleRate(t, n, r)
             \/ addSandboxNode(t, n) \/ removeSandboxNode(t, n)
    BY <1>7 DEF AttachDestination, DetachDestination, setSampleRate, addSandboxNode,
                removeSandboxNode, WorkerInv, maps, workers
  <1> QED
    BY <1>1, <1>2, <1>3, <1>4, <1>5, <1>6, <1>7

\* Sources and their workers stay together.
LEMMA WorkersAttached == Spec => []WorkerInv
  <1>1. Init => WorkerInv
    BY DEF Init, WorkerInv
  <1>2. TypeOK /\ WorkerInv /\ [Next]_vars => WorkerInv'
    <2> SUFFICES ASSUME TypeOK, WorkerInv, [Next]_vars PROVE WorkerInv'
      OBVIOUS
    <2>1. ASSUME NEW n \in Node, WorkerStep(n) PROVE WorkerInv'
      <3>1. /\ UNCHANGED <<op, m_sourceMap>>
            /\ w_pc[n] # "off"
            /\ \A m \in Node : m # n => w_pc'[m] = w_pc[m]
        BY <2>1 DEF TypeOK, WorkerStep, ProcessSignal, ReuseSnapshot, TakeSnapshot,
                    FinishSignal, Worker, maps
      <3> QED
        BY <3>1 DEF WorkerInv
    <2>2. CASE UNCHANGED vars
      BY <2>2 DEF WorkerInv, vars, maps, workers
    <2> QED
      BY <2>1, <2>2, WorkerCaller DEF Next
  <1> QED
    BY <1>1, <1>2, TypeCorrect, PTL DEF Spec

\* A step that moves no worker's view is a Relink of the abstract specification.
LEMMA RelinkStep ==
    ASSUME TypeOK', \A n \in Node : /\ HasLinks(n)' <=> HasLinks(n)
                                    /\ LinksInHand(n)' = LinksInHand(n)
    PROVE  View!Relink
  <1>1. ASSUME NEW n \in Node PROVE LinksOf(n)' \in SUBSET (Node \X Nat)
    <2>1. \A d \in Reachable(n)' : d \in Node /\ m_channelMap'[<<n, d>>] \in Nat
      BY DEF TypeOK, Reachable
    <2>2. \A d \in Reachable(n)' : <<d, m_channelMap'[<<n, d>>]>> \in Node \X Nat
      BY <2>1
    <2>3. LinksOf(n)' = {<<d, m_channelMap'[<<n, d>>]>> : d \in Reachable(n)'}
      BY DEF LinksOf
    <2> QED
      BY <2>2, <2>3
  <1>2. [n \in Node |-> LinksOf(n)]' \in [Node -> SUBSET (Node \X Nat)]
    BY <1>1
  <1>3. {n \in Node : HasLinks(n)}' = {n \in Node : HasLinks(n)}
    OBVIOUS
  <1>4. [n \in Node |-> LinksInHand(n)]' = [n \in Node |-> LinksInHand(n)]
    OBVIOUS
  <1> QED
    BY <1>2, <1>3, <1>4 DEF View!Relink

\* A step in which one worker comes to hold the links of this moment is a
\* ReadLinks of the abstract specification.
LEMMA ReadStep ==
    ASSUME NEW m \in Node, ~HasLinks(m), HasLinks(m)', LinksInHand(m)' = LinksOf(m),
           \A n \in Node : LinksOf(n)' = LinksOf(n),
           \A n \in Node \ {m} : /\ HasLinks(n)' <=> HasLinks(n)
                                 /\ LinksInHand(n)' = LinksInHand(n)
    PROVE  View!ReadLinks(m)
  <1>1. [n \in Node |-> LinksOf(n)]' = [n \in Node |-> LinksOf(n)]
    OBVIOUS
  <1>2. {n \in Node : HasLinks(n)}' = {n \in Node : HasLinks(n)} \cup {m}
    OBVIOUS
  <1>3. [n \in Node |-> LinksInHand(n)]' = [[n \in Node |-> LinksInHand(n)] EXCEPT ![m] = LinksOf(m)]
    OBVIOUS
  <1> QED
    BY <1>1, <1>2, <1>3 DEF View!ReadLinks

\* A step in which one worker gives its links up is a FinishBurst.
LEMMA FinishStep ==
    ASSUME NEW m \in Node, HasLinks(m), ~HasLinks(m)', LinksInHand(m)' = {},
           \A n \in Node : LinksOf(n)' = LinksOf(n),
           \A n \in Node \ {m} : /\ HasLinks(n)' <=> HasLinks(n)
                                 /\ LinksInHand(n)' = LinksInHand(n)
    PROVE  View!FinishBurst(m)
  <1>1. [n \in Node |-> LinksOf(n)]' = [n \in Node |-> LinksOf(n)]
    OBVIOUS
  <1>2. {n \in Node : HasLinks(n)}' = {n \in Node : HasLinks(n)} \ {m}
    OBVIOUS
  <1>3. [n \in Node |-> LinksInHand(n)]' = [[n \in Node |-> LinksInHand(n)] EXCEPT ![m] = {}]
    OBVIOUS
  <1> QED
    BY <1>1, <1>2, <1>3 DEF View!FinishBurst

\* A step of a caller leaves every worker's view where it is.
LEMMA ViewCaller ==
    ASSUME TypeOK, WorkerInv, NEW t \in Thread, Caller(t), NEW n \in Node
    PROVE  (HasLinks(n)' <=> HasLinks(n)) /\ LinksInHand(n)' = LinksInHand(n)
  <1>1. PICK m \in Node :
            \/ AttachDestination(t, m) \/ DetachDestination(t, m)
            \/ \E r \in Rate : setSampleRate(t, m, r)
            \/ addSandboxNode(t, m) \/ removeSandboxNode(t, m)
            \/ AttachSource(t, m) \/ AttachSource_Link(t, m) \/ AttachSource_Print(t, m)
            \/ DetachSource(t, m) \/ DetachSource_Join(t, m)
            \/ DetachSource_Unlink(t, m) \/ DetachSource_Erase(t, m)
    BY DEF Caller
  <1>2. CASE n = m /\ AttachSource(t, m)
    <2>1. w_pc[n] = "off" /\ w_pc'[n] = "idle"
      BY <1>2 DEF AttachSource, WorkerInv, TypeOK
    <2> QED
      BY <2>1 DEF HasLinks, LinksInHand
  <1>3. CASE n = m /\ DetachSource_Join(t, m)
    <2>1. w_pc[n] = "idle" /\ w_pc'[n] = "off"
      BY <1>3 DEF DetachSource_Join, TypeOK
    <2> QED
      BY <2>1 DEF HasLinks, LinksInHand
  <1>4. ASSUME w_pc'[n] = w_pc[n], UNCHANGED <<current_version, destinations>>,
               cached_dest_version'[n] = cached_dest_version[n],
               cached_destinations'[n] = cached_destinations[n]
        PROVE  (HasLinks(n)' <=> HasLinks(n)) /\ LinksInHand(n)' = LinksInHand(n)
    BY <1>4 DEF HasLinks, LinksInHand, CacheHit, Channels
  <1>5. CASE n # m /\ (AttachSource(t, m) \/ DetachSource_Join(t, m))
    <2>1. CASE AttachSource(t, m)
      BY <1>4, <1>5, <2>1 DEF AttachSource, TypeOK
    <2>2. CASE DetachSource_Join(t, m)
      BY <1>4, <1>5, <2>2 DEF DetachSource_Join, TypeOK
    <2> QED
      BY <1>5, <2>1, <2>2
  <1>6. CASE ~AttachSource(t, m) /\ ~DetachSource_Join(t, m)
    <2>1. UNCHANGED workers
      BY <1>1, <1>6 DEF AttachDestination, DetachDestination, setSampleRate, addSandboxNode,
                removeSandboxNode, AttachSource_Link, AttachSource_Print, DetachSource,
                DetachSource_Unlink, DetachSource_Erase, workers
    <2> QED
      BY <1>4, <2>1 DEF workers
  <1> QED
    BY <1>1, <1>2, <1>3, <1>5, <1>6

\* A step of one worker moves no other worker's view, and no link.
LEMMA ViewOthers ==
    ASSUME TypeOK, NEW m \in Node, WorkerStep(m), NEW n \in Node
    PROVE  /\ LinksOf(n)' = LinksOf(n)
           /\ n # m => (HasLinks(n)' <=> HasLinks(n)) /\ LinksInHand(n)' = LinksInHand(n)
  <1>1. UNCHANGED maps
    BY DEF WorkerStep, ProcessSignal, ReuseSnapshot, TakeSnapshot, FinishSignal
  <1>2. LinksOf(n)' = LinksOf(n)
    BY <1>1 DEF LinksOf, Reachable, maps
  <1>3. n # m => /\ w_pc'[n] = w_pc[n] /\ current_version'[n] = current_version[n]
                 /\ destinations'[n] = destinations[n]
                 /\ cached_dest_version'[n] = cached_dest_version[n]
                 /\ cached_destinations'[n] = cached_destinations[n]
    <2>1. CASE ProcessSignal(m)
      BY <2>1 DEF TypeOK, ProcessSignal
    <2>2. CASE ReuseSnapshot(m)
      BY <2>2 DEF TypeOK, ReuseSnapshot
    <2>3. CASE TakeSnapshot(m)
      BY <2>3 DEF TypeOK, TakeSnapshot
    <2>4. CASE FinishSignal(m)
      BY <2>4 DEF TypeOK, FinishSignal
    <2> QED
      BY <2>1, <2>2, <2>3, <2>4 DEF WorkerStep
  <1> QED
    BY <1>2, <1>3 DEF HasLinks, LinksInHand, CacheHit, Channels

\* Every step of a worker is a step of the abstract specification: the load of
\* a version whose list is cached, or the locked copy, is the read.
LEMMA ViewWorker ==
    ASSUME TypeOK, TypeOK', VersionInv, NEW m \in Node, WorkerStep(m)
    PROVE  View!Next
  <1>1. \A n \in Node : LinksOf(n)' = LinksOf(n)
    BY ViewOthers
  <1>2. \A n \in Node \ {m} : /\ HasLinks(n)' <=> HasLinks(n)
                              /\ LinksInHand(n)' = LinksInHand(n)
    BY ViewOthers
  <1>3. CASE ProcessSignal(m) /\ CacheHit(m)'
    <2>1. /\ w_pc[m] = "idle" /\ w_pc'[m] = "loaded" /\ current_version'[m] = m_destVersion
          /\ UNCHANGED <<cached_dest_version, cached_destinations>>
      BY <1>3 DEF ProcessSignal, Worker, TypeOK
    <2>2. cached_dest_version[m] = m_destVersion
      BY <1>3, <2>1 DEF CacheHit
    <2>3. Channels(cached_destinations[m]) = LinksOf(m)
      BY <2>1, <2>2 DEF VersionInv, SnapshotFresh
    <2>4. ~HasLinks(m) /\ HasLinks(m)' /\ LinksInHand(m)' = Channels(cached_destinations[m])
      BY <1>3, <2>1 DEF HasLinks, LinksInHand, Channels
    <2> QED
      BY <1>1, <1>2, <2>3, <2>4, ReadStep DEF View!Next
  <1>4. CASE ProcessSignal(m) /\ ~CacheHit(m)'
    <2>1. w_pc[m] = "idle" /\ w_pc'[m] = "loaded"
      BY <1>4 DEF ProcessSignal, Worker, TypeOK
    <2>2. ~HasLinks(m) /\ ~HasLinks(m)' /\ LinksInHand(m) = {} /\ LinksInHand(m)' = {}
      BY <1>4, <2>1 DEF HasLinks, LinksInHand
    <2> QED
      BY <1>2, <2>2, RelinkStep DEF View!Next
  <1>5. CASE ReuseSnapshot(m)
    <2>1. /\ w_pc[m] = "loaded" /\ CacheHit(m) /\ w_pc'[m] = "process"
          /\ destinations'[m] = cached_destinations[m]
      BY <1>5 DEF ReuseSnapshot, Worker, TypeOK
    <2>2. HasLinks(m) /\ HasLinks(m)' /\ LinksInHand(m)' = LinksInHand(m)
      BY <2>1 DEF HasLinks, LinksInHand, Channels
    <2> QED
      BY <1>2, <2>2, RelinkStep DEF View!Next
  <1>6. CASE TakeSnapshot(m)
    <2>1. /\ w_pc[m] = "loaded" /\ ~CacheHit(m) /\ w_pc'[m] = "process"
          /\ destinations'[m] = Snapshot(m)
      BY <1>6 DEF TakeSnapshot, Worker, TypeOK
    <2>2. ~HasLinks(m) /\ HasLinks(m)' /\ LinksInHand(m)' = Channels(Snapshot(m))
      BY <2>1 DEF HasLinks, LinksInHand, Channels
    <2> QED
      BY <1>1, <1>2, <2>2, SnapshotLinks, ReadStep DEF View!Next
  <1>7. CASE FinishSignal(m)
    <2>1. w_pc[m] = "process" /\ w_pc'[m] = "idle"
      BY <1>7 DEF FinishSignal, Worker, TypeOK
    <2>2. HasLinks(m) /\ ~HasLinks(m)' /\ LinksInHand(m)' = {}
      BY <2>1 DEF HasLinks, LinksInHand
    <2> QED
      BY <1>1, <1>2, <2>2, FinishStep DEF View!Next
  <1> QED
    BY <1>3, <1>4, <1>5, <1>6, <1>7 DEF WorkerStep

\* ProcessSignal implements an atomic read of the destinations: whatever any
\* number of callers attach and detach meanwhile, and whether the list was
\* cached or copied, a burst is sent over the links its source had at one
\* moment between the pop of the burst and the first use of the links.
THEOREM ImplementsAtomicRead == Spec => AtomicRead
  <1>1. Init => View!Init
    <2> SUFFICES ASSUME Init PROVE View!Init
      OBVIOUS
    <2>1. \A n \in Node : w_pc[n] = "off" /\ LinksOf(n) = {}
      BY DEF Init, LinksOf, Reachable
    <2>2. \A n \in Node : ~HasLinks(n) /\ LinksInHand(n) = {}
      BY <2>1 DEF HasLinks, LinksInHand
    <2> QED
      BY <2>1, <2>2 DEF View!Init
  <1>2. ASSUME TypeOK, TypeOK', VersionInv, WorkerInv, [Next]_vars
        PROVE  [View!Next]_(View!vars)
    <2>1. ASSUME NEW t \in Thread, Caller(t) PROVE View!Next
      BY <1>2, <2>1, ViewCaller, RelinkStep DEF View!Next
    <2>2. ASSUME NEW m \in Node, WorkerStep(m) PROVE View!Next
      BY <1>2, <2>2, ViewWorker
    <2>3. CASE UNCHANGED vars
      <3>1. \A n \in Node : /\ HasLinks(n)' <=> HasLinks(n)
                            /\ LinksInHand(n)' = LinksInHand(n)
        BY <2>3 DEF vars, workers, HasLinks, LinksInHand, CacheHit, Channels
      <3> QED
        BY <1>2, <3>1, RelinkStep DEF View!Next
    <2> QED
      BY <1>2, <2>1, <2>2, <2>3 DEF Next
  <1>3. TypeOK /\ TypeOK' /\ VersionInv /\ WorkerInv /\ [Next]_vars => [View!Next]_(View!vars)
    BY <1>2
  <1> QED
    BY <1>1, <1>3, TypeCorrect, VersionsHold, WorkersAttached, PTL DEF Spec, AtomicRead, View!Spec

=============================================================================
