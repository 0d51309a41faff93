---------------------------- MODULE Intermediate ----------------------------
(***************************************************************************)
(* One frequency channel (class Intermediate): the maps of sources and     *)
(* destinations, the Channel objects between them, and the destination     *)
(* snapshot each source's worker keeps between bursts.                     *)
(*                                                                         *)
(* Every critical section of dest_mutex is one action: the maps it guards  *)
(* are only read under the same mutex, and m_destVersion, which is read    *)
(* without it, is bumped once at the end of the section.  src_mutex is     *)
(* held across several such sections and is a variable.  A Channel object  *)
(* is named by its key and by the version at which it was allocated, so    *)
(* an object allocated later under the same key is a different object.     *)
(*                                                                         *)
(* How a worker is stopped is the subject of module WorkerLifecycle; here  *)
(* DetachSource waits until the worker is between two bursts.              *)
(***************************************************************************)
EXTENDS Naturals, FiniteSets

CONSTANTS
    Node,       \* node ids
    Sandbox,    \* the ids that may be registered through addSandboxNode
    Thread,     \* callers: the Controller's handler and CheckTimeouts
    NoThread,   \* src_mutex is free
    Rate,       \* receive sample rates
    MaxCalls    \* bound: calls made on the Intermediate

ASSUME SandboxAssumption == Sandbox \subseteq Node
ASSUME NoThreadAssumption == NoThread \notin Thread
ASSUME MaxCallsAssumption == MaxCalls \in Nat

VARIABLES
    m_sourceMap, m_destinationMap, m_sandboxNodes,  \* sets of node ids
    m_channelMap,   \* <<src, dest>> -> version at allocation
    m_destVersion,
    rate,           \* Transmitter::m_sample_rate of every node
    work,           \* Intermediate::work
    src_mutex,      \* the thread that holds it, or NoThread
    op,             \* per thread: the step it is at and the node it serves
    w_pc, current_version, destinations,          \* ProcessSignal's locals
    cached_dest_version, cached_destinations,     \* WorkerContext
    crashed,        \* printStatus dereferenced a null endpoint
    calls,
    overlap,        \* history: a call began while another was in progress
    sandboxed       \* history: addSandboxNode or removeSandboxNode was called

maps == <<m_sourceMap, m_destinationMap, m_sandboxNodes, m_channelMap, m_destVersion>>
workers == <<w_pc, current_version, destinations, cached_dest_version, cached_destinations>>
history == <<calls, overlap, sandboxed>>
vars == <<maps, rate, work, src_mutex, op, workers, crashed, history>>

Idle == [at |-> "idle"]
Op(step, n) == [at |-> step, node |-> n]
Steps == {"link", "print", "join", "unlink", "erase"}
DestInfo == [dest : Node, channel : Nat, rate : Rate]

-----------------------------------------------------------------------------
(* Helpers of the source *)

\* The pairs updateChannelMap inserts when they are missing.
Links(S, D, X) == (S \X D) \cup (X \X D) \cup (S \X X) \cup {p \in X \X X : p[1] # p[2]}

\* Mutant: a map that has channels is taken to be complete.
updateChannelMap_Once(S, D, X) ==
    IF m_channelMap # << >> THEN m_channelMap ELSE [p \in Links(S, D, X) |-> m_destVersion]

updateChannelMap(S, D, X) ==
    [p \in DOMAIN m_channelMap \cup Links(S, D, X) |->
        IF p \in DOMAIN m_channelMap THEN m_channelMap[p] ELSE m_destVersion]

\* Mutants of removeChannel: only one end of the key is compared.
removeChannel_SrcOnly(n) ==
    [p \in {q \in DOMAIN m_channelMap : q[1] # n} |-> m_channelMap[p]]
removeChannel_DestOnly(n) ==
    [p \in {q \in DOMAIN m_channelMap : q[2] # n} |-> m_channelMap[p]]

\* removeChannel(id) drops every channel that has id at either end.
removeChannel(n) ==
    [p \in {q \in DOMAIN m_channelMap : q[1] # n /\ q[2] # n} |-> m_channelMap[p]]

isEmpty(S, D, X) == S = {} /\ D = {} /\ X = {}

\* EmptyChannelChecker never sets work again.
EmptyChannelChecker(S, D) == work' = (work /\ ~isEmpty(S, D, m_sandboxNodes))

\* printStatus looks every endpoint up with operator[] and dereferences it.
Printable(channels, S, D) == \A p \in channels : p[1] \in S /\ p[2] \in D

\* The destinations ProcessSignal serves for source n: not n itself, and only
\* those it finds a channel for.
Reachable(n) == {d \in m_destinationMap \ {n} : <<n, d>> \in DOMAIN m_channelMap}

\* What ProcessSignal copies for source n while it holds dest_mutex shared.
Snapshot(n) ==
    {[dest |-> d, channel |-> m_channelMap[<<n, d>>], rate |-> rate[d]] : d \in Reachable(n)}

At(t, step, n) == ~crashed /\ op[t] = Op(step, n)
Begin(t) ==
    /\ ~crashed /\ op[t] = Idle
    /\ calls < MaxCalls /\ calls' = calls + 1
    /\ overlap' = (overlap \/ \E u \in Thread : op[u] # Idle)
Call(t) == Begin(t) /\ UNCHANGED sandboxed
SandboxCall(t) == Begin(t) /\ sandboxed' = TRUE

-----------------------------------------------------------------------------
(* Destinations *)

\* The whole call is one section of dest_mutex; a repeated attach returns
\* before it changes anything and is left out.
AttachDestination(t, n) ==
    /\ Call(t)
    /\ n \notin m_destinationMap
    /\ m_destinationMap' = m_destinationMap \cup {n}
    /\ m_channelMap' = updateChannelMap(m_sourceMap, m_destinationMap', m_sandboxNodes)
    /\ m_destVersion' = m_destVersion + 1
    /\ crashed' = ~Printable(DOMAIN m_channelMap', m_sourceMap, m_destinationMap')
    /\ UNCHANGED <<m_sourceMap, m_sandboxNodes, rate, work, src_mutex, op, workers>>

\* Mutant: the version is not bumped.
DetachDestination_NoBump(t, n) ==
    /\ Call(t)
    /\ n \in m_destinationMap
    /\ m_channelMap' = removeChannel(n)
    /\ m_destinationMap' = m_destinationMap \ {n}
    /\ EmptyChannelChecker(m_sourceMap, m_destinationMap')
    /\ UNCHANGED <<m_sourceMap, m_sandboxNodes, m_destVersion, rate, src_mutex, op, workers,
                   crashed>>

DetachDestination(t, n) ==
    /\ Call(t)
    /\ n \in m_destinationMap
    /\ m_channelMap' = removeChannel(n)
    /\ m_destinationMap' = m_destinationMap \ {n}
    /\ m_destVersion' = m_destVersion + 1
    /\ EmptyChannelChecker(m_sourceMap, m_destinationMap')
    /\ UNCHANGED <<m_sourceMap, m_sandboxNodes, rate, src_mutex, op, workers, crashed>>

\* Transmitter::setSampleRate, called by AssignDLChannel when a node
\* re-registers on the same frequency: the Intermediate is not told.
setSampleRate(t, n, r) ==
    /\ Call(t)
    /\ n \in m_destinationMap
    /\ rate[n] # r
    /\ rate' = [rate EXCEPT ![n] = r]
    /\ UNCHANGED <<maps, work, src_mutex, op, workers, crashed>>

-----------------------------------------------------------------------------
(* Sandbox nodes: ids without endpoints *)

addSandboxNode(t, n) ==
    /\ SandboxCall(t)
    /\ n \in Sandbox
    /\ m_sandboxNodes' = m_sandboxNodes \cup {n}
    /\ m_channelMap' = updateChannelMap(m_sourceMap, m_destinationMap, m_sandboxNodes')
    /\ m_destVersion' = m_destVersion + 1
    /\ UNCHANGED <<m_sourceMap, m_destinationMap, rate, work, src_mutex, op, workers, crashed>>

\* The channels of n go even when n was never a sandbox node.
removeSandboxNode(t, n) ==
    /\ SandboxCall(t)
    /\ n \in Sandbox
    /\ m_channelMap' = removeChannel(n)
    /\ m_sandboxNodes' = m_sandboxNodes \ {n}
    /\ m_destVersion' = m_destVersion + 1
    /\ UNCHANGED <<m_sourceMap, m_destinationMap, rate, work, src_mutex, op, workers, crashed>>

-----------------------------------------------------------------------------
(* Sources.  src_mutex is held from the first step of a call to its last. *)

\* Insert the source and start its worker on a fresh WorkerContext.
AttachSource(t, n) ==
    /\ Call(t)
    /\ src_mutex = NoThread
    /\ n \notin m_sourceMap
    /\ src_mutex' = t
    /\ op' = [op EXCEPT ![t] = Op("link", n)]
    /\ m_sourceMap' = m_sourceMap \cup {n}
    /\ w_pc' = [w_pc EXCEPT ![n] = "idle"]
    /\ cached_dest_version' = [cached_dest_version EXCEPT ![n] = 0]
    /\ cached_destinations' = [cached_destinations EXCEPT ![n] = {}]
    /\ UNCHANGED <<m_destinationMap, m_sandboxNodes, m_channelMap, m_destVersion, rate,
                   work, current_version, destinations, crashed>>

AttachSource_Link(t, n) ==
    /\ At(t, "link", n)
    /\ m_channelMap' = updateChannelMap(m_sourceMap, m_destinationMap, m_sandboxNodes)
    /\ m_destVersion' = m_destVersion + 1
    /\ op' = [op EXCEPT ![t] = Op("print", n)]
    /\ UNCHANGED <<m_sourceMap, m_destinationMap, m_sandboxNodes, rate, work, src_mutex,
                   workers, crashed, history>>

\* printStatus runs after dest_mutex is released.
AttachSource_Print(t, n) ==
    /\ At(t, "print", n)
    /\ crashed' = ~Printable(DOMAIN m_channelMap, m_sourceMap, m_destinationMap)
    /\ src_mutex' = NoThread
    /\ op' = [op EXCEPT ![t] = Idle]
    /\ UNCHANGED <<maps, rate, work, workers, history>>

DetachSource(t, n) ==
    /\ Call(t)
    /\ src_mutex = NoThread
    /\ n \in m_sourceMap
    /\ src_mutex' = t
    /\ op' = [op EXCEPT ![t] = Op("join", n)]
    /\ UNCHANGED <<maps, rate, work, workers, crashed>>

\* join() returns when the worker leaves its loop; the context is erased.
DetachSource_Join(t, n) ==
    /\ At(t, "join", n)
    /\ w_pc[n] = "idle"
    /\ w_pc' = [w_pc EXCEPT ![n] = "off"]
    /\ op' = [op EXCEPT ![t] = Op("unlink", n)]
    /\ UNCHANGED <<maps, rate, work, src_mutex, current_version, destinations,
                   cached_dest_version, cached_destinations, crashed, history>>

\* Mutant: the channels of the source are left in the map.
DetachSource_Keep(t, n) ==
    /\ At(t, "unlink", n)
    /\ op' = [op EXCEPT ![t] = Op("erase", n)]
    /\ UNCHANGED <<maps, rate, work, src_mutex, workers, crashed, history>>

DetachSource_Unlink(t, n) ==
    /\ At(t, "unlink", n)
    /\ m_channelMap' = removeChannel(n)
    /\ m_destVersion' = m_destVersion + 1
    /\ op' = [op EXCEPT ![t] = Op("erase", n)]
    /\ UNCHANGED <<m_sourceMap, m_destinationMap, m_sandboxNodes, rate, work, src_mutex,
                   workers, crashed, history>>

DetachSource_Erase(t, n) ==
    /\ At(t, "erase", n)
    /\ m_sourceMap' = m_sourceMap \ {n}
    /\ EmptyChannelChecker(m_sourceMap', m_destinationMap)
    /\ src_mutex' = NoThread
    /\ op' = [op EXCEPT ![t] = Idle]
    /\ UNCHANGED <<m_destinationMap, m_sandboxNodes, m_channelMap, m_destVersion, rate,
                   workers, crashed, history>>

-----------------------------------------------------------------------------
(* The worker of source n, from one popped burst to the next *)

Worker(n, step) == ~crashed /\ w_pc[n] = step

\* A burst was popped; the version is loaded before any lock is taken.
ProcessSignal(n) ==
    /\ Worker(n, "idle")
    /\ work /\ m_destinationMap # {}
    /\ \A t \in Thread : op[t] # Op("join", n)
    /\ current_version' = [current_version EXCEPT ![n] = m_destVersion]
    /\ w_pc' = [w_pc EXCEPT ![n] = "loaded"]
    /\ UNCHANGED <<maps, rate, work, src_mutex, op, destinations, cached_dest_version,
                   cached_destinations, crashed, history>>

\* Mutant: any cached list will do.
CacheHit_Any(n) == cached_dest_version[n] # 0

CacheHit(n) == cached_dest_version[n] = current_version[n] /\ current_version[n] # 0

ReuseSnapshot(n) ==
    /\ Worker(n, "loaded")
    /\ CacheHit(n)
    /\ destinations' = [destinations EXCEPT ![n] = cached_destinations[n]]
    /\ w_pc' = [w_pc EXCEPT ![n] = "process"]
    /\ UNCHANGED <<maps, rate, work, src_mutex, op, current_version, cached_dest_version,
                   cached_destinations, crashed, history>>

TakeSnapshot(n) ==
    /\ Worker(n, "loaded")
    /\ ~CacheHit(n)
    /\ destinations' = [destinations EXCEPT ![n] = Snapshot(n)]
    /\ cached_destinations' = [cached_destinations EXCEPT ![n] = Snapshot(n)]
    /\ cached_dest_version' = [cached_dest_version EXCEPT ![n] = current_version[n]]
    /\ w_pc' = [w_pc EXCEPT ![n] = "process"]
    /\ UNCHANGED <<maps, rate, work, src_mutex, op, current_version, crashed, history>>

\* Until this step ProcessDestinationSignal follows the raw Channel pointers.
FinishSignal(n) ==
    /\ Worker(n, "process")
    /\ w_pc' = [w_pc EXCEPT ![n] = "idle"]
    /\ destinations' = [destinations EXCEPT ![n] = {}]
    /\ UNCHANGED <<maps, rate, work, src_mutex, op, current_version, cached_dest_version,
                   cached_destinations, crashed, history>>

-----------------------------------------------------------------------------
Init ==
    /\ m_sourceMap = {} /\ m_destinationMap = {} /\ m_sandboxNodes = {}
    /\ m_channelMap = [p \in {} |-> 0]
    /\ m_destVersion = 0
    /\ rate \in [Node -> Rate]
    /\ work = TRUE
    /\ src_mutex = NoThread
    /\ op = [t \in Thread |-> Idle]
    /\ w_pc = [n \in Node |-> "off"]
    /\ current_version = [n \in Node |-> 0]
    /\ destinations = [n \in Node |-> {}]
    /\ cached_dest_version = [n \in Node |-> 0]
    /\ cached_destinations = [n \in Node |-> {}]
    /\ crashed = FALSE
    /\ calls = 0 /\ overlap = FALSE /\ sandboxed = FALSE

Caller(t) ==
    \E n \in Node :
        \/ AttachDestination(t, n) \/ DetachDestination(t, n)
        \/ \E r \in Rate : setSampleRate(t, n, r)
        \/ addSandboxNode(t, n) \/ removeSandboxNode(t, n)
        \/ AttachSource(t, n) \/ AttachSource_Link(t, n) \/ AttachSource_Print(t, n)
        \/ DetachSource(t, n) \/ DetachSource_Join(t, n)
        \/ DetachSource_Unlink(t, n) \/ DetachSource_Erase(t, n)

WorkerStep(n) == ProcessSignal(n) \/ ReuseSnapshot(n) \/ TakeSnapshot(n) \/ FinishSignal(n)

Next == (\E t \in Thread : Caller(t)) \/ (\E n \in Node : WorkerStep(n))

Spec == Init /\ [][Next]_vars

-----------------------------------------------------------------------------
(* Properties *)

\* The maps, the locks and the workers' locals have their types, and only the
\* holder of src_mutex is inside AttachSource or DetachSource.
TypeOK ==
    /\ m_sourceMap \subseteq Node
    /\ m_destinationMap \subseteq Node
    /\ m_sandboxNodes \subseteq Sandbox
    /\ DOMAIN m_channelMap \subseteq Node \X Node
    /\ m_channelMap \in [DOMAIN m_channelMap -> Nat]
    /\ m_destVersion \in Nat
    /\ rate \in [Node -> Rate]
    /\ work \in BOOLEAN
    /\ src_mutex \in Thread \cup {NoThread}
    /\ op \in [Thread -> {Idle} \cup [at : Steps, node : Node]]
    /\ \A t \in Thread : op[t] # Idle => src_mutex = t
    /\ w_pc \in [Node -> {"off", "idle", "loaded", "process"}]
    /\ current_version \in [Node -> Nat]
    /\ destinations \in [Node -> SUBSET DestInfo]
    /\ cached_dest_version \in [Node -> Nat]
    /\ cached_destinations \in [Node -> SUBSET DestInfo]
    /\ crashed \in BOOLEAN
    /\ calls \in 0 .. MaxCalls
    /\ overlap \in BOOLEAN /\ sandboxed \in BOOLEAN

Channels(infos) == {<<i.dest, i.channel>> : i \in infos}
LinksOf(n) == {<<d, m_channelMap[<<n, d>>]>> : d \in Reachable(n)}

\* The version protocol of ProcessSignal: a worker that loaded the version now
\* in force works on the destinations and the Channel objects of this moment,
\* whether it reused its cached list without the lock or took a new one.
SnapshotFresh ==
    \A n \in Node :
        /\ w_pc[n] = "process" /\ current_version[n] = m_destVersion
              => Channels(destinations[n]) = LinksOf(n)
        /\ w_pc[n] # "off" /\ cached_dest_version[n] = m_destVersion
              => Channels(cached_destinations[n]) = LinksOf(n)

\* removeChannel runs in the section that erases the destination, so no
\* channel ever leads to a node that is not attached.
DestinationsAttached ==
    \A p \in DOMAIN m_channelMap : p[2] \in m_destinationMap \cup m_sandboxNodes

\* The same for sources, as long as the calls come one after the other.
\* DetachSource erases the source after it has dropped its channels and let
\* dest_mutex go; an AttachDestination in between links the source again.
SourcesAttached ==
    overlap \/ \A p \in DOMAIN m_channelMap : p[1] \in m_sourceMap \cup m_sandboxNodes

\* A Channel object a worker is about to use has not been erased.
ChannelsAlive ==
    \A n \in Node : w_pc[n] = "process" =>
        \A i \in destinations[n] :
            /\ <<n, i.dest>> \in DOMAIN m_channelMap
            /\ m_channelMap[<<n, i.dest>>] = i.channel

\* When no caller is inside, two nodes that are both source and destination
\* are linked, if no call met another and no sandbox node was ever touched
\* (removeSandboxNode drops the channels of a real node of that name too).
\* Attaching a device links it to all; detaching only one device of a node
\* drops the channels of both, so a node with one device left is excepted
\* until something is attached again.
LinksComplete ==
    ~overlap /\ ~sandboxed /\ (\A t \in Thread : op[t] = Idle) =>
        LET both == m_sourceMap \cap m_destinationMap
        IN  both \X both \subseteq DOMAIN m_channelMap

\* printStatus dereferences an endpoint that is not in its map only when a
\* sandbox node is registered, which has none, or after two calls overlapped.
NoNullEndpoint == crashed => overlap \/ m_sandboxNodes # {}

-----------------------------------------------------------------------------
(* Refinement: the read of the destinations as one step.  A worker that finds *)
(* its cache in force has its links from the moment it loaded the version,    *)
(* any other worker from the moment it copied them.                           *)

HasLinks(n) == w_pc[n] = "process" \/ (w_pc[n] = "loaded" /\ CacheHit(n))
LinksInHand(n) ==
    CASE w_pc[n] = "process" -> Channels(destinations[n])
      [] w_pc[n] = "loaded" /\ CacheHit(n) -> Channels(cached_destinations[n])
      [] OTHER -> {}

View == INSTANCE DestinationView WITH
    Source <- Node,
    Link <- Node \X Nat,
    links <- [n \in Node |-> LinksOf(n)],
    serving <- {n \in Node : HasLinks(n)},
    view <- [n \in Node |-> LinksInHand(n)]

\* ProcessSignal implements DestinationView: the links a burst is sent over are
\* those of one moment between the pop of the burst and their first use.
AtomicRead == View!Spec

=============================================================================
