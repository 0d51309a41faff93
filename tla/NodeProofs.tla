----------------------------- MODULE NodeProofs -----------------------------
(***************************************************************************)
(* A node and what the emulator keeps for it, its session and its          *)
(* transmitter.  Spec is that of NodeSessions, TxSpec that of TxQueue.     *)
(*                                                                         *)
(* For any number of clients, names and requests: the address the          *)
(* Controller keeps for a node, and the one vehicle handler that follows   *)
(* it and falls silent when it is stopped.                                 *)
(*                                                                         *)
(* For every pool, every number of workers and every queue capacity: the   *)
(* types, that no IQ buffer of a transmitter is released twice or lost,    *)
(* how far the queue grows, and that no wakeup is lost.  Types and         *)
(* conservation together are inductive: a step of Add2Buff is safe because *)
(* the burst in its hand is in nobody else's.                              *)
(***************************************************************************)
EXTENDS NodeSessions, TxQueue, FiniteSetTheorems, TLAPS

\* The prover of the leaves that do not name another one.
USE ZenonT(30)

-----------------------------------------------------------------------------
(* Addresses *)

\* What the Controller keeps for a node.
NodeRecord == [obj : Nat, name : Key, ip : Client \cup {NoClient}, located : BOOLEAN]

\* What the proof needs to know of the types.
SessionType ==
    /\ conn \in [Client -> {"closed", "pending", "open"}]
    /\ inbox \in [Client -> SUBSET Request]
    /\ m_remote_ip \in Client \cup {NoClient}
    /\ DOMAIN m_nodeMap \subseteq Client
    /\ m_nodeMap \in [DOMAIN m_nodeMap -> NodeRecord]
    /\ objects \in Nat
    /\ overlap \in BOOLEAN

\* As long as connections do not overlap there is one at most, and m_remote_ip
\* is that of its client from the moment its first read begins.
OneConnection ==
    ~overlap =>
        /\ \A c, d \in Client : conn[c] # "closed" /\ conn[d] # "closed" => c = d
        /\ \A c \in Client : conn[c] = "open" => m_remote_ip = c

\* The inductive invariant for addresses.
AddressInv == SessionType /\ OneConnection /\ AddressKept

-----------------------------------------------------------------------------
\* It holds before the first connection.
LEMMA InitAddress == Init => AddressInv
<1> SUFFICES ASSUME Init PROVE AddressInv
  OBVIOUS
<1>1. DOMAIN m_nodeMap = {} /\ m_nodeMap \in [DOMAIN m_nodeMap -> NodeRecord]
  BY SMTT(30) DEF Init
<1>2. SessionType
  BY <1>1 DEF Init, SessionType
<1>3. OneConnection
  BY DEF Init, OneConnection
<1>4. AddressKept
  BY <1>1 DEF AddressKept
<1> QED BY <1>2, <1>3, <1>4 DEF AddressInv

\* A node record that is changed keeps its type.
LEMMA SetLocationType ==
  ASSUME SessionType, NEW i, setLocation(i)
  PROVE  /\ DOMAIN m_nodeMap' = DOMAIN m_nodeMap
         /\ m_nodeMap' \in [DOMAIN m_nodeMap -> NodeRecord]
         /\ \A c \in DOMAIN m_nodeMap : /\ m_nodeMap'[c].ip = m_nodeMap[c].ip
                                        /\ m_nodeMap'[c].obj = m_nodeMap[c].obj
                                        /\ m_nodeMap'[c].name = m_nodeMap[c].name
<1> DEFINE h == handler[i]
           c == h.client
           rec == [m_nodeMap[c] EXCEPT !.located = TRUE]
<1>1. CASE ~Live(h)
  BY <1>1 DEF setLocation, SessionType
<1>2. CASE Live(h)
  <2>1. c \in DOMAIN m_nodeMap /\ m_nodeMap' = [m_nodeMap EXCEPT ![c] = rec]
    BY <1>2 DEF setLocation, Live
  <2>2. m_nodeMap[c] \in NodeRecord
    BY <2>1 DEF SessionType
  <2>3. /\ rec \in NodeRecord /\ rec.ip = m_nodeMap[c].ip
        /\ rec.obj = m_nodeMap[c].obj /\ rec.name = m_nodeMap[c].name
    BY <2>2 DEF NodeRecord
  <2> HIDE DEF rec, c
  <2> QED BY <2>1, <2>3 DEF SessionType
<1> QED BY <1>1, <1>2

\* Removing a node keeps the types.
LEMMA RemoveNodeType ==
  ASSUME SessionType, NEW c \in DOMAIN m_nodeMap, RemoveNode(c)
  PROVE  /\ DOMAIN m_nodeMap' \subseteq DOMAIN m_nodeMap
         /\ m_nodeMap' \in [DOMAIN m_nodeMap' -> NodeRecord]
         /\ \A d \in DOMAIN m_nodeMap' : m_nodeMap'[d] = m_nodeMap[d]
         /\ objects' = objects
  BY DEF RemoveNode, SessionType, Restrict

\* A configuration request adds or changes one well-typed record.
LEMMA ConfigureType ==
  ASSUME SessionType, NEW c \in Client, NEW q \in Request, q.type = "config", Configure(c, q)
  PROVE  /\ DOMAIN m_nodeMap' = DOMAIN m_nodeMap \cup {c}
         /\ m_nodeMap' \in [DOMAIN m_nodeMap' -> NodeRecord]
         /\ \A d \in DOMAIN m_nodeMap \ {c} : m_nodeMap'[d] = m_nodeMap[d]
         /\ m_nodeMap'[c].ip = m_remote_ip
         /\ objects' \in Nat
<1>1. q.name \in Key /\ q.location \in BOOLEAN
  BY SessionAssumption DEF AnyRequest
<1> DEFINE known == c \in DOMAIN m_nodeMap
           obj == IF known THEN m_nodeMap[c].obj ELSE objects + 1
           located == q.location \/ (known /\ m_nodeMap[c].located)
           rec == [obj |-> obj, name |-> q.name, ip |-> m_remote_ip, located |-> located]
<1>2. rec \in NodeRecord
  BY <1>1, SMTT(30) DEF SessionType, NodeRecord
<1>3. m_nodeMap' = [n \in DOMAIN m_nodeMap \cup {c} |-> IF n = c THEN rec ELSE m_nodeMap[n]]
  BY DEF Configure
<1>4. objects' \in Nat
  BY SMTT(30) DEF Configure, SessionType
<1> HIDE DEF rec
<1>5. /\ DOMAIN m_nodeMap' = DOMAIN m_nodeMap \cup {c}
      /\ m_nodeMap' \in [DOMAIN m_nodeMap' -> NodeRecord]
      /\ \A d \in DOMAIN m_nodeMap \ {c} : m_nodeMap'[d] = m_nodeMap[d]
      /\ m_nodeMap'[c] = rec
  BY <1>2, <1>3 DEF SessionType
<1>6. rec.ip = m_remote_ip
  BY DEF rec
<1> QED BY <1>4, <1>5, <1>6

\* Every step keeps the types and the one connection; an address is written
\* only by Configure, while m_remote_ip is that of the client it serves.
LEMMA NextAddress == AddressInv /\ [Next]_vars => AddressInv'
<1> SUFFICES ASSUME AddressInv, [Next]_vars PROVE AddressInv'
  OBVIOUS
<1> USE DEF AddressInv
<1>1. ASSUME NEW c \in Client, Connect(c) PROVE AddressInv'
  BY <1>1 DEF Connect, SessionType, OneConnection, AddressKept, nodeVars
<1>2. ASSUME NEW c \in Client, Close(c) PROVE AddressInv'
  BY <1>2 DEF Close, SessionType, OneConnection, AddressKept, nodeVars
<1>3. ASSUME NEW c \in Client, NEW q \in Request, Send(c, q) PROVE AddressInv'
  BY <1>3 DEF Send, SessionType, OneConnection, AddressKept, nodeVars
<1>4. ASSUME NEW c \in Client, startAccept(c) PROVE AddressInv'
  BY <1>4 DEF startAccept, handle_connection, SessionType, OneConnection, AddressKept, nodeVars
<1>5. ASSUME NEW c \in Client, ServeRequest(c) PROVE AddressInv'
  <2>1. PICK q \in inbox[c] : Handle(c, q)
    BY <1>5 DEF ServeRequest
  <2>2. q \in Request
    BY <2>1 DEF SessionType
  <2>3. /\ conn[c] = "open"
        /\ inbox' = [inbox EXCEPT ![c] = {}]
        /\ \/ conn' = [conn EXCEPT ![c] = "open"] /\ m_remote_ip' = c
           \/ conn' = conn /\ m_remote_ip' = m_remote_ip
        /\ overlap' = overlap
    BY <1>5 DEF ServeRequest, handle_connection
  <2>4. OneConnection'
    BY <2>3 DEF OneConnection, SessionType
  <2>5. /\ conn' \in [Client -> {"closed", "pending", "open"}]
        /\ inbox' \in [Client -> SUBSET Request]
        /\ m_remote_ip' \in Client \cup {NoClient}
        /\ overlap' \in BOOLEAN
    BY <2>3 DEF SessionType
  <2>6. CASE q.type = "config"
    <3>1. Configure(c, q)
      BY <2>1, <2>6 DEF Handle
    <3>2. SessionType'
      <4>1. /\ DOMAIN m_nodeMap' = DOMAIN m_nodeMap \cup {c}
            /\ m_nodeMap' \in [DOMAIN m_nodeMap' -> NodeRecord] /\ objects' \in Nat
        BY <2>2, <2>6, <3>1, ConfigureType
      <4> QED BY <2>5, <4>1 DEF SessionType
    <3>3. ~overlap => m_remote_ip = c
      BY <2>3 DEF OneConnection
    <3>4. /\ DOMAIN m_nodeMap' = DOMAIN m_nodeMap \cup {c}
          /\ \A d \in DOMAIN m_nodeMap \ {c} : m_nodeMap'[d] = m_nodeMap[d]
          /\ m_nodeMap'[c].ip = m_remote_ip
      BY <2>2, <2>6, <3>1, ConfigureType
    <3>5. AddressKept'
      BY <2>3, <3>3, <3>4 DEF AddressKept
    <3> QED BY <2>4, <3>2, <3>5
  <2>7. CASE q.type = "disconnect" /\ c \in DOMAIN m_nodeMap
    <3>1. RemoveNode(c)
      BY <2>1, <2>7 DEF Handle
    <3>2. SessionType'
      BY <2>5, <2>7, <3>1, RemoveNodeType DEF SessionType
    <3>3. AddressKept'
      BY <2>3, <2>7, <3>1, RemoveNodeType DEF AddressKept
    <3> QED BY <2>4, <3>2, <3>3
  <2>8. CASE q.type # "config" /\ ~(q.type = "disconnect" /\ c \in DOMAIN m_nodeMap)
    <3>1. UNCHANGED nodeVars
      BY <2>1, <2>8 DEF Handle
    <3> QED BY <2>3, <2>4, <2>5, <3>1 DEF nodeVars, SessionType, AddressKept
  <2> QED BY <2>6, <2>7, <2>8
<1>6. ASSUME NEW c \in Client, Timeout(c) PROVE AddressInv'
  <2>1. c \in DOMAIN m_nodeMap /\ RemoveNode(c) /\ UNCHANGED <<conn, inbox, overlap, m_remote_ip>>
    BY <1>6 DEF Timeout, netVars
  <2>2. SessionType'
    BY <2>1, RemoveNodeType DEF SessionType
  <2>3. AddressKept'
    BY <2>1, RemoveNodeType DEF AddressKept
  <2>4. OneConnection'
    BY <2>1 DEF OneConnection
  <2> QED BY <2>2, <2>3, <2>4
<1>7. ASSUME NEW i, NoVehicle(i) \/ PositionApplied(i) PROVE AddressInv'
  <2>1. setLocation(i) /\ UNCHANGED <<conn, inbox, overlap, m_remote_ip, objects>>
    BY <1>7 DEF NoVehicle, PositionApplied, netVars
  <2>2. SessionType'
    BY <2>1, SetLocationType DEF SessionType
  <2>3. AddressKept'
    BY <2>1, SetLocationType DEF AddressKept
  <2>4. OneConnection'
    BY <2>1 DEF OneConnection
  <2> QED BY <2>2, <2>3, <2>4
<1>8. ASSUME UNCHANGED <<netVars, m_remote_ip, nodeVars>> PROVE AddressInv'
  BY <1>8 DEF netVars, nodeVars, SessionType, OneConnection, AddressKept
<1>9. ASSUME NEW i, LateVehicle(i) \/ Follow(i) \/ LeaveLoop(i) \/ PositionArrives(i)
      PROVE AddressInv'
  BY <1>8, <1>9 DEF LateVehicle, Follow, LeaveLoop, PositionArrives
<1>10. CASE UNCHANGED vars
  BY <1>8, <1>10 DEF vars
<1>11. CASE Next
  BY <1>1, <1>2, <1>3, <1>4, <1>5, <1>6, <1>7, <1>9, <1>11 DEF Next, Io, HandlerThread
<1> QED BY <1>10, <1>11

\* The Controller sends a node's bursts to the host that registered it, for any
\* number of hosts that register one after the other, with any reconnections,
\* renamings, timeouts and vehicles: AddressKept is an invariant.
THEOREM AddressesKept == Spec => []AddressKept
<1>1. AddressInv => AddressKept
  BY DEF AddressInv
<1> QED BY InitAddress, NextAddress, <1>1, PTL DEF Spec

-----------------------------------------------------------------------------
(* Vehicle handlers *)

\* A vehicle handler, its node, its progress and when Stop reached it.
HandlerRecord ==
    [client : Client, obj : Nat, pc : {"connect", "loop", "late", "end"}, running : BOOLEAN,
     callback : BOOLEAN, stopped : {"no", "early", "callback", "loop"}]

\* The types of the handlers and of their filing.
HandlerType ==
    /\ SessionType
    /\ handler \in Seq(HandlerRecord)
    /\ DOMAIN m_vehicleHandlers \subseteq Key
    /\ m_vehicleHandlers \in [DOMAIN m_vehicleHandlers -> DOMAIN handler]
    /\ misnamed \in BOOLEAN

\* Object numbers are never used again, so a pointer tells a node from its successor.
ObjectsFresh ==
    /\ \A i \in DOMAIN handler : handler[i].obj <= objects
    /\ \A c \in DOMAIN m_nodeMap : m_nodeMap[c].obj <= objects
    /\ \A c, d \in DOMAIN m_nodeMap : m_nodeMap[c].obj = m_nodeMap[d].obj => c = d

\* Stop reached the loop between two callbacks: no callback passes its test again.
QuietLoop ==
    \A i \in DOMAIN handler :
        handler[i].stopped = "loop" =>
            ~handler[i].callback /\ ~handler[i].running /\ handler[i].pc # "connect"

NameOf(h) == m_nodeMap[h.client].name

\* While every node keeps a name of its own, the handlers not stopped are those
\* of the nodes that exist, each filed under the name of its node.
Filed ==
    ~misnamed =>
        /\ \A c, d \in DOMAIN m_nodeMap : m_nodeMap[c].name = m_nodeMap[d].name => c = d
        /\ \A i \in DOMAIN handler : handler[i].stopped = "no" <=> Live(handler[i])
        /\ \A i \in DOMAIN handler : handler[i].stopped = "no" =>
                /\ NameOf(handler[i]) \in DOMAIN m_vehicleHandlers
                /\ m_vehicleHandlers[NameOf(handler[i])] = i
        /\ \A k \in DOMAIN m_vehicleHandlers :
                /\ handler[m_vehicleHandlers[k]].stopped = "no"
                /\ NameOf(handler[m_vehicleHandlers[k]]) = k

\* The inductive invariant for vehicle handlers.
HandlerInv == HandlerType /\ ObjectsFresh /\ QuietLoop /\ Filed /\ StoppedQuiet

\* It holds before the first vehicle.
LEMMA InitHandlers == Init => HandlerInv
<1> SUFFICES ASSUME Init PROVE HandlerInv
  OBVIOUS
<1>1. SessionType
  BY InitAddress DEF AddressInv
<1>2. /\ DOMAIN m_nodeMap = {} /\ DOMAIN m_vehicleHandlers = {} /\ DOMAIN handler = {}
      /\ m_vehicleHandlers \in [DOMAIN m_vehicleHandlers -> DOMAIN handler]
      /\ handler \in Seq(HandlerRecord) /\ stale = {} /\ misnamed = FALSE
  BY SMTT(30) DEF Init
<1>3. HandlerType
  BY <1>1, <1>2 DEF HandlerType
<1>4. ObjectsFresh /\ QuietLoop /\ Filed /\ StoppedQuiet
  BY <1>2 DEF ObjectsFresh, QuietLoop, Filed, StoppedQuiet
<1> QED BY <1>3, <1>4 DEF HandlerInv

\* A step that changes nothing a node or a handler's filing depends on.
LEMMA HandlerStep ==
  ASSUME HandlerInv, SessionType', NEW i \in DOMAIN handler, NEW h \in HandlerRecord,
         handler' = [handler EXCEPT ![i] = h],
         h.client = handler[i].client, h.obj = handler[i].obj, h.stopped = handler[i].stopped,
         h.stopped = "loop" => ~h.callback /\ ~h.running /\ h.pc # "connect",
         DOMAIN m_nodeMap' = DOMAIN m_nodeMap,
         \A c \in DOMAIN m_nodeMap : /\ m_nodeMap'[c].obj = m_nodeMap[c].obj
                                     /\ m_nodeMap'[c].name = m_nodeMap[c].name,
         UNCHANGED <<objects, m_vehicleHandlers, misnamed>>,
         StoppedQuiet'
  PROVE  HandlerInv'
<1> USE DEF HandlerInv
<1>1. /\ handler' \in Seq(HandlerRecord) /\ DOMAIN handler' = DOMAIN handler
      /\ handler'[i] = h
      /\ \A j \in DOMAIN handler : j # i => handler'[j] = handler[j]
  BY SMTT(30) DEF HandlerType
<1>2. \A j \in DOMAIN handler : /\ handler'[j].client = handler[j].client
                                /\ handler'[j].obj = handler[j].obj
                                /\ handler'[j].stopped = handler[j].stopped
  BY <1>1
<1>3. ASSUME NEW j \in DOMAIN handler PROVE Live(handler[j])' <=> Live(handler[j])
  BY <1>1, <1>2, SMTT(30) DEF Live
<1>4. HandlerType'
  BY <1>1 DEF HandlerType
<1>5. ObjectsFresh'
  BY <1>1, <1>2 DEF ObjectsFresh
<1>6. QuietLoop'
  BY <1>1 DEF QuietLoop
<1>7. Filed'
  <2> SUFFICES ASSUME ~misnamed PROVE Filed'
    BY DEF Filed
  <2>1. \A c, d \in DOMAIN m_nodeMap' : m_nodeMap'[c].name = m_nodeMap'[d].name => c = d
    BY DEF Filed
  <2>2. ASSUME NEW j \in DOMAIN handler'
        PROVE  /\ handler'[j].stopped = "no" <=> Live(handler[j])'
               /\ handler'[j].stopped = "no" =>
                    /\ NameOf(handler[j])' \in DOMAIN m_vehicleHandlers'
                    /\ m_vehicleHandlers'[NameOf(handler[j])'] = j
    <3>1. j \in DOMAIN handler /\ (Live(handler[j])' <=> Live(handler[j]))
      BY <1>1, <1>3, <2>2
    <3>2. handler'[j].stopped = "no" => NameOf(handler[j])' = NameOf(handler[j])
      BY <1>2, <3>1, SMTT(30) DEF Filed, NameOf, Live
    <3> QED BY <1>2, <3>1, <3>2 DEF Filed
  <2>3. ASSUME NEW k \in DOMAIN m_vehicleHandlers'
        PROVE  /\ handler'[m_vehicleHandlers'[k]].stopped = "no"
               /\ NameOf(handler[m_vehicleHandlers[k]])' = k
    <3>1. m_vehicleHandlers[k] \in DOMAIN handler
      BY DEF HandlerType
    <3>2. /\ handler[m_vehicleHandlers[k]].stopped = "no"
          /\ NameOf(handler[m_vehicleHandlers[k]]) = k
          /\ Live(handler[m_vehicleHandlers[k]])
      BY <3>1 DEF Filed
    <3> QED BY <1>2, <3>1, <3>2 DEF NameOf, Live
  <2> QED BY <2>1, <2>2, <2>3 DEF Filed
<1> QED BY <1>4, <1>5, <1>6, <1>7

\* The disconnect request and CheckTimeouts: the handler of the node is stopped
\* and no longer filed, and the node it points to is gone.
LEMMA RemoveHandlers ==
  ASSUME HandlerInv, SessionType', NEW c \in DOMAIN m_nodeMap, RemoveNode(c), stale' = stale
  PROVE  HandlerInv'
<1> USE DEF HandlerInv
<1> DEFINE k == m_nodeMap[c].name
<1>1. /\ DOMAIN m_nodeMap' = DOMAIN m_nodeMap \ {c}
      /\ \A d \in DOMAIN m_nodeMap \ {c} : m_nodeMap'[d] = m_nodeMap[d]
      /\ objects' = objects /\ misnamed' = misnamed
  BY DEF RemoveNode, Restrict
<1>2. CASE k \notin DOMAIN m_vehicleHandlers
  <2>1. handler' = handler /\ m_vehicleHandlers' = m_vehicleHandlers
    BY <1>2 DEF RemoveNode
  <2>2. HandlerType' /\ QuietLoop' /\ StoppedQuiet'
    BY <1>1, <2>1 DEF HandlerType, QuietLoop, StoppedQuiet
  <2>3. ObjectsFresh'
    BY <1>1, <2>1 DEF ObjectsFresh
  <2>4. Filed'
    <3> SUFFICES ASSUME ~misnamed PROVE Filed'
      BY <1>1 DEF Filed
    <3>1. \A d, e \in DOMAIN m_nodeMap' : m_nodeMap'[d].name = m_nodeMap'[e].name => d = e
      BY <1>1 DEF Filed
    <3>2. ASSUME NEW i \in DOMAIN handler
          PROVE  /\ handler[i].stopped = "no" <=> Live(handler[i])'
                 /\ handler[i].stopped = "no" => NameOf(handler[i])' = NameOf(handler[i])
      <4>1. handler[i].stopped = "no" => handler[i].client # c
        BY <1>2 DEF Filed, NameOf
      <4>2. handler[i].stopped = "no" => Live(handler[i])' /\ NameOf(handler[i])' = NameOf(handler[i])
        BY <1>1, <2>1, <4>1 DEF Filed, Live, NameOf
      <4>3. Live(handler[i])' => Live(handler[i])
        BY <1>1, <2>1 DEF Live
      <4> QED BY <4>2, <4>3 DEF Filed
    <3>3. ASSUME NEW n \in DOMAIN m_vehicleHandlers
          PROVE  /\ handler[m_vehicleHandlers[n]].stopped = "no"
                 /\ NameOf(handler[m_vehicleHandlers[n]])' = n
      <4>1. m_vehicleHandlers[n] \in DOMAIN handler
        BY DEF HandlerType
      <4> QED BY <3>2, <4>1, <2>1 DEF Filed
    <3> QED BY <2>1, <3>1, <3>2, <3>3 DEF Filed
  <2> QED BY <2>2, <2>3, <2>4
<1>3. CASE k \in DOMAIN m_vehicleHandlers
  <2> PICK v \in DOMAIN handler : v = m_vehicleHandlers[k]
    BY <1>3 DEF HandlerType
  <2>1. /\ handler' = [handler EXCEPT ![v] = Stopped(handler[v])]
        /\ DOMAIN m_vehicleHandlers' = DOMAIN m_vehicleHandlers \ {k}
        /\ \A n \in DOMAIN m_vehicleHandlers \ {k} : m_vehicleHandlers'[n] = m_vehicleHandlers[n]
        /\ m_vehicleHandlers' \in [DOMAIN m_vehicleHandlers' -> DOMAIN handler]
    BY <1>3 DEF RemoveNode, HandlerType, Restrict
  <2>2. handler[v] \in HandlerRecord
    BY <2>1, SMTT(30) DEF HandlerType
  <2>3. /\ Stopped(handler[v]) \in HandlerRecord
        /\ Stopped(handler[v]).client = handler[v].client
        /\ Stopped(handler[v]).obj = handler[v].obj
        /\ Stopped(handler[v]).stopped # "no"
        /\ Stopped(handler[v]).stopped = "loop" =>
             /\ ~Stopped(handler[v]).callback /\ ~Stopped(handler[v]).running
             /\ Stopped(handler[v]).pc # "connect"
        /\ Stopped(handler[v]).stopped = "loop" <=> handler[v].pc # "connect" /\ ~handler[v].callback
    BY <2>2 DEF Stopped, Position, HandlerRecord
  <2>4. /\ handler' \in Seq(HandlerRecord) /\ DOMAIN handler' = DOMAIN handler
        /\ handler'[v] = Stopped(handler[v])
        /\ \A i \in DOMAIN handler : i # v => handler'[i] = handler[i]
    BY <2>1, <2>3, SMTT(30) DEF HandlerType
  <2>5. HandlerType'
    BY <1>1, <2>1, <2>4 DEF HandlerType
  <2>6. QuietLoop'
    BY <2>3, <2>4, SMTT(30) DEF QuietLoop
  <2>7. ObjectsFresh'
    BY <1>1, <2>3, <2>4, SMTT(30) DEF ObjectsFresh
  <2>8. StoppedQuiet'
    BY <1>1 DEF StoppedQuiet
  <2>9. Filed'
    <3> SUFFICES ASSUME ~misnamed PROVE Filed'
      BY <1>1 DEF Filed
    <3>1. \A d, e \in DOMAIN m_nodeMap' : m_nodeMap'[d].name = m_nodeMap'[e].name => d = e
      BY <1>1 DEF Filed
    <3>2. /\ handler[v].stopped = "no" /\ Live(handler[v]) /\ handler[v].client = c
      <4>1. handler[v].stopped = "no" /\ NameOf(handler[v]) = k /\ Live(handler[v])
        BY <1>3, <2>1 DEF Filed
      <4> QED BY <4>1 DEF Filed, NameOf, Live
    <3>3. handler'[v].stopped # "no" /\ ~Live(handler[v])'
      BY <1>1, <2>3, <2>4, <3>2 DEF Live
    <3>4. ASSUME NEW i \in DOMAIN handler, i # v
          PROVE  /\ handler'[i].stopped = "no" <=> Live(handler[i])'
                 /\ handler'[i].stopped = "no" =>
                        /\ NameOf(handler[i])' = NameOf(handler[i])
                        /\ NameOf(handler[i]) \in DOMAIN m_vehicleHandlers \ {k}
                        /\ m_vehicleHandlers[NameOf(handler[i])] = i
      <4>1. handler'[i] = handler[i]
        BY <2>4, <3>4
      <4>2. handler[i].stopped = "no" =>
              /\ NameOf(handler[i]) \in DOMAIN m_vehicleHandlers \ {k}
              /\ m_vehicleHandlers[NameOf(handler[i])] = i
        BY <3>4 DEF Filed
      <4>3. handler[i].stopped = "no" => handler[i].client # c
        BY <4>2 DEF NameOf
      <4>4. handler[i].stopped = "no" => Live(handler[i])' /\ NameOf(handler[i])' = NameOf(handler[i])
        BY <1>1, <4>1, <4>3 DEF Filed, Live, NameOf
      <4>5. Live(handler[i])' => Live(handler[i])
        BY <1>1, <4>1 DEF Live
      <4> QED BY <4>1, <4>2, <4>4, <4>5 DEF Filed
    <3>5. ASSUME NEW n \in DOMAIN m_vehicleHandlers \ {k}
          PROVE  /\ handler'[m_vehicleHandlers[n]].stopped = "no"
                 /\ NameOf(handler[m_vehicleHandlers[n]])' = n
      <4>1. m_vehicleHandlers[n] \in DOMAIN handler
        BY DEF HandlerType
      <4>2. NameOf(handler[m_vehicleHandlers[n]]) = n /\ handler[m_vehicleHandlers[n]].stopped = "no"
        BY DEF Filed
      <4>3. m_vehicleHandlers[n] # v
        BY <3>2, <4>2 DEF NameOf
      <4>4. handler'[m_vehicleHandlers[n]].stopped = "no"
        BY <2>4, <4>1, <4>2, <4>3
      <4>5. m_vehicleHandlers'[n] = m_vehicleHandlers[n]
        BY <2>1
      <4> QED BY <3>4, <4>1, <4>2, <4>3, <4>4, <4>5
    <3>6. ASSUME NEW i \in DOMAIN handler'
          PROVE  /\ handler'[i].stopped = "no" <=> Live(handler[i])'
                 /\ handler'[i].stopped = "no" =>
                        /\ NameOf(handler[i])' \in DOMAIN m_vehicleHandlers'
                        /\ m_vehicleHandlers'[NameOf(handler[i])'] = i
      BY <2>1, <2>4, <3>3, <3>4, SMTT(30)
    <3>7. ASSUME NEW n \in DOMAIN m_vehicleHandlers'
          PROVE  /\ handler'[m_vehicleHandlers'[n]].stopped = "no"
                 /\ NameOf(handler[m_vehicleHandlers[n]])' = n
      BY <2>1, <3>5
    <3> QED BY <3>1, <3>6, <3>7 DEF Filed
  <2> QED BY <2>5, <2>6, <2>7, <2>8, <2>9
<1> QED BY <1>2, <1>3

\* A configuration request: a node that exists keeps its object, a new one gets
\* an object no handler points to, and a handler is added only under a name that
\* has none.
LEMMA ConfigureHandlers ==
  ASSUME HandlerInv, SessionType', NEW c \in Client, NEW q \in Request, q.type = "config",
         Configure(c, q), stale' = stale
  PROVE  HandlerInv'
<1> USE DEF HandlerInv
<1>1. q.name \in Key /\ q.vehicle \in BOOLEAN
  BY SessionAssumption DEF AnyRequest
<1> PICK o \in Nat : o = IF c \in DOMAIN m_nodeMap THEN m_nodeMap[c].obj ELSE objects + 1
  BY SMTT(30) DEF HandlerType, SessionType, NodeRecord
<1>2. /\ DOMAIN m_nodeMap' = DOMAIN m_nodeMap \cup {c}
      /\ \A d \in DOMAIN m_nodeMap : d # c => m_nodeMap'[d] = m_nodeMap[d]
      /\ m_nodeMap'[c].obj = o /\ m_nodeMap'[c].name = q.name
  BY DEF Configure
<1>3. /\ objects' \in Nat /\ objects <= objects' /\ o <= objects'
      /\ c \notin DOMAIN m_nodeMap => o = objects + 1
      /\ c \in DOMAIN m_nodeMap => o = m_nodeMap[c].obj
  BY SMTT(30) DEF Configure, ObjectsFresh, HandlerType, SessionType
<1>4. ObjectsFresh' <=> \A i \in DOMAIN handler' : handler'[i].obj <= objects'
  <2>1. \A d \in DOMAIN m_nodeMap' : m_nodeMap'[d].obj <= objects'
    BY <1>2, <1>3, SMTT(30) DEF ObjectsFresh, HandlerType, SessionType, NodeRecord
  <2>2. ASSUME NEW d \in DOMAIN m_nodeMap, d # c PROVE m_nodeMap[d].obj # o
    BY <1>3, <2>2, SMTT(30) DEF ObjectsFresh, HandlerType, SessionType, NodeRecord
  <2>3. \A d, e \in DOMAIN m_nodeMap' : m_nodeMap'[d].obj = m_nodeMap'[e].obj => d = e
    BY <1>2, <2>2 DEF ObjectsFresh
  <2> QED BY <2>1, <2>3 DEF ObjectsFresh
<1>5. misnamed' \in BOOLEAN /\ (misnamed => misnamed')
  BY DEF Configure, HandlerType
<1>6. StoppedQuiet'
  BY <1>5 DEF StoppedQuiet
<1>7. ~misnamed' => /\ \A d \in DOMAIN m_nodeMap : d # c => m_nodeMap[d].name # q.name
                    /\ c \in DOMAIN m_nodeMap => m_nodeMap[c].name = q.name
  BY DEF Configure
<1>8. ~misnamed' => \A d, e \in DOMAIN m_nodeMap' : m_nodeMap'[d].name = m_nodeMap'[e].name => d = e
  BY <1>2, <1>5, <1>7, SMTT(30) DEF Filed
<1>9. objects \in Nat /\ \A i \in DOMAIN handler : handler[i].obj \in Nat /\ handler[i].obj <= objects
  <2>1. \A i \in DOMAIN handler : handler[i] \in HandlerRecord
    BY SMTT(30) DEF HandlerType
  <2>2. \A i \in DOMAIN handler : handler[i].obj \in Nat
    BY <2>1 DEF HandlerRecord
  <2> QED BY <2>2 DEF ObjectsFresh, HandlerType, SessionType
<1>10. ASSUME ~misnamed', NEW i \in DOMAIN handler, NEW h, h = handler[i]
      PROVE  /\ h.stopped = "no" <=> Live(h)'
             /\ h.stopped = "no" => NameOf(h)' = NameOf(h)
  <2>1. h.obj <= objects /\ h.obj \in Nat /\ objects \in Nat
    BY <1>10, <1>9
  <2>2. h.stopped = "no" <=> Live(h)
    BY <1>5, <1>10 DEF Filed
  <2>3. CASE Live(h)
    BY <1>2, <1>3, <1>7, <1>10, <2>2, <2>3 DEF Live, NameOf
  <2>4. CASE ~Live(h)
    BY <1>2, <1>3, <2>1, <2>2, <2>4, SMTT(30) DEF Live
  <2> QED BY <2>3, <2>4
<1>11. CASE ~addVehicle(q)
  <2>1. handler' = handler /\ m_vehicleHandlers' = m_vehicleHandlers
    BY <1>11 DEF Configure
  <2>2. HandlerType' /\ QuietLoop'
    BY <1>5, <2>1 DEF HandlerType, QuietLoop
  <2>3. ObjectsFresh'
    <3>1. \A i \in DOMAIN handler : handler[i].obj <= objects'
      BY <1>3, <1>9, SMTT(30)
    <3> QED BY <1>4, <2>1, <3>1
  <2>4. Filed'
    <3> SUFFICES ASSUME ~misnamed' PROVE Filed'
      BY DEF Filed
    <3>1. ASSUME NEW i \in DOMAIN handler'
          PROVE  /\ handler'[i].stopped = "no" <=> Live(handler[i])'
                 /\ handler'[i].stopped = "no" =>
                        /\ NameOf(handler[i])' \in DOMAIN m_vehicleHandlers'
                        /\ m_vehicleHandlers'[NameOf(handler[i])'] = i
      BY <1>5, <1>10, <2>1, SMTT(30) DEF Filed
    <3>2. ASSUME NEW n \in DOMAIN m_vehicleHandlers'
          PROVE  /\ handler'[m_vehicleHandlers'[n]].stopped = "no"
                 /\ NameOf(handler[m_vehicleHandlers[n]])' = n
      <4>1. PICK i \in DOMAIN handler : i = m_vehicleHandlers[n]
        BY <2>1 DEF HandlerType
      <4>2. handler[i].stopped = "no" /\ NameOf(handler[i]) = n
        BY <1>5, <2>1, <4>1 DEF Filed
      <4>3. NameOf(handler[i])' = n
        BY <1>10, <2>1, <4>2
      <4> QED BY <2>1, <4>1, <4>2, <4>3
    <3> QED BY <1>8, <3>1, <3>2 DEF Filed
  <2> QED BY <1>6, <2>2, <2>3, <2>4
<1>12. CASE addVehicle(q)
  <2> PICK n \in Nat : n = Len(handler) + 1
    BY SMTT(30) DEF HandlerType
  <2> DEFINE h == NewHandler(c, o)
  <2>1. h \in HandlerRecord /\ h.client = c /\ h.obj = o /\ h.stopped = "no"
    BY DEF NewHandler, HandlerRecord
  <2>2. handler' = Append(handler, h) /\ q.name \notin DOMAIN m_vehicleHandlers
    BY <1>12 DEF Configure, addVehicle
  <2> HIDE DEF h
  <2>3. /\ handler' \in Seq(HandlerRecord) /\ DOMAIN handler' = DOMAIN handler \cup {n}
        /\ n \notin DOMAIN handler /\ handler'[n] = h /\ Len(handler') = n
        /\ \A i \in DOMAIN handler : handler'[i] = handler[i]
    BY <2>1, <2>2, SMTT(30) DEF HandlerType
  <2>4. /\ DOMAIN m_vehicleHandlers' = DOMAIN m_vehicleHandlers \cup {q.name}
        /\ m_vehicleHandlers'[q.name] = n
        /\ \A k \in DOMAIN m_vehicleHandlers : m_vehicleHandlers'[k] = m_vehicleHandlers[k]
        /\ m_vehicleHandlers' \in [DOMAIN m_vehicleHandlers' -> DOMAIN handler']
    BY <1>12, <2>2, <2>3 DEF Configure, HandlerType
  <2>5. HandlerType'
    BY <1>1, <1>5, <2>3, <2>4 DEF HandlerType
  <2>6. QuietLoop'
    BY <2>1, <2>3 DEF QuietLoop
  <2>7. ObjectsFresh'
    <3>1. \A i \in DOMAIN handler : handler[i].obj <= objects'
      BY <1>3, <1>9, SMTT(30)
    <3> QED BY <1>3, <1>4, <2>1, <2>3, <3>1
  <2>8. Filed'
    <3> SUFFICES ASSUME ~misnamed' PROVE Filed'
      BY DEF Filed
    <3>1. ASSUME NEW i \in DOMAIN handler
          PROVE  /\ handler'[i].stopped = "no" <=> Live(handler[i])'
                 /\ handler'[i].stopped = "no" =>
                        /\ NameOf(handler[i])' = NameOf(handler[i])
                        /\ NameOf(handler[i]) \in DOMAIN m_vehicleHandlers
                        /\ m_vehicleHandlers[NameOf(handler[i])] = i
      BY <1>5, <1>10, <2>3 DEF Filed
    <3>2. Live(handler[n])' /\ NameOf(handler[n])' = q.name
      BY <1>2, <2>1, <2>3 DEF Live, NameOf
    <3>3. ASSUME NEW i \in DOMAIN handler'
          PROVE  /\ handler'[i].stopped = "no" <=> Live(handler[i])'
                 /\ handler'[i].stopped = "no" =>
                        /\ NameOf(handler[i])' \in DOMAIN m_vehicleHandlers'
                        /\ m_vehicleHandlers'[NameOf(handler[i])'] = i
      <4>1. CASE i = n
        BY <2>1, <2>3, <2>4, <3>2, <4>1
      <4>2. CASE i \in DOMAIN handler
        BY <2>4, <3>1, <4>2
      <4> QED BY <2>3, <4>1, <4>2
    <3>4. ASSUME NEW k \in DOMAIN m_vehicleHandlers'
          PROVE  /\ handler'[m_vehicleHandlers'[k]].stopped = "no"
                 /\ NameOf(handler[m_vehicleHandlers[k]])' = k
      <4>1. CASE k = q.name
        BY <2>1, <2>3, <2>4, <3>2, <4>1
      <4>2. CASE k \in DOMAIN m_vehicleHandlers
        <5>1. PICK i \in DOMAIN handler : i = m_vehicleHandlers[k]
          BY <4>2 DEF HandlerType
        <5>2. handler[i].stopped = "no" /\ NameOf(handler[i]) = k
          BY <1>5, <4>2, <5>1 DEF Filed
        <5>3. handler'[i].stopped = "no" /\ NameOf(handler[i])' = k
          BY <2>3, <3>1, <5>2
        <5>4. m_vehicleHandlers'[k] = i
          BY <2>4, <4>2, <5>1
        <5> QED BY <5>3, <5>4
      <4> QED BY <2>4, <4>1, <4>2
    <3> QED BY <1>8, <3>3, <3>4 DEF Filed
  <2> QED BY <1>6, <2>5, <2>6, <2>7, <2>8
<1> QED BY <1>11, <1>12

\* Every step keeps it.
LEMMA NextHandlers == HandlerInv /\ SessionType' /\ [Next]_vars => HandlerInv'
<1> SUFFICES ASSUME HandlerInv, SessionType', [Next]_vars PROVE HandlerInv'
  OBVIOUS
<1>1. ASSUME UNCHANGED <<nodeVars, handler, stale>> PROVE HandlerInv'
  BY <1>1 DEF nodeVars, HandlerInv, HandlerType, ObjectsFresh, QuietLoop, Filed, StoppedQuiet, Live, NameOf
<1>2. ASSUME NEW c \in Client,
             \/ Connect(c) \/ Close(c) \/ startAccept(c)
             \/ \E q \in Request : Send(c, q)
      PROVE  HandlerInv'
  BY <1>1, <1>2 DEF Connect, Close, startAccept, Send
<1>3. ASSUME NEW c \in Client, ServeRequest(c) PROVE HandlerInv'
  <2>1. PICK q \in inbox[c] : Handle(c, q)
    BY <1>3 DEF ServeRequest
  <2>2. q \in Request /\ stale' = stale
    BY <1>3, <2>1 DEF ServeRequest, HandlerInv, HandlerType, SessionType
  <2>3. CASE q.type = "config"
    BY <2>1, <2>2, <2>3, ConfigureHandlers DEF Handle
  <2>4. CASE q.type = "disconnect" /\ c \in DOMAIN m_nodeMap
    BY <2>1, <2>2, <2>4, RemoveHandlers DEF Handle
  <2>5. CASE q.type # "config" /\ ~(q.type = "disconnect" /\ c \in DOMAIN m_nodeMap)
    <3>1. UNCHANGED <<nodeVars, handler>>
      BY <2>1, <2>5 DEF Handle
    <3> QED BY <1>1, <2>2, <3>1
  <2> QED BY <2>3, <2>4, <2>5
<1>4. ASSUME NEW c \in Client, Timeout(c) PROVE HandlerInv'
  BY <1>4, RemoveHandlers DEF Timeout
<1>5. ASSUME NEW i \in DOMAIN handler PROVE handler[i] \in HandlerRecord
  BY SMTT(30) DEF HandlerInv, HandlerType
<1>6. ASSUME NEW i \in DOMAIN handler, NEW h, handler' = [handler EXCEPT ![i] = h],
             h \in HandlerRecord,
             h.client = handler[i].client, h.obj = handler[i].obj, h.stopped = handler[i].stopped,
             h.stopped = "loop" => ~h.callback /\ ~h.running /\ h.pc # "connect",
             UNCHANGED <<nodeVars, stale>>
      PROVE  HandlerInv'
  <2>1. UNCHANGED <<m_nodeMap, objects, m_vehicleHandlers, misnamed, stale>>
    BY <1>6 DEF nodeVars
  <2>2. StoppedQuiet'
    BY <2>1 DEF HandlerInv, StoppedQuiet
  <2> QED BY <1>6, <2>1, <2>2, HandlerStep
<1>7. ASSUME NEW i \in DOMAIN handler, NEW h, handler' = [handler EXCEPT ![i] = h],
             h \in HandlerRecord,
             h.client = handler[i].client, h.obj = handler[i].obj, h.stopped = handler[i].stopped,
             h.stopped # "loop",
             setLocation(i), UNCHANGED <<objects, m_vehicleHandlers, misnamed>>
      PROVE  HandlerInv'
  <2>1. /\ DOMAIN m_nodeMap' = DOMAIN m_nodeMap
        /\ \A c \in DOMAIN m_nodeMap : /\ m_nodeMap'[c].obj = m_nodeMap[c].obj
                                       /\ m_nodeMap'[c].name = m_nodeMap[c].name
    BY <1>7, SetLocationType DEF HandlerInv, HandlerType
  <2>2. ~Live(handler[i]) /\ handler[i].stopped = "no" => misnamed
    BY DEF HandlerInv, Filed
  <2>3. handler[i].stopped \in {"no", "early", "callback"}
    BY <1>7 DEF HandlerRecord
  <2>4. StoppedQuiet'
    BY <1>7, <2>2, <2>3 DEF setLocation, HandlerInv, StoppedQuiet
  <2> QED BY <1>7, <2>1, <2>4, HandlerStep
<1>8. ASSUME NEW i \in DOMAIN handler, LateVehicle(i) PROVE HandlerInv'
  <2> DEFINE h == [handler[i] EXCEPT !.pc = "late"]
  <2>1. handler' = [handler EXCEPT ![i] = h] /\ UNCHANGED <<nodeVars, stale>>
    BY <1>8 DEF LateVehicle, Move
  <2>2. /\ h \in HandlerRecord /\ h.client = handler[i].client /\ h.obj = handler[i].obj
        /\ h.stopped = handler[i].stopped
    BY <1>5 DEF HandlerRecord
  <2>3. h.stopped = "loop" => ~h.callback /\ ~h.running /\ h.pc # "connect"
    BY <1>5, <1>8 DEF LateVehicle, HandlerInv, QuietLoop, HandlerRecord
  <2> HIDE DEF h
  <2> QED BY <1>6, <2>1, <2>2, <2>3
<1>9. ASSUME NEW i \in DOMAIN handler, Follow(i) PROVE HandlerInv'
  <2> DEFINE h == [handler[i] EXCEPT !.pc = "loop", !.running = TRUE]
  <2>1. handler' = [handler EXCEPT ![i] = h] /\ UNCHANGED <<nodeVars, stale>>
    BY <1>9 DEF Follow
  <2>2. /\ h \in HandlerRecord /\ h.client = handler[i].client /\ h.obj = handler[i].obj
        /\ h.stopped = handler[i].stopped
    BY <1>5 DEF HandlerRecord
  <2>3. h.stopped = "loop" => ~h.callback /\ ~h.running /\ h.pc # "connect"
    BY <1>5, <1>9 DEF Follow, HandlerInv, QuietLoop, HandlerRecord
  <2> HIDE DEF h
  <2> QED BY <1>6, <2>1, <2>2, <2>3
<1>10. ASSUME NEW i \in DOMAIN handler, LeaveLoop(i) PROVE HandlerInv'
  <2> DEFINE h == [handler[i] EXCEPT !.pc = "end"]
  <2>1. handler' = [handler EXCEPT ![i] = h] /\ UNCHANGED <<nodeVars, stale>>
    BY <1>10 DEF LeaveLoop, Move
  <2>2. /\ h \in HandlerRecord /\ h.client = handler[i].client /\ h.obj = handler[i].obj
        /\ h.stopped = handler[i].stopped
    BY <1>5 DEF HandlerRecord
  <2>3. h.stopped = "loop" => ~h.callback /\ ~h.running /\ h.pc # "connect"
    BY <1>5, <1>10 DEF LeaveLoop, HandlerInv, QuietLoop, HandlerRecord
  <2> HIDE DEF h
  <2> QED BY <1>6, <2>1, <2>2, <2>3
<1>11. ASSUME NEW i \in DOMAIN handler, PositionArrives(i) PROVE HandlerInv'
  <2> DEFINE h == [handler[i] EXCEPT !.callback = TRUE]
  <2>1. handler' = [handler EXCEPT ![i] = h] /\ UNCHANGED <<nodeVars, stale>>
    BY <1>11 DEF PositionArrives
  <2>2. /\ h \in HandlerRecord /\ h.client = handler[i].client /\ h.obj = handler[i].obj
        /\ h.stopped = handler[i].stopped
    BY <1>5 DEF HandlerRecord
  <2>3. h.stopped = "loop" => ~h.callback /\ ~h.running /\ h.pc # "connect"
    BY <1>5, <1>11 DEF PositionArrives, HandlerInv, QuietLoop, HandlerRecord
  <2> HIDE DEF h
  <2> QED BY <1>6, <2>1, <2>2, <2>3
<1>12. ASSUME NEW i \in DOMAIN handler, NoVehicle(i) PROVE HandlerInv'
  <2> DEFINE h == [handler[i] EXCEPT !.pc = "end"]
  <2>1. handler' = [handler EXCEPT ![i] = h] /\ setLocation(i) /\ UNCHANGED <<objects, m_vehicleHandlers, misnamed>>
    BY <1>12 DEF NoVehicle, Move
  <2>2. /\ h \in HandlerRecord /\ h.client = handler[i].client /\ h.obj = handler[i].obj
        /\ h.stopped = handler[i].stopped
    BY <1>5 DEF HandlerRecord
  <2>3. h.stopped # "loop"
    BY <1>5, <1>12 DEF NoVehicle, HandlerInv, QuietLoop, HandlerRecord
  <2> HIDE DEF h
  <2> QED BY <1>7, <2>1, <2>2, <2>3
<1>13. ASSUME NEW i \in DOMAIN handler, PositionApplied(i) PROVE HandlerInv'
  <2> DEFINE h == [handler[i] EXCEPT !.callback = FALSE]
  <2>1. handler' = [handler EXCEPT ![i] = h] /\ setLocation(i) /\ UNCHANGED <<objects, m_vehicleHandlers, misnamed>>
    BY <1>13 DEF PositionApplied
  <2>2. /\ h \in HandlerRecord /\ h.client = handler[i].client /\ h.obj = handler[i].obj
        /\ h.stopped = handler[i].stopped
    BY <1>5 DEF HandlerRecord
  <2>3. h.stopped # "loop"
    BY <1>5, <1>13 DEF PositionApplied, HandlerInv, QuietLoop, HandlerRecord
  <2> HIDE DEF h
  <2> QED BY <1>7, <2>1, <2>2, <2>3
<1>14. CASE UNCHANGED vars
  BY <1>1, <1>14 DEF vars
<1>15. CASE Next
  BY <1>2, <1>3, <1>4, <1>8, <1>9, <1>10, <1>11, <1>12, <1>13, <1>15 DEF Next, Io, HandlerThread
<1> QED BY <1>14, <1>15

\* What the filing of the handlers means for one node.
LEMMA FiledAlone == HandlerInv => OneHandlerPerNode
<1> SUFFICES ASSUME HandlerInv, ~misnamed, NEW i \in DOMAIN handler, NEW j \in DOMAIN handler,
                    Live(handler[i]), Live(handler[j]), handler[i].obj = handler[j].obj
             PROVE  i = j
  BY DEF OneHandlerPerNode
<1>1. handler[i].client = handler[j].client
  BY DEF HandlerInv, ObjectsFresh, Live
<1>2. /\ m_vehicleHandlers[NameOf(handler[i])] = i
      /\ m_vehicleHandlers[NameOf(handler[j])] = j
  BY DEF HandlerInv, Filed
<1> QED BY <1>1, <1>2 DEF NameOf

\* Both invariants.
SessionInv == AddressInv /\ HandlerInv

\* They hold in every reachable state of the sessions.
LEMMA SessionInductive == Spec => []SessionInv
<1>1. Init => SessionInv
  BY InitAddress, InitHandlers DEF SessionInv
<1>2. SessionInv /\ [Next]_vars => SessionInv'
  BY NextAddress, NextHandlers DEF SessionInv, AddressInv
<1> QED BY <1>1, <1>2, PTL DEF Spec

\* Stop keeps a handler from writing to a node that has been erased, unless it
\* came before the vehicle was followed or during a callback, or the node's name
\* changed or was shared: StoppedQuiet, for any number of nodes and requests.
THEOREM StoppedStayQuiet == Spec => []StoppedQuiet
<1>1. SessionInv => StoppedQuiet
  BY DEF SessionInv, HandlerInv
<1> QED BY SessionInductive, <1>1, PTL

\* Nodes that keep a name of their own are followed by one handler each, over
\* any sequence of requests, timeouts and registrations: OneHandlerPerNode.
THEOREM HandlersStayAlone == Spec => []OneHandlerPerNode
<1>1. SessionInv => OneHandlerPerNode
  BY FiledAlone DEF SessionInv
<1> QED BY SessionInductive, <1>1, PTL

-----------------------------------------------------------------------------
(* The buffers of a transmitter *)

\* Types and conservation.
Inv == TypeOK /\ BuffersConserved

\* A worker takes a buffer, decides, pushes, drops or wakes the thread: Add2Buff
\* keeps the types and the conservation of buffers.
LEMMA Add2BuffKeeps ==
    ASSUME Inv, NEW w \in Worker, Adding(w) \/ \E b \in Buffer : Add2Buff(w, b)
    PROVE  Inv'
<1> USE TxAssumption DEF Inv, TypeOK, BuffersConserved
<1>1. ASSUME NEW b \in Buffer, Add2Buff(w, b) PROVE Inv'
  BY <1>1, SMTT(30) DEF Add2Buff
<1>2. CASE CheckSize(w)
  BY <1>2 DEF CheckSize
<1>3. CASE DropBoth(w)
  <2>1. CASE m_queue = {} /\ pool' = pool \cup {a_buf[w]} /\ UNCHANGED m_queue
    BY <1>3, <2>1, SMTT(30) DEF DropBoth
  <2>2. ASSUME NEW b \in m_queue, pool' = pool \cup {a_buf[w], b}, m_queue' = m_queue \ {b}
        PROVE  Inv'
    BY <1>3, <2>2, SMTT(30) DEF DropBoth
  <2> QED BY <1>3, <2>1, <2>2 DEF DropBoth
<1>4. CASE Push(w)
  BY <1>4, SMTT(30) DEF Push
<1>5. CASE LockUnlock(w)
  BY <1>5 DEF LockUnlock
<1>6. CASE Notify(w)
  BY <1>6, SMTT(30) DEF Notify
<1> QED BY <1>1, <1>2, <1>3, <1>4, <1>5, <1>6 DEF Adding

\* A pass of the transmitter thread does too.
LEMMA StartKeeps == ASSUME Inv, Start PROVE Inv'
<1> USE TxAssumption DEF Inv, TypeOK, BuffersConserved
<1>1. CASE Lock
  BY <1>1, SMTT(30) DEF Lock
<1>2. CASE Wait
  BY <1>2 DEF Wait
<1>3. CASE TryPop
  BY <1>3, SMTT(30) DEF TryPop
<1>4. CASE SendBurst
  BY <1>4, SMTT(30) DEF SendBurst
<1> QED BY <1>1, <1>2, <1>3, <1>4 DEF Start

\* The invariant holds in every reachable state of Add2Buff and Start.
LEMMA InvAlways == TxSpec => []Inv
<1>1. TxInit => Inv
  BY TxAssumption DEF TxInit, Inv, TypeOK, BuffersConserved
<1>2. Inv /\ [TxNext]_txVars => Inv'
  <2> SUFFICES ASSUME Inv, [TxNext]_txVars PROVE Inv'
    OBVIOUS
  <2>1. CASE UNCHANGED txVars
    BY <2>1 DEF Inv, TypeOK, BuffersConserved, txVars
  <2>2. CASE TxNext
    BY <2>2, Add2BuffKeeps, StartKeeps DEF TxNext
  <2> QED BY <2>1, <2>2
<1> QED BY <1>1, <1>2, PTL DEF TxSpec

\* Type correctness of the transmitter's queue and threads.
THEOREM TypeCorrect == TxSpec => []TypeOK
<1>1. Inv => TypeOK
  BY DEF Inv
<1> QED BY <1>1, InvAlways, PTL

\* Transmitter::Add2Buff and Transmitter::Start, in any interleaving, keep every
\* IQ buffer in exactly one place.
THEOREM BuffersStayConserved == TxSpec => []BuffersConserved
<1>1. Inv => BuffersConserved
  BY DEF Inv
<1> QED BY <1>1, InvAlways, PTL

-----------------------------------------------------------------------------
(* The length of the queue *)

\* Workers that have found room and not pushed yet.  Each has its place among
\* the workers, so the bursts in the queue and theirs have room together.
Pushers == {w \in Worker : a_pc[w] = "push"}
Room == Cardinality(m_queue) + Cardinality(Pushers) <= QUEUE_CAP - 2 + Cardinality(Worker)

\* Queues and sets of workers are finite.
LEMMA Finite ==
    ASSUME TypeOK
    PROVE  /\ IsFiniteSet(m_queue) /\ Cardinality(m_queue) \in Nat
           /\ IsFiniteSet(Pushers) /\ Cardinality(Pushers) \in Nat
           /\ Cardinality(Worker) \in Nat
<1>1. IsFiniteSet(m_queue) /\ IsFiniteSet(Pushers)
  BY TxAssumption, FS_Subset DEF TypeOK, Pushers
<1> QED BY <1>1, TxAssumption, FS_CardinalityType

\* A step that leaves the pushers alone and adds nothing to the queue.
LEMMA RoomShrinks ==
    ASSUME TypeOK, Room, TypeOK', m_queue' \subseteq m_queue, Pushers' = Pushers
    PROVE  Room'
<1>1. Cardinality(m_queue') <= Cardinality(m_queue)
  BY Finite, FS_Subset
<1>2. Cardinality(m_queue') \in Nat
  BY Finite, FS_Subset, FS_CardinalityType
<1> QED BY <1>1, <1>2, Finite, TxAssumption, SMTT(30) DEF Room

\* The test of the size: a worker that joins the pushers was none of them.
LEMMA RoomChecked ==
    ASSUME TypeOK, Room, NEW w \in Worker, CheckSize(w)
    PROVE  Room'
<1>1. w \notin Pushers
  BY DEF CheckSize, Pushers
<1>2. CASE Full
  <2>1. Pushers' = Pushers
    BY <1>2 DEF CheckSize, Pushers, TypeOK
  <2> QED BY <2>1 DEF Room, CheckSize
<1>3. CASE ~Full
  <2>1. Pushers' = Pushers \cup {w}
    BY <1>3 DEF CheckSize, Pushers, TypeOK
  <2>2. Cardinality(Pushers') = Cardinality(Pushers) + 1
    BY <2>1, <1>1, Finite, FS_AddElement
  <2>3. Cardinality(Pushers) + 1 <= Cardinality(Worker)
    <3>1. Pushers \cup {w} \subseteq Worker
      BY DEF Pushers
    <3> QED BY <3>1, <2>1, <2>2, TxAssumption, FS_Subset, SMTT(30)
  <2>4. Cardinality(m_queue) <= QUEUE_CAP - 2
    BY <1>3, Finite, TxAssumption, SMTT(30) DEF Full
  <2> QED BY <2>2, <2>3, <2>4, Finite, TxAssumption, SMTT(30) DEF Room, CheckSize
<1> QED BY <1>2, <1>3

\* The push: the queue gains what the pushers lose.
LEMMA RoomPushed ==
    ASSUME Inv, Room, NEW w \in Worker, Push(w)
    PROVE  Room'
<1>1. a_buf[w] \notin m_queue
  BY DEF Inv, TypeOK, BuffersConserved, Push
<1>2. Cardinality(m_queue') = Cardinality(m_queue) + 1
  BY <1>1, Finite, FS_AddElement DEF Inv, Push
<1>3. w \in Pushers /\ Pushers' = Pushers \ {w}
  BY DEF Inv, Push, Pushers, TypeOK
<1>4. Cardinality(Pushers') = Cardinality(Pushers) - 1
  BY <1>3, Finite, FS_RemoveElement DEF Inv
<1> QED BY <1>2, <1>4, Finite, TxAssumption, SMTT(30) DEF Inv, Room

\* The size test and the push of Add2Buff are two steps, and still the queue of
\* a transmitter exceeds its limit by no more than the further workers.
THEOREM QueueStaysBounded == TxSpec => []QueueBounded
<1>1. TxInit => Room
  <2> SUFFICES ASSUME TxInit PROVE Room
    OBVIOUS
  <2>1. m_queue = {} /\ Pushers = {}
    BY DEF TxInit, Pushers
  <2> QED BY <2>1, FS_EmptySet, FS_CardinalityType, TxAssumption, SMTT(30) DEF Room
<1>2. Inv /\ Inv' /\ Room /\ [TxNext]_txVars => Room'
  <2> SUFFICES ASSUME Inv, Inv', Room, [TxNext]_txVars PROVE Room'
    OBVIOUS
  <2>1. ASSUME NEW w \in Worker, Adding(w) \/ \E b \in Buffer : Add2Buff(w, b) PROVE Room'
    <3>1. CASE CheckSize(w)
      BY <3>1, RoomChecked DEF Inv
    <3>2. CASE Push(w)
      BY <3>2, RoomPushed
    <3>3. CASE DropBoth(w) \/ LockUnlock(w) \/ Notify(w) \/ \E b \in Buffer : Add2Buff(w, b)
      <4>1. m_queue' \subseteq m_queue
        BY <3>3 DEF DropBoth, LockUnlock, Notify, Add2Buff
      <4>2. Pushers' = Pushers
        BY <3>3 DEF DropBoth, LockUnlock, Notify, Add2Buff, Pushers, Inv, TypeOK
      <4> QED BY <4>1, <4>2, RoomShrinks DEF Inv
    <3> QED BY <2>1, <3>1, <3>2, <3>3 DEF Adding
  <2>2. CASE Start \/ UNCHANGED txVars
    <3>1. m_queue' \subseteq m_queue /\ Pushers' = Pushers
      BY <2>2 DEF Start, Lock, Wait, TryPop, SendBurst, txVars, Pushers
    <3> QED BY <3>1, RoomShrinks DEF Inv
  <2> QED BY <2>1, <2>2 DEF TxNext
<1>3. Inv /\ Room => QueueBounded
  BY Finite, TxAssumption, SMTT(30) DEF Inv, Room, QueueBounded
<1> QED BY <1>1, <1>2, <1>3, InvAlways, PTL DEF TxSpec

-----------------------------------------------------------------------------
(* The wakeup of the transmitter *)

\* If the thread sleeps, or is about to with the mutex held, on a queue that has
\* a burst, the worker that pushed it has still to notify, and in the second
\* case to pass the mutex first.
WakeupPending ==
    m_queue # {} =>
        /\ t_pc = "test" => \E w \in Worker : a_pc[w] = "lock"
        /\ t_pc = "waiting" => \E w \in Worker : a_pc[w] \in {"lock", "notify"}

\* No wakeup of Transmitter::Start is lost: the thread never sleeps on a burst
\* unless a worker is on its way to notify_one.
THEOREM NoLostWakeup == TxSpec => []WakeupPending
<1>1. TxInit => WakeupPending
  BY DEF TxInit, WakeupPending
<1>2. TypeOK /\ WakeupPending /\ [TxNext]_txVars => WakeupPending'
  <2> SUFFICES ASSUME TypeOK, WakeupPending, [TxNext]_txVars PROVE WakeupPending'
    OBVIOUS
  <2> USE DEF TypeOK, WakeupPending
  <2>1. ASSUME NEW w \in Worker, NEW b \in Buffer, Add2Buff(w, b) PROVE WakeupPending'
    BY <2>1 DEF Add2Buff
  <2>2. ASSUME NEW w \in Worker, CheckSize(w) PROVE WakeupPending'
    BY <2>2 DEF CheckSize
  <2>3. ASSUME NEW w \in Worker, DropBoth(w) PROVE WakeupPending'
    BY <2>3 DEF DropBoth
  <2>4. ASSUME NEW w \in Worker, Push(w) PROVE WakeupPending'
    BY <2>4 DEF Push
  <2>5. ASSUME NEW w \in Worker, LockUnlock(w) PROVE WakeupPending'
    BY <2>5 DEF LockUnlock, MutexFree
  <2>6. ASSUME NEW w \in Worker, Notify(w) PROVE WakeupPending'
    <3>1. t_pc' # "waiting"
      BY <2>6 DEF Notify
    <3>2. t_pc' = "test" => t_pc = "test"
      BY <2>6 DEF Notify
    <3> QED BY <2>6, <3>1, <3>2 DEF Notify
  <2>7. CASE Start
    BY <2>7 DEF Start, Lock, Wait, TryPop, SendBurst
  <2>8. CASE UNCHANGED txVars
    BY <2>8 DEF txVars
  <2> QED BY <2>1, <2>2, <2>3, <2>4, <2>5, <2>6, <2>7, <2>8 DEF TxNext, Adding
<1> QED BY <1>1, <1>2, TypeCorrect, PTL DEF TxSpec

=============================================================================
