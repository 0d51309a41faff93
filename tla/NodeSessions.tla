---------------------------- MODULE NodeSessions ----------------------------
(***************************************************************************)
(* The sessions of emulated nodes: their TCP connections to the Controller,*)
(* served by one io thread, the address the Controller keeps for a node,   *)
(* and the vehicle handlers that follow a node's position on threads of    *)
(* their own, with a raw pointer to the node.                              *)
(*                                                                         *)
(* A client stands for its host, its IP address and the id of its node.    *)
(* Channels, and the timeout thread inside a request, are the module       *)
(* Controller.  Node objects are numbered as they are created, so that a   *)
(* pointer to an erased one can be told from a pointer to its successor.   *)
(***************************************************************************)
EXTENDS Naturals, Sequences, FiniteSets, Functions

CONSTANTS
    Client, NoClient,
    Key,        \* the names of nodes, under which m_vehicleHandlers keeps a handler
    Request,    \* the requests that are considered
    MaxSend     \* bound: requests

\* What a request may say: a configuration comes with or without a vehicle or a
\* location.
AnyRequest == [type : {"config"}, name : Key, vehicle : BOOLEAN, location : BOOLEAN]
           \cup [type : {"heartbeat", "disconnect"}]

ASSUME SessionAssumption ==
    /\ IsFiniteSet(Client) /\ NoClient \notin Client /\ MaxSend \in Nat
    /\ Request \subseteq AnyRequest

VARIABLES
    conn,              \* each client's connection
    inbox,             \* each client's request, as long as it has no reply
    m_remote_ip,       \* TCPServer::m_remote_ip
    overlap,           \* history: two connections were open at the same time
    down,              \* an exception has left the io thread and ended the process
    m_nodeMap,         \* id -> [obj, name, ip, located]
    objects,           \* node objects created
    m_vehicleHandlers, \* name -> index into handler
    handler,           \* every Handler ever started
    stale,             \* history: how those had been stopped that wrote to an erased node
    misnamed,          \* history: a node took another name, or one that was in use
    sent

netVars == <<conn, inbox, overlap, sent>>
nodeVars == <<m_nodeMap, objects, m_vehicleHandlers, misnamed>>
vars == <<netVars, m_remote_ip, down, nodeVars, handler, stale>>

-----------------------------------------------------------------------------
(* Clients (external) *)

Connect(c) ==
    /\ conn[c] = "closed"
    /\ conn' = [conn EXCEPT ![c] = "pending"]
    /\ overlap' = (overlap \/ \E d \in Client : conn[d] # "closed")
    /\ UNCHANGED <<inbox, sent, m_remote_ip, down, nodeVars, handler, stale>>

\* A client waits for the reply before its next request.
Send(c, q) ==
    /\ conn[c] # "closed" /\ inbox[c] = {} /\ sent < MaxSend
    /\ sent' = sent + 1
    /\ inbox' = [inbox EXCEPT ![c] = {q}]
    /\ UNCHANGED <<conn, overlap, m_remote_ip, down, nodeVars, handler, stale>>

\* The client closes, or dies, after its last reply; the read of the server fails.
Close(c) ==
    /\ conn[c] = "open" /\ inbox[c] = {}
    /\ conn' = [conn EXCEPT ![c] = "closed"]
    /\ UNCHANGED <<inbox, overlap, sent, m_remote_ip, down, nodeVars, handler, stale>>

-----------------------------------------------------------------------------
(* requestHandler, as far as nodes and vehicles are concerned *)

NewHandler(c, obj) ==
    [client |-> c, obj |-> obj, pc |-> "connect", running |-> FALSE, callback |-> FALSE,
     stopped |-> "no"]

\* Mutant: a request for a node that has a handler starts another.
addVehicle_Again(q) == q.vehicle

addVehicle(q) == q.vehicle /\ q.name \notin DOMAIN m_vehicleHandlers

\* GetOrCreateNode and refreshFromConfig.  The address is that of the connection
\* that was last accepted or served.
Configure(c, q) ==
    LET known == c \in DOMAIN m_nodeMap
        obj == IF known THEN m_nodeMap[c].obj ELSE objects + 1
        located == q.location \/ (known /\ m_nodeMap[c].located)
        vehicle == addVehicle(q)
    IN  /\ m_nodeMap' = [n \in DOMAIN m_nodeMap \cup {c} |->
                           IF n = c THEN [obj |-> obj, name |-> q.name, ip |-> m_remote_ip,
                                          located |-> located]
                           ELSE m_nodeMap[n]]
        /\ objects' = IF known THEN objects ELSE objects + 1
        /\ handler' = IF vehicle THEN Append(handler, NewHandler(c, obj)) ELSE handler
        /\ m_vehicleHandlers' =
             IF vehicle
             THEN [k \in DOMAIN m_vehicleHandlers \cup {q.name} |->
                     IF k = q.name THEN Len(handler') ELSE m_vehicleHandlers[k]]
             ELSE m_vehicleHandlers
        /\ misnamed' = (misnamed \/ \E n \in DOMAIN m_nodeMap :
                            (n = c) # (m_nodeMap[n].name = q.name))

\* Where a handler is when Stop reaches it.
Position(h) ==
    CASE h.pc = "connect" -> "early"
      [] h.callback -> "callback"
      [] OTHER -> "loop"

\* Mutant: a handler in the middle of a callback is not stopped.
Stopped_Idle(h) == [h EXCEPT !.running = h.callback, !.stopped = Position(h)]

Stopped(h) == [h EXCEPT !.running = FALSE, !.stopped = Position(h)]

\* Stop and forget the handler under the node's name, then erase the node.
RemoveNode(c) ==
    LET k == m_nodeMap[c].name
    IN  /\ IF k \in DOMAIN m_vehicleHandlers
           THEN /\ handler' = [handler EXCEPT ![m_vehicleHandlers[k]] = Stopped(@)]
                /\ m_vehicleHandlers' = Restrict(m_vehicleHandlers, DOMAIN m_vehicleHandlers \ {k})
           ELSE UNCHANGED <<handler, m_vehicleHandlers>>
        /\ m_nodeMap' = Restrict(m_nodeMap, DOMAIN m_nodeMap \ {c})
        /\ UNCHANGED <<objects, misnamed>>

Handle(c, q) ==
    CASE q.type = "config" -> Configure(c, q)
      [] q.type = "disconnect" /\ c \in DOMAIN m_nodeMap -> RemoveNode(c)
      [] OTHER -> UNCHANGED <<nodeVars, handler>>

-----------------------------------------------------------------------------
(* The io thread *)

\* Note the address and start a read.  If the client has reset the connection
\* by now, remote_endpoint throws, nothing catches, and the process ends.
handle_connection(c) ==
    \/ conn' = [conn EXCEPT ![c] = "open"] /\ m_remote_ip' = c /\ UNCHANGED down
    \/ down' = TRUE /\ UNCHANGED <<conn, m_remote_ip>>

\* Mutant: the address is noted only after a request.
startAccept_Unnoted(c) ==
    /\ conn[c] = "pending"
    /\ conn' = [conn EXCEPT ![c] = "open"]
    /\ UNCHANGED <<inbox, overlap, sent, m_remote_ip, down, nodeVars, handler, stale>>

startAccept(c) ==
    /\ conn[c] = "pending"
    /\ handle_connection(c)
    /\ UNCHANGED <<inbox, overlap, sent, nodeVars, handler, stale>>

\* Mutant: the connection is not read again.
ServeRequest_Once(c) ==
    /\ conn[c] = "open"
    /\ \E q \in inbox[c] : Handle(c, q)
    /\ inbox' = [inbox EXCEPT ![c] = {}]
    /\ conn' = [conn EXCEPT ![c] = "unread"]
    /\ UNCHANGED <<overlap, sent, stale, m_remote_ip, down>>

\* A request is read, handled and answered, and the next read begins.
ServeRequest(c) ==
    /\ conn[c] = "open"
    /\ \E q \in inbox[c] : Handle(c, q)
    /\ inbox' = [inbox EXCEPT ![c] = {}]
    /\ handle_connection(c)
    /\ UNCHANGED <<overlap, sent, stale>>

\* CheckTimeouts removes a node that has been silent for long enough.
Timeout(c) ==
    /\ c \in DOMAIN m_nodeMap /\ inbox[c] = {}
    /\ RemoveNode(c)
    /\ UNCHANGED <<netVars, m_remote_ip, down, stale>>

-----------------------------------------------------------------------------
(* Handler::Start and its callbacks, each handler on its own threads *)

Live(h) == h.client \in DOMAIN m_nodeMap /\ m_nodeMap[h.client].obj = h.obj

\* m_node->setLocation
setLocation(i) ==
    LET h == handler[i]
    IN  IF Live(h)
        THEN m_nodeMap' = [m_nodeMap EXCEPT ![h.client].located = TRUE] /\ UNCHANGED stale
        ELSE stale' = stale \cup {h.stopped} /\ UNCHANGED m_nodeMap

Move(i, pc) == handler' = [handler EXCEPT ![i].pc = pc]

\* Mutant: a node without its vehicle stays where it is.
NoVehicle_Quiet(i) ==
    /\ handler[i].pc = "connect"
    /\ Move(i, "end")
    /\ UNCHANGED <<netVars, m_remote_ip, down, nodeVars, stale>>

\* No connection, or no system within six seconds: the fallback location.
NoVehicle(i) ==
    /\ handler[i].pc = "connect"
    /\ setLocation(i)
    /\ Move(i, "end")
    /\ UNCHANGED <<netVars, m_remote_ip, down, objects, m_vehicleHandlers, misnamed>>

\* A system that took five seconds or more is left alone, without a fallback.
LateVehicle(i) ==
    /\ handler[i].pc = "connect"
    /\ Move(i, "late")
    /\ UNCHANGED <<netVars, m_remote_ip, down, nodeVars, stale>>

\* _running is set whether or not Stop has been called.
Follow(i) ==
    /\ handler[i].pc = "connect"
    /\ handler' = [handler EXCEPT ![i] = [@ EXCEPT !.pc = "loop", !.running = TRUE]]
    /\ UNCHANGED <<netVars, m_remote_ip, down, nodeVars, stale>>

\* Mutant: the callback does not test _running.
PositionArrives_Untested(i) ==
    /\ handler[i].pc = "loop" /\ ~handler[i].callback
    /\ handler' = [handler EXCEPT ![i].callback = TRUE]
    /\ UNCHANGED <<netVars, m_remote_ip, down, nodeVars, stale>>

\* A position arrives; the callback tests _running and uses the node later.
PositionArrives(i) ==
    /\ handler[i].pc = "loop" /\ handler[i].running /\ ~handler[i].callback
    /\ handler' = [handler EXCEPT ![i].callback = TRUE]
    /\ UNCHANGED <<netVars, m_remote_ip, down, nodeVars, stale>>

PositionApplied(i) ==
    /\ handler[i].callback
    /\ setLocation(i)
    /\ handler' = [handler EXCEPT ![i].callback = FALSE]
    /\ UNCHANGED <<netVars, m_remote_ip, down, objects, m_vehicleHandlers, misnamed>>

\* The loop ends, and Telemetry with it, once no callback is under way.
LeaveLoop(i) ==
    /\ handler[i].pc = "loop" /\ ~handler[i].running /\ ~handler[i].callback
    /\ Move(i, "end")
    /\ UNCHANGED <<netVars, m_remote_ip, down, nodeVars, stale>>

-----------------------------------------------------------------------------
Init ==
    /\ conn = [c \in Client |-> "closed"] /\ inbox = [c \in Client |-> {}]
    /\ m_remote_ip = NoClient /\ overlap = FALSE /\ down = FALSE
    /\ m_nodeMap = << >> /\ objects = 0 /\ m_vehicleHandlers = << >>
    /\ handler = << >> /\ stale = {}
    /\ misnamed = FALSE /\ sent = 0

Io(c) == startAccept(c) \/ ServeRequest(c)

HandlerThread(i) ==
    \/ NoVehicle(i) \/ LateVehicle(i) \/ Follow(i)
    \/ PositionApplied(i) \/ LeaveLoop(i)

Next ==
    /\ ~down
    /\ \/ \E c \in Client :
            \/ Connect(c) \/ Close(c)
            \/ \E q \in Request : Send(c, q)
            \/ Io(c) \/ Timeout(c)
       \/ \E i \in DOMAIN handler : HandlerThread(i) \/ PositionArrives(i)

Spec == Init /\ [][Next]_vars

\* The io thread serves every connection that is ready, and every handler
\* thread runs; nothing obliges a client to send or a vehicle to report.
FairSpec ==
    /\ Spec
    /\ \A c \in Client : WF_vars(~down /\ Io(c))
    /\ \A i \in 1 .. MaxSend : WF_vars(~down /\ i \in DOMAIN handler /\ HandlerThread(i))

-----------------------------------------------------------------------------
(* Properties *)

\* The Controller knows a node by the address its bursts must be sent to: the
\* host that registered it, as long as no two connections were open at once.
\* (m_remote_ip belongs to the server: with two it may be the other host's.)
AddressKept == ~overlap => \A c \in DOMAIN m_nodeMap : m_nodeMap[c].ip = c

\* A client that waits for each reply gets every reply, over any number of
\* requests and reconnections and whatever other clients do, unless the process
\* has ended: a client that dies between its connection or its request and the
\* call of remote_endpoint takes the emulator with it.
RequestsAnswered == \A c \in Client : inbox[c] # {} ~> (inbox[c] = {} \/ down)

\* One node is not followed by two vehicle handlers, whatever requests it
\* repeats, since both would write its location; as long as every node keeps a
\* name of its own.  (Handlers are filed under the name: removing a node stops
\* the handler of its namesake.)
OneHandlerPerNode ==
    ~misnamed =>
        \A i, j \in DOMAIN handler :
            /\ {handler[i].pc, handler[j].pc} \subseteq {"connect", "loop"}
            /\ Live(handler[i]) /\ Live(handler[j]) /\ handler[i].obj = handler[j].obj
            => i = j

\* Only a handler that was stopped before it followed its vehicle, or in the
\* middle of a callback, writes to a node that has been erased: one stopped in
\* its loop never does, and none is forgotten unless its node was renamed.
StoppedQuiet == stale \subseteq {"early", "callback"} \cup (IF misnamed THEN {"no"} ELSE {})

\* A handler that was stopped ends, unless Stop came before Start set _running:
\* such a thread may follow its vehicle for ever.
StoppedEnds ==
    \A i \in 1 .. MaxSend :
        (i \in DOMAIN handler /\ handler[i].stopped \in {"callback", "loop"})
            ~> (i \in DOMAIN handler /\ (handler[i].pc \in {"end", "late"} \/ down))

\* A node with a vehicle gets a location, from the vehicle or the fallback, or
\* has a handler that waits for positions; unless the vehicle was late, or the
\* node was removed first.
VehicleSettles ==
    \A i \in 1 .. MaxSend :
        i \in DOMAIN handler ~>
            (/\ i \in DOMAIN handler
             /\ \/ down \/ ~Live(handler[i]) \/ m_nodeMap[handler[i].client].located
                \/ handler[i].running \/ handler[i].pc = "late" \/ handler[i].stopped # "no")

=============================================================================
