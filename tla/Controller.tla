----------------------------- MODULE Controller -----------------------------
(***************************************************************************)
(* The node controller: registration, retuning, disconnection, heartbeats, *)
(* ports, and the timeout thread.  The TCP server runs requestHandler on   *)
(* one thread; CheckTimeouts runs on another and neither locks m_nodeMap   *)
(* or m_intermediateMap.  Each lookup, attach, detach, sweep and erase is  *)
(* one step.  AssignULChannel and AssignDLChannel do the same for the two  *)
(* directions: "ul" is tx frequency, receiver and sources, "dl" is rx      *)
(* frequency, transmitter and destinations.                                *)
(*                                                                         *)
(* An Intermediate is what the controller can see of it; its inside is the *)
(* module Intermediate.  Time is counted in passes of CheckTimeouts (5 s). *)
(***************************************************************************)
EXTENDS Integers, Sequences, FiniteSets, Functions

CONSTANTS
    Node,
    Freq,        \* frequencies, in units of 5 kHz
    Tuning,      \* the pairs of frequencies a request may ask for
    SandboxMode, \* the sandbox modes CHEM may start in
    MaxRequest,  \* bound: configuration requests
    MaxSwitch    \* bound: changes of the sandbox mode

Timeout == 2     \* isAlive(10)
TuneStep == 2    \* 10e3 Hz

ASSUME ControllerAssumption ==
    /\ Freq \subseteq Nat /\ IsFiniteSet(Node)
    /\ Tuning \subseteq [{"ul", "dl"} -> Freq]
    /\ SandboxMode \subseteq BOOLEAN /\ MaxRequest \in Nat /\ MaxSwitch \in Nat

VARIABLES
    m_nodeMap,           \* id -> [freq, dev, age]; dev 0 is a null pointer
    m_intermediateMap,   \* frequency -> index into itm
    itm,                 \* every Intermediate ever created
    made,                \* receivers and transmitters created so far
    db,                  \* the tables nodes (id -> frequencies) and channels
    pc, dir, req,        \* requestHandler: step, direction, locals
    t_pc, t_id,          \* CheckTimeouts: step, node it removes
    requests,
    sandbox_enabled,     \* RuntimeConfig::sandbox_enabled
    switches, switched,  \* history: changes of it, and one while nodes were registered
    overlap,             \* history: the two threads were inside at the same time
    tuned                \* history: <<id, dir>> that AttachNew put on a channel

ctlVars == <<pc, dir, req>>
tmoVars == <<t_pc, t_id>>
modeVars == <<sandbox_enabled, switches, switched>>
vars == <<m_nodeMap, m_intermediateMap, itm, made, db, ctlVars, tmoVars, requests,
          modeVars, overlap, tuned>>
history == <<modeVars, overlap, tuned>>

Dir == {"ul", "dl"}
Far(f, g) == f - g >= TuneStep \/ g - f >= TuneStep

\* A thread begins a call; busy says that the other one is inside.
Begin(busy) == overlap' = (overlap \/ busy) /\ UNCHANGED <<modeVars, tuned>>

-----------------------------------------------------------------------------
(* What the calls to an Intermediate do, seen from outside *)

isEmpty_Destinations(c) == c.att["dl"] = {} /\ c.sandbox = {}    \* mutant: sources forgotten
isEmpty(c) == c.att["ul"] = {} /\ c.att["dl"] = {} /\ c.sandbox = {}

EmptyChannelChecker_Destinations(c) ==                           \* mutant: sources forgotten
    [c EXCEPT !.work = @ /\ c.att["dl"] # {}]
EmptyChannelChecker(c) == [c EXCEPT !.work = @ /\ ~isEmpty(c)]

Ids(c, d) == {p[1] : p \in c.att[d]}

AttachDev(c, d, id, dev) ==
    IF id \in Ids(c, d) THEN c ELSE [c EXCEPT !.att[d] = @ \cup {<<id, dev>>}]

DetachDev(c, d, id) ==
    IF id \notin Ids(c, d) THEN c
    ELSE EmptyChannelChecker([c EXCEPT !.att[d] = {p \in @ : p[1] # id}])

AddTo(c, d, id, dev) ==
    IF req.sandbox THEN [c EXCEPT !.sandbox = @ \cup {id}] ELSE AttachDev(c, d, id, dev)

RemoveFrom(c, d, id) ==
    IF req.sandbox THEN [c EXCEPT !.sandbox = @ \ {id}] ELSE DetachDev(c, d, id)

\* CreateChannel: a new Intermediate whose Start thread is running.
Created(f) == [freq |-> f, att |-> [d \in Dir |-> {}], sandbox |-> {}, work |-> TRUE]

-----------------------------------------------------------------------------
(* DBHandler: AddNode inserts or updates a row, AddChannel inserts one *)

CreateTables == [nodes |-> << >>, channels |-> {}]

AddNode(nodes, id, freq) ==
    [n \in DOMAIN nodes \cup {id} |-> IF n = id THEN freq ELSE nodes[n]]
DeleteNode(nodes, id) == Restrict(nodes, DOMAIN nodes \ {id})
AddChannel(channels, freq) == channels \cup {freq}
DeleteChannel(channels, freqs) == channels \ freqs    \* called for each of freqs

-----------------------------------------------------------------------------
(* requestHandler: a configuration request *)

GetOrCreateNode(id, freq) ==
    IF id \in DOMAIN m_nodeMap THEN m_nodeMap
    ELSE [n \in DOMAIN m_nodeMap \cup {id} |->
            IF n = id THEN [freq |-> freq, dev |-> [d \in Dir |-> 0], age |-> 0]
            ELSE m_nodeMap[n]]

Register(id, freq) ==
    /\ pc = "idle"
    /\ requests < MaxRequest
    /\ requests' = requests + 1
    /\ m_nodeMap' = GetOrCreateNode(id, freq)
    /\ db' = IF id \in DOMAIN m_nodeMap THEN db ELSE [db EXCEPT !.nodes = AddNode(@, id, freq)]
    /\ req' = [id |-> id, freq |-> freq, ch |-> 0, prevCh |-> 0,
               created |-> id \notin DOMAIN m_nodeMap, sandbox |-> FALSE]
    /\ pc' = "lookup" /\ dir' = "ul"
    /\ Begin(t_pc # "sleep")
    /\ UNCHANGED <<m_intermediateMap, itm, made, tmoVars>>

NoRequest ==
    [id |-> 0, freq |-> [d \in Dir |-> 0], ch |-> 0, prevCh |-> 0, created |-> FALSE,
     sandbox |-> FALSE]
target == m_nodeMap[req.id]
Valid == req.id \in DOMAIN m_nodeMap

\* The node is written to the database again if a direction was assigned, or if
\* it is new; a redundant request returns before that.
Persist_Uplink(rows, locals) ==     \* mutant: the second |= is an assignment
    IF dir = "dl" /\ pc = "attach"
    THEN [rows EXCEPT !.nodes = AddNode(@, locals.id, m_nodeMap'[locals.id].freq)] ELSE rows
Persist(rows, locals) ==
    IF dir = "dl" /\ locals.created
    THEN [rows EXCEPT !.nodes = AddNode(@, locals.id, m_nodeMap'[locals.id].freq)] ELSE rows

\* The rest of the request: the other direction, or the reply.
Return(locals, rows) ==
    /\ pc' = (IF dir = "ul" THEN "lookup" ELSE "idle") /\ dir' = "dl"
    /\ req' = IF dir = "ul" THEN locals ELSE NoRequest
    /\ db' = Persist(rows, locals)

\* CreateReceiver and CreateTransmitter: the next port of the pool, never given back.
AssignPort(d) == made[d] + 1

Lookup ==
    LET f == req.freq[dir]
        prev == target.freq[dir]
        ch_found == f \in DOMAIN m_intermediateMap
        prev_ch_found == prev \in DOMAIN m_intermediateMap
        isSame == target.freq = req.freq
        rows == IF ch_found THEN db ELSE [db EXCEPT !.channels = AddChannel(@, f)]
        create == ~sandbox_enabled /\ target.dev[dir] = 0
    IN  /\ pc = "lookup" /\ Valid
        /\ made' = IF create THEN [made EXCEPT ![dir] = @ + 1] ELSE made
        /\ m_nodeMap' = IF create THEN [m_nodeMap EXCEPT ![req.id].dev[dir] = AssignPort(dir)]
                        ELSE m_nodeMap
        /\ itm' = IF ch_found THEN itm ELSE Append(itm, Created(f))
        /\ m_intermediateMap' =
             IF ch_found THEN m_intermediateMap
             ELSE [g \in DOMAIN m_intermediateMap \cup {f} |->
                     IF g = f THEN Len(itm') ELSE m_intermediateMap[g]]
        /\ \/ /\ (isSame /\ ~ch_found) \/ ~Far(prev, f)
              /\ Return(req, rows)
           \/ /\ ~(isSame /\ ~ch_found) /\ Far(prev, f)
              /\ pc' = (IF prev_ch_found THEN "detach" ELSE "attach")
              /\ req' = [req EXCEPT
                           !.ch = m_intermediateMap'[f], !.sandbox = sandbox_enabled,
                           !.prevCh = IF prev_ch_found THEN m_intermediateMap[prev] ELSE 0]
              /\ db' = rows /\ UNCHANGED dir
    /\ UNCHANGED <<tmoVars, requests, history>>

\* Leave the previous channel; isChannelEmpty then drops it from the map.
Dropped(c) ==
    IF isEmpty(c) THEN Restrict(m_intermediateMap, DOMAIN m_intermediateMap \ {c.freq})
    ELSE m_intermediateMap

DetachPrevious ==
    LET c == RemoveFrom(itm[req.prevCh], dir, req.id)
    IN  /\ pc = "detach" /\ Valid
        /\ itm' = [itm EXCEPT ![req.prevCh] = c]
        /\ m_intermediateMap' = Dropped(c)
        /\ db' = IF isEmpty(c) THEN [db EXCEPT !.channels = DeleteChannel(@, {c.freq})] ELSE db
        /\ pc' = "attach"
        /\ UNCHANGED <<m_nodeMap, made, dir, req, tmoVars, requests, history>>

AttachNew ==
    /\ pc = "attach" /\ Valid
    /\ m_nodeMap' = [m_nodeMap EXCEPT ![req.id].freq[dir] = req.freq[dir]]
    /\ itm' = [itm EXCEPT ![req.ch] = AddTo(@, dir, req.id, target.dev[dir])]
    /\ Return([req EXCEPT !.ch = 0, !.prevCh = 0, !.created = TRUE, !.sandbox = FALSE], db)
    /\ tuned' = tuned \cup {<<req.id, dir>>}
    /\ UNCHANGED <<m_intermediateMap, made, tmoVars, requests, modeVars, overlap>>

AssignULChannel == dir = "ul" /\ (Lookup \/ DetachPrevious \/ AttachNew)
AssignDLChannel == dir = "dl" /\ (Lookup \/ DetachPrevious \/ AttachNew)

-----------------------------------------------------------------------------
(* Removing a node: the disconnect request and CheckTimeouts *)

\* Its devices leave every Intermediate of the map.  A sandbox node has none.
DetachedAll_DlOnly(id) ==           \* mutant: the receiver stays attached
    [i \in DOMAIN itm |->
        IF i \in Range(m_intermediateMap) THEN DetachDev(itm[i], "dl", id) ELSE itm[i]]

DetachedAll(id) ==
    LET Leave(c, d) == IF m_nodeMap[id].dev[d] # 0 THEN DetachDev(c, d, id) ELSE c
    IN  [i \in DOMAIN itm |->
            IF i \in Range(m_intermediateMap) THEN Leave(Leave(itm[i], "dl"), "ul") ELSE itm[i]]

NotEmpty == {f \in DOMAIN m_intermediateMap : ~isEmpty(itm[m_intermediateMap[f]])}

\* The empty channels leave the map and the database.
Sweep ==
    /\ m_intermediateMap' = Restrict(m_intermediateMap, NotEmpty)
    /\ db' = [db EXCEPT !.channels = DeleteChannel(@, DOMAIN m_intermediateMap \ NotEmpty)]

Disconnect(id) ==
    /\ pc = "idle"
    /\ id \in DOMAIN m_nodeMap
    /\ req' = [NoRequest EXCEPT !.id = id]
    /\ itm' = DetachedAll(id)
    /\ pc' = "sweep"
    /\ Begin(t_pc # "sleep")
    /\ UNCHANGED <<m_nodeMap, m_intermediateMap, made, db, dir, tmoVars, requests>>

DisconnectSweep ==
    /\ pc = "sweep"
    /\ Sweep
    /\ pc' = "erase"
    /\ UNCHANGED <<m_nodeMap, itm, made, dir, req, tmoVars, requests, history>>

DisconnectErase ==
    /\ pc = "erase" /\ Valid
    /\ m_nodeMap' = Restrict(m_nodeMap, DOMAIN m_nodeMap \ {req.id})
    /\ db' = [db EXCEPT !.nodes = DeleteNode(@, req.id)]
    /\ tuned' = {p \in tuned : p[1] # req.id}
    /\ pc' = "idle" /\ req' = NoRequest
    /\ UNCHANGED <<m_intermediateMap, itm, made, dir, tmoVars, requests, modeVars, overlap>>

TimedOut_Early(id) == m_nodeMap[id].age >= Timeout - 1      \* mutant: one pass too early
TimedOut(id) == m_nodeMap[id].age >= Timeout

CheckTimeouts(id) ==
    /\ t_pc = "sleep"
    /\ id \in DOMAIN m_nodeMap /\ TimedOut(id)
    /\ t_id' = id
    /\ itm' = DetachedAll(id)
    /\ t_pc' = "sweep"
    /\ Begin(pc # "idle")
    /\ UNCHANGED <<m_nodeMap, m_intermediateMap, made, db, ctlVars, requests>>

TimeoutSweep ==
    /\ t_pc = "sweep"
    /\ Sweep
    /\ t_pc' = "erase"
    /\ UNCHANGED <<m_nodeMap, itm, made, ctlVars, t_id, requests, history>>

TimeoutErase ==
    /\ t_pc = "erase" /\ t_id \in DOMAIN m_nodeMap
    /\ m_nodeMap' = Restrict(m_nodeMap, DOMAIN m_nodeMap \ {t_id})
    /\ db' = [db EXCEPT !.nodes = DeleteNode(@, t_id)]
    /\ tuned' = {p \in tuned : p[1] # t_id}
    /\ t_pc' = "sleep" /\ t_id' = 0
    /\ UNCHANGED <<m_intermediateMap, itm, made, ctlVars, requests, modeVars, overlap>>

\* A thread goes on with a node the other one erased: undefined from here on.
UseErased ==
    \/ /\ pc # "idle" /\ pc # "sweep" /\ ~Valid
       /\ pc' = "undefined"
       /\ UNCHANGED <<m_nodeMap, m_intermediateMap, itm, made, db, dir, req, tmoVars, requests, history>>
    \/ /\ t_pc = "erase" /\ t_id \notin DOMAIN m_nodeMap
       /\ t_pc' = "undefined"
       /\ UNCHANGED <<m_nodeMap, m_intermediateMap, itm, made, db, ctlVars, t_id, requests, history>>

-----------------------------------------------------------------------------
Heartbeat(id) ==
    /\ pc = "idle"
    /\ id \in DOMAIN m_nodeMap
    /\ m_nodeMap' = [m_nodeMap EXCEPT ![id].age = 0]
    /\ Begin(t_pc # "sleep")
    /\ UNCHANGED <<m_intermediateMap, itm, made, db, ctlVars, tmoVars, requests>>

\* 5 s pass; ages beyond Timeout are alike.
Tick ==
    /\ m_nodeMap' = [n \in DOMAIN m_nodeMap |->
                       [m_nodeMap[n] EXCEPT !.age = IF @ < Timeout THEN @ + 1 ELSE @]]
    /\ UNCHANGED <<m_intermediateMap, itm, made, db, ctlVars, tmoVars, requests, history>>

\* The commands start and stop of SandboxExtension, on the Coordinator's thread.
SwitchSandbox ==
    /\ switches < MaxSwitch
    /\ sandbox_enabled' = ~sandbox_enabled
    /\ switches' = switches + 1
    /\ switched' = (switched \/ DOMAIN m_nodeMap # {})
    /\ UNCHANGED <<m_nodeMap, m_intermediateMap, itm, made, db, ctlVars, tmoVars, requests,
                   overlap, tuned>>

Init ==
    /\ m_nodeMap = << >> /\ m_intermediateMap = << >> /\ itm = << >>
    /\ made = [d \in Dir |-> 0] /\ db = CreateTables
    /\ pc = "idle" /\ dir = "dl"
    /\ req = NoRequest
    /\ t_pc = "sleep" /\ t_id = 0
    /\ requests = 0
    /\ sandbox_enabled \in SandboxMode /\ switches = 0 /\ switched = FALSE /\ overlap = FALSE /\ tuned = {}

Next ==
    /\ pc # "undefined" /\ t_pc # "undefined"
    /\ \/ \E id \in Node :
            \/ \E f \in Tuning : Register(id, f)
            \/ Disconnect(id)
            \/ Heartbeat(id)
            \/ CheckTimeouts(id)
       \/ AssignULChannel \/ AssignDLChannel
       \/ DisconnectSweep \/ DisconnectErase
       \/ TimeoutSweep \/ TimeoutErase
       \/ UseErased
       \/ SwitchSandbox
       \/ Tick

Spec == Init /\ [][Next]_vars

-----------------------------------------------------------------------------
(* Properties *)

\* No call is running, and none ever ran during another one.
Quiet == pc = "idle" /\ t_pc = "sleep" /\ ~overlap

\* Between requests a device is attached only to an Intermediate that the map
\* has for its frequency, and only as long as its node is registered; and it is
\* the frequency its node is tuned to, unless the sandbox mode was switched under
\* registered nodes: a node retuned in the other mode is left on both channels.
AttachedWhereTuned ==
    Quiet =>
        \A i \in DOMAIN itm : \A d \in Dir : \A p \in itm[i].att[d] :
            /\ p[1] \in DOMAIN m_nodeMap
            /\ m_nodeMap[p[1]].dev[d] = p[2]
            /\ itm[i].freq \in DOMAIN m_intermediateMap
            /\ m_intermediateMap[itm[i].freq] = i
            /\ m_nodeMap[p[1]].freq[d] = itm[i].freq \/ switched

\* docs/chem.md: an Intermediate distributes every incoming signal of a source.
\* Its workers run only while work is true, so one with a source has work; a
\* request that overlaps CheckTimeouts may attach to one that has just stopped.
SourcesServed == ~overlap => \A i \in DOMAIN itm : itm[i].att["ul"] # {} => itm[i].work

\* docs/chem.md: nodes that have not responded for 10 s are removed; a node that
\* disappears disconnected or is that old when it is erased, unless a heartbeat
\* came while CheckTimeouts was removing it.
HeartbeatKept ==
    [][\A n \in DOMAIN m_nodeMap \ DOMAIN m_nodeMap' :
            m_nodeMap[n].age >= Timeout \/ (pc = "erase" /\ req.id = n) \/ overlap]_vars

\* docs/chem.md: an Intermediate has all the sources and destinations tuned to
\* its frequency.  A device that was put on a channel stays on the channel of its
\* node's frequency, whatever other nodes do; the first registration of a node
\* puts it on none.
TunedAttached ==
    Quiet /\ ~sandbox_enabled /\ ~switched =>
        \A p \in tuned :
            LET f == m_nodeMap[p[1]].freq[p[2]]
            IN  f \in DOMAIN m_intermediateMap /\ p[1] \in Ids(itm[m_intermediateMap[f]], p[2])

\* The interface of CHEM answers from the database: between requests it lists
\* the registered nodes with the frequencies they are tuned to, and the channels
\* that exist, whatever paths of registration, retuning and removal came before.
DatabaseAgrees ==
    Quiet => db = [nodes |-> [n \in DOMAIN m_nodeMap |-> m_nodeMap[n].freq],
                   channels |-> DOMAIN m_intermediateMap]

=============================================================================
