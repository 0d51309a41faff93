--------------------------- MODULE SionnaExtension ---------------------------
(***************************************************************************)
(* The Sionna extension: a thread that registers nodes with a ray-tracing  *)
(* server, sends it their positions, fetches the impulse responses of all  *)
(* pairs and installs them as taps of the channels; commands that start    *)
(* and stop it; the Controller adding and removing links meanwhile.        *)
(*                                                                         *)
(* The server knows devices by name and answers with a matrix in the order *)
(* of their registration, so the client keeps the order of its own.  An    *)
(* HTTP request succeeds, fails before the server has seen it, or breaks   *)
(* off before the answer; it may also never end, since the requests are    *)
(* synchronous and a deadline of Beast's ends asynchronous ones only.      *)
(* Status codes are not looked at: a refusal is a success to the client.   *)
(***************************************************************************)
EXTENDS Integers, Sequences, Functions

CONSTANTS
    NumNodes,   \* nodes are 1 .. NumNodes, in the order of m_nodeMap
    Position, NoPosition,
    MaxInput,   \* bound: commands, position changes, links added or removed
    MaxFault    \* bound: failed requests and restarts of the server

Node == 1 .. NumNodes
Role == {"tx", "rx"}
Link == {l \in Node \X Node : l[1] # l[2]}
NoTaps == << >>

ASSUME SionnaAssumption ==
    /\ NumNodes \in Nat \ {0} /\ NoPosition \notin Position
    /\ MaxInput \in Nat /\ MaxFault \in Nat

VARIABLES
    m_running,
    joining,          \* onStop waits for the thread
    th,               \* the poll thread: step and locals
    m_sceneId,        \* is it set
    m_order,          \* m_txOrder and m_rxOrder; the keys of m_txMap and m_rxMap
    m_lastPositions,
    scene,            \* the server's scene: [up, order, pos, traced], the last for the matrix
    location,         \* getLocation of every node
    channels,         \* link -> [taps, sionna]; taps name the pair they were traced for
    lost,             \* history: the answer to a registration was lost
    missed,           \* history: the last attempt to send a node failed
    recreated,        \* history: a link was removed between its taps and its flag
    inputs, faults

client == <<m_running, joining, m_sceneId, m_order, m_lastPositions>>
history == <<lost, missed, recreated>>
bounds == <<inputs, faults>>
vars == <<client, th, scene, location, channels, history, bounds>>

At(step) == [at |-> step]
NoOrder == [r \in Role |-> << >>]
NoScene == [up |-> FALSE, order |-> NoOrder, traced |-> NoOrder,
            pos |-> [r \in Role |-> [n \in Node |-> NoPosition]]]
Registered(r, n) == n \in Range(m_order[r])
Input == inputs < MaxInput /\ inputs' = inputs + 1 /\ UNCHANGED faults
Fault == faults < MaxFault /\ faults' = faults + 1 /\ UNCHANGED inputs

-----------------------------------------------------------------------------
(* Commands *)

onStart ==
    /\ Input
    /\ ~m_running /\ ~joining
    /\ m_running' = TRUE
    /\ th' = At("create")
    /\ UNCHANGED <<joining, m_sceneId, m_order, m_lastPositions, scene, location, channels, history>>

onStop ==
    /\ Input
    /\ m_running
    /\ m_running' = FALSE /\ joining' = TRUE
    /\ UNCHANGED <<th, m_sceneId, m_order, m_lastPositions, scene, location, channels, history>>

clearExtensionFlags(chs) == [l \in DOMAIN chs |-> [chs[l] EXCEPT !.sionna = FALSE]]

\* Mutant: the flags are cleared before the thread is joined.
onStop_Joined_ClearFirst ==
    /\ joining
    /\ \/ /\ th.at # "end"
          /\ channels' = clearExtensionFlags(channels)
          /\ UNCHANGED <<joining, th, m_sceneId, m_order, m_lastPositions>>
       \/ /\ th.at = "end"
          /\ joining' = FALSE /\ th' = At("off")
          /\ m_sceneId' = FALSE /\ m_order' = NoOrder
          /\ m_lastPositions' = [n \in Node |-> NoPosition]
          /\ UNCHANGED channels
    /\ UNCHANGED <<m_running, scene, location, history, bounds>>

\* The flags are cleared; the taps are not.
onStop_Joined ==
    /\ joining
    /\ th.at = "end"
    /\ joining' = FALSE /\ th' = At("off")
    /\ channels' = clearExtensionFlags(channels)
    /\ m_sceneId' = FALSE /\ m_order' = NoOrder
    /\ m_lastPositions' = [n \in Node |-> NoPosition]
    /\ UNCHANGED <<m_running, scene, location, history, bounds>>

-----------------------------------------------------------------------------
(* pollLoop.  A scene that cannot be created is tried again for ever. *)

createScene ==
    /\ th.at = "post"
    /\ scene' = [NoScene EXCEPT !.up = TRUE]
    /\ m_sceneId' = TRUE
    /\ th' = At("head")
    /\ UNCHANGED <<m_running, joining, m_order, m_lastPositions, location, channels, history, bounds>>

createScene_Fails ==
    /\ th.at = "post"
    /\ th' = At("create")
    /\ UNCHANGED <<client, scene, location, channels, history, bounds>>

\* Mutant: the loop that creates the scene does not look at m_running.
pollLoop_NoTest ==
    /\ \/ th.at = "create" /\ th' = At("post")
       \/ th.at = "head" /\ th' = IF m_running THEN [at |-> "sync", n |-> 1] ELSE At("end")
    /\ UNCHANGED <<client, scene, location, channels, history, bounds>>

\* The conditions of the two loops; the second is not entered if the first
\* ended because the extension was stopped.
pollLoop ==
    /\ \/ th.at = "create" /\ th' = IF m_running THEN At("post") ELSE At("end")
       \/ th.at = "head" /\ th' = IF m_running THEN [at |-> "sync", n |-> 1] ELSE At("end")
    /\ UNCHANGED <<client, scene, location, channels, history, bounds>>

\* syncPositions at node th.n: has it moved since it was last sent?
syncPositions ==
    /\ th.at = "sync"
    /\ LET n == th.n
           moved == location[n] # NoPosition /\ location[n] # m_lastPositions[n]
       IN  /\ th' = IF moved THEN [at |-> "tx", n |-> n, pos |-> location[n]]
                    ELSE IF n < NumNodes THEN [at |-> "sync", n |-> n + 1] ELSE At("links")
           /\ missed' = IF moved THEN [missed EXCEPT ![n] = FALSE] ELSE missed
    /\ UNCHANGED <<client, scene, location, channels, lost, recreated, bounds>>

\* What the server makes of a registration or an update: names are unique,
\* and it has nothing to say about a scene or a device it does not know.
Served(r, n, p) ==
    IF ~scene.up \/ Registered(r, n) # (n \in Range(scene.order[r])) THEN scene
    ELSE [scene EXCEPT !.pos[r][n] = p,
                       !.order[r] = IF n \in Range(@) THEN @ ELSE Append(@, n)]

AfterSend ==
    th' = CASE th.at = "tx" -> [th EXCEPT !.at = "rx"]
            [] th.at = "rx" -> IF th.n < NumNodes THEN [at |-> "sync", n |-> th.n + 1] ELSE At("links")

\* Mutant: what is remembered is where the node is by then.
Remember_Newest == m_lastPositions' =
    IF th.at = "rx" THEN [m_lastPositions EXCEPT ![th.n] = location[th.n]] ELSE m_lastPositions

\* The position counts as sent after the second request, whatever became of them.
Remember == m_lastPositions' =
    IF th.at = "rx" THEN [m_lastPositions EXCEPT ![th.n] = th.pos] ELSE m_lastPositions

\* Mutant: a new device is put in front.
Enrol_Front(r, n) == IF Registered(r, n) THEN m_order ELSE [m_order EXCEPT ![r] = <<n>> \o @]

Enrol(r, n) == IF Registered(r, n) THEN m_order ELSE [m_order EXCEPT ![r] = Append(@, n)]

\* A POST for a device that is not registered, else a PUT.
Send ==
    /\ th.at \in Role
    /\ scene' = Served(th.at, th.n, th.pos)
    /\ m_order' = Enrol(th.at, th.n)
    /\ Remember /\ AfterSend
    /\ UNCHANGED <<m_running, joining, m_sceneId, location, channels, history, bounds>>

\* An exception is logged and the next request is made.
SendFails(reached) ==
    /\ th.at \in Role
    /\ Fault
    /\ scene' = IF reached THEN Served(th.at, th.n, th.pos) ELSE scene
    /\ lost' = (lost \/ (reached /\ ~Registered(th.at, th.n)))
    /\ missed' = [missed EXCEPT ![th.n] = TRUE]
    /\ Remember /\ AfterSend
    /\ UNCHANGED <<m_running, joining, m_sceneId, m_order, location, channels, recreated>>

-----------------------------------------------------------------------------
(* computeAndApplyCIR *)

\* Anything to ask for?
HasLinks ==
    /\ th.at = "links"
    /\ th' = IF (\E r \in Role : m_order[r] = << >>) \/ DOMAIN channels = {} THEN At("head") ELSE At("paths")
    /\ UNCHANGED <<client, scene, location, channels, history, bounds>>

\* The server traces the paths between the devices it knows, or refuses to.
ComputePaths(traces) ==
    /\ th.at = "paths"
    /\ traces => scene.up
    /\ scene' = IF traces THEN [scene EXCEPT !.traced = scene.order] ELSE scene
    /\ th' = At("cir")
    /\ UNCHANGED <<client, location, channels, history, bounds>>

\* The loops over the matrix are at row i and column j.
AtEntry(i, j, matrix) == [at |-> "apply", rx |-> i, tx |-> j, matrix |-> matrix]

\* The matrix it traced last: a row for each receiver, a column for each transmitter.
FetchCIR ==
    /\ th.at = "cir"
    /\ scene.traced # NoOrder
    /\ th' = AtEntry(1, 1, scene.traced)
    /\ UNCHANGED <<client, scene, location, channels, history, bounds>>

\* No answer, an answer that is no matrix, or no paths: the taps stay.
NoCIR ==
    /\ th.at \in {"paths", "cir"}
    /\ th' = At("head")
    /\ UNCHANGED <<client, scene, location, channels, history, bounds>>

Rows(r) == IF Len(th.matrix[r]) < Len(m_order[r]) THEN Len(th.matrix[r]) ELSE Len(m_order[r])

NextPair ==
    IF th.tx < Rows("tx") THEN AtEntry(th.rx, th.tx + 1, th.matrix)
    ELSE IF th.rx < Rows("rx") THEN AtEntry(th.rx + 1, 1, th.matrix)
    ELSE At("head")

\* The pair whose indices the loops are at, as the client counts.
Pair == <<m_order["tx"][th.tx], m_order["rx"][th.rx]>>
InMatrix == th.tx <= Rows("tx") /\ th.rx <= Rows("rx")

\* Mutant: the link is marked first.
updateCIR_FlagFirst ==
    /\ th.at = "apply"
    /\ \/ /\ InMatrix /\ Pair \in DOMAIN channels
          /\ channels' = [channels EXCEPT ![Pair].sionna = TRUE]
          /\ th' = [th EXCEPT !.at = "flag"]
       \/ th' = NextPair /\ UNCHANGED channels
    /\ UNCHANGED <<client, scene, location, history, bounds>>

\* updateCIR of the pair, under the lock of the Intermediate.  A pair of
\* one node, without a channel, or whose entry cannot be read is skipped.
updateCIR ==
    /\ th.at = "apply"
    /\ \/ /\ InMatrix /\ Pair \in DOMAIN channels
          /\ channels' = [channels EXCEPT ![Pair].taps = <<th.matrix["tx"][th.tx], th.matrix["rx"][th.rx]>>]
          /\ th' = [th EXCEPT !.at = "flag"]
       \/ th' = NextPair /\ UNCHANGED channels
    /\ UNCHANGED <<client, scene, location, history, bounds>>

\* setActiveExtension, without the lock.
setActiveExtension ==
    /\ th.at = "flag"
    /\ channels' = IF Pair \in DOMAIN channels THEN [channels EXCEPT ![Pair].sionna = TRUE] ELSE channels
    /\ th' = NextPair
    /\ UNCHANGED <<client, scene, location, history, bounds>>

-----------------------------------------------------------------------------
(* Everything else *)

\* A new Channel has no taps and no active extension.
AddLink(l) ==
    /\ Input
    /\ l \notin DOMAIN channels
    /\ channels' = [k \in DOMAIN channels \cup {l} |->
                       IF k = l THEN [taps |-> NoTaps, sionna |-> FALSE] ELSE channels[k]]
    /\ UNCHANGED <<client, th, scene, location, history>>

RemoveLink(l) ==
    /\ Input
    /\ l \in DOMAIN channels
    /\ channels' = [k \in DOMAIN channels \ {l} |-> channels[k]]
    /\ recreated' = (recreated \/ (th.at = "flag" /\ Pair = l))
    /\ UNCHANGED <<client, th, scene, location, lost, missed>>

setLocation(n, p) ==
    /\ Input
    /\ location[n] # p
    /\ location' = [location EXCEPT ![n] = p]
    /\ UNCHANGED <<client, th, scene, channels, history>>

\* The server comes back without the scene.
ServerRestart ==
    /\ Fault
    /\ scene.up
    /\ scene' = NoScene
    /\ UNCHANGED <<client, th, location, channels, history>>

Init ==
    /\ m_running = FALSE /\ joining = FALSE /\ th = At("off")
    /\ m_sceneId = FALSE /\ m_order = NoOrder
    /\ m_lastPositions = [n \in Node |-> NoPosition]
    /\ scene = NoScene
    /\ location = [n \in Node |-> NoPosition]
    /\ channels = << >>
    /\ lost = FALSE /\ missed = [n \in Node |-> FALSE] /\ recreated = FALSE
    /\ inputs = 0 /\ faults = 0

\* The poll thread: its own steps, and the ends of its requests.
Local == pollLoop \/ syncPositions \/ HasLinks \/ updateCIR \/ setActiveExtension

Requests ==
    \/ createScene \/ createScene_Fails
    \/ Send \/ (\E reached \in BOOLEAN : SendFails(reached))
    \/ (\E traces \in BOOLEAN : ComputePaths(traces)) \/ FetchCIR \/ NoCIR

InRequest == th.at \in {"post", "tx", "rx", "paths", "cir"}

Next ==
    \/ Local
    \/ Requests
    \/ onStart \/ onStop \/ onStop_Joined
    \/ \E l \in Link : AddLink(l) \/ RemoveLink(l)
    \/ \E n \in Node, p \in Position : setLocation(n, p)
    \/ ServerRestart

Spec == Init /\ [][Next]_vars

\* The threads are scheduled; that a request ends is left to the properties.
FairSpec == Spec /\ WF_vars(Local) /\ WF_vars(onStop_Joined)

-----------------------------------------------------------------------------
(* Properties *)

\* Taps are "applied to the corresponding Channel": the response installed on
\* a link was traced for that link.  computeAndApplyCIR pairs rows and columns
\* with nodes by counting its own registrations, so this holds as long as no
\* answer to a registration was lost, whatever else fails or restarts.
TapsOfTheirLink ==
    ~lost => \A l \in DOMAIN channels : channels[l].taps \in {NoTaps, l}

\* A link on which the extension bypasses the statistical path loss has taps,
\* or its signals would pass without any loss.  setActiveExtension follows
\* updateCIR outside the lock: it holds unless the link went away in between.
BypassHasTaps ==
    ~recreated => \A l \in DOMAIN channels : channels[l].sionna => channels[l].taps # NoTaps

\* Once onStop has returned no link is marked as driven by the extension,
\* although the thread may have been anywhere in its loop when it was told to
\* stop: clearExtensionFlags runs after the join.
StoppedUnmarked ==
    ~m_running /\ ~joining => \A l \in DOMAIN channels : ~channels[l].sionna

\* onStop returns, wherever the thread is and whether or not there is a server,
\* unless a request hangs.
StopReturns == []<>~InRequest => (joining ~> ~joining)

\* The server comes to have the position of every node, as a transmitter and as
\* a receiver, if the extension keeps running with its scene, the node stays,
\* no request hangs, and neither the last attempt to send it nor the answer to a
\* registration was lost.  (A failed attempt is not repeated while the node
\* stays where it is: m_lastPositions has it as sent.)
PositionsReach ==
    \A n \in Node :
        ([]<>~InRequest /\
         <>[](m_running /\ m_sceneId /\ scene.up /\ ~lost /\ ~missed[n] /\ location[n] # NoPosition))
            => <>[](\A r \in Role : scene.pos[r][n] = location[n])
=============================================================================
