-------------------------- MODULE ControllerProofs --------------------------
(***************************************************************************)
(* Controller for any number of nodes, frequencies and requests: what the  *)
(* timeout thread may remove, which Intermediates have running workers,    *)
(* what the database says, and where a device is attached.                 *)
(***************************************************************************)
EXTENDS Controller, TLAPS

\* The prover of the leaves that do not name another one.
USE ZenonT(30)

NodeRec == [freq : [Dir -> Freq], dev : [Dir -> Nat], age : Nat]
ItmRec == [freq : Freq, att : [Dir -> SUBSET (Node \X Nat)], sandbox : SUBSET Node, work : BOOLEAN]

Busy == pc \in {"lookup", "detach", "attach"}

\* The locals of a request are a record with these fields.
RequestShape ==
    DOMAIN req = {"id", "freq", "ch", "prevCh", "created", "sandbox"}

\* What the proofs need to know of the types.
ControllerType ==
    /\ DOMAIN m_nodeMap \subseteq Node
    /\ m_nodeMap \in [DOMAIN m_nodeMap -> NodeRec]
    /\ DOMAIN m_intermediateMap \subseteq Freq
    /\ m_intermediateMap \in [DOMAIN m_intermediateMap -> DOMAIN itm]
    /\ itm \in Seq(ItmRec)
    /\ made \in [Dir -> Nat]
    /\ dir \in Dir /\ overlap \in BOOLEAN /\ sandbox_enabled \in BOOLEAN
    /\ req.created \in BOOLEAN /\ req.sandbox \in BOOLEAN
    /\ RequestShape
    /\ Busy => req.id \in Node /\ req.freq \in [Dir -> Freq]
    /\ pc \in {"detach", "attach"} => req.ch \in DOMAIN itm
    /\ pc = "detach" => req.prevCh \in DOMAIN itm

-----------------------------------------------------------------------------
(* What the calls to an Intermediate do *)

\* An Intermediate that has been told to stop has nobody attached.
Resting(c) == ~c.work => isEmpty(c)

LEMMA DetachDevRec ==
  ASSUME NEW c \in ItmRec, NEW d \in Dir, NEW id
  PROVE  LET r == DetachDev(c, d, id)
         IN  /\ r \in ItmRec /\ r.freq = c.freq
             /\ Resting(c) => Resting(r)
             /\ ~isEmpty(r) => r.work = c.work
<1> DEFINE e == [c EXCEPT !.att[d] = {p \in @ : p[1] # id}]
           r == DetachDev(c, d, id)
<1>1. CASE id \notin Ids(c, d)
  BY <1>1 DEF DetachDev
<1>2. CASE id \in Ids(c, d)
  <2>1. /\ e \in ItmRec /\ e.freq = c.freq /\ e.work = c.work
    BY DEF ItmRec
  <2>2. r = EmptyChannelChecker(e)
    BY <1>2 DEF DetachDev
  <2> HIDE DEF e
  <2>3. /\ EmptyChannelChecker(e) \in ItmRec /\ EmptyChannelChecker(e).freq = e.freq
        /\ isEmpty(EmptyChannelChecker(e)) <=> isEmpty(e)
        /\ EmptyChannelChecker(e).work <=> (e.work /\ ~isEmpty(e))
    BY <2>1 DEF EmptyChannelChecker, isEmpty, ItmRec
  <2>4. EmptyChannelChecker(e).work \in BOOLEAN /\ c.work \in BOOLEAN
    BY <2>1, <2>3 DEF ItmRec
  <2>5. ~isEmpty(e) => EmptyChannelChecker(e).work = c.work
    BY <2>1, <2>3, <2>4
  <2>6. Resting(EmptyChannelChecker(e)) \/ (~c.work /\ ~isEmpty(e))
    BY <2>1, <2>3 DEF Resting
  <2>7. Resting(c) /\ ~c.work => isEmpty(e)
    BY SMTT(30) DEF Resting, isEmpty, e, ItmRec
  <2>8. /\ EmptyChannelChecker(e) \in ItmRec /\ EmptyChannelChecker(e).freq = c.freq
        /\ Resting(c) => Resting(EmptyChannelChecker(e))
        /\ ~isEmpty(EmptyChannelChecker(e)) => EmptyChannelChecker(e).work = c.work
    BY <2>1, <2>3, <2>5, <2>6, <2>7
  <2> QED BY <2>2, <2>8
<1> QED BY <1>1, <1>2

LEMMA RemoveFromRec ==
  ASSUME NEW c \in ItmRec, NEW d \in Dir, NEW id
  PROVE  LET r == RemoveFrom(c, d, id)
         IN  /\ r \in ItmRec /\ r.freq = c.freq
             /\ Resting(c) => Resting(r)
             /\ ~isEmpty(r) => r.work = c.work
<1> DEFINE e == [c EXCEPT !.sandbox = @ \ {id}]
<1>1. CASE ~req.sandbox
  BY <1>1, DetachDevRec DEF RemoveFrom
<1>2. CASE req.sandbox
  <2>1. RemoveFrom(c, d, id) = e
    BY <1>2 DEF RemoveFrom
  <2>2. e \in ItmRec /\ e.freq = c.freq /\ e.work = c.work /\ (isEmpty(c) => isEmpty(e))
    BY DEF ItmRec, isEmpty
  <2> HIDE DEF e
  <2> QED BY <2>1, <2>2 DEF Resting
<1> QED BY <1>1, <1>2

LEMMA AddToRec ==
  ASSUME NEW c \in ItmRec, NEW d \in Dir, NEW id \in Node, NEW dev \in Nat
  PROVE  LET r == AddTo(c, d, id, dev)
         IN  r \in ItmRec /\ r.freq = c.freq /\ r.work = c.work
<1>1. CASE req.sandbox
  BY <1>1 DEF AddTo, ItmRec
<1>2. CASE ~req.sandbox
  BY <1>2, SMTT(30) DEF AddTo, AttachDev, ItmRec
<1> QED BY <1>1, <1>2

-----------------------------------------------------------------------------
(* Types, and that the map files an Intermediate under its own frequency *)

FiledByFreq == \A f \in DOMAIN m_intermediateMap : itm[m_intermediateMap[f]].freq = f

TypeInv == ControllerType /\ FiledByFreq

LEMMA InitType == Init => TypeInv
<1> SUFFICES ASSUME Init PROVE TypeInv
  OBVIOUS
<1>1. /\ DOMAIN m_nodeMap = {} /\ m_nodeMap \in [DOMAIN m_nodeMap -> NodeRec]
      /\ DOMAIN m_intermediateMap = {}
      /\ m_intermediateMap \in [DOMAIN m_intermediateMap -> DOMAIN itm]
      /\ itm \in Seq(ItmRec)
  BY SMTT(30) DEF Init
<1>2. /\ pc = "idle" /\ dir \in Dir /\ overlap \in BOOLEAN /\ sandbox_enabled \in BOOLEAN
      /\ made \in [Dir -> Nat] /\ req.created \in BOOLEAN /\ req.sandbox \in BOOLEAN
      /\ RequestShape
  BY ControllerAssumption DEF Init, Dir, NoRequest, RequestShape
<1> QED BY <1>1, <1>2 DEF TypeInv, ControllerType, FiledByFreq, Busy

\* A field of a node's record changes.
LEMMA NodeChanged ==
  ASSUME TypeInv, NEW n \in DOMAIN m_nodeMap, NEW r \in NodeRec,
         m_nodeMap' = [m_nodeMap EXCEPT ![n] = r]
  PROVE  /\ DOMAIN m_nodeMap' = DOMAIN m_nodeMap
         /\ m_nodeMap' \in [DOMAIN m_nodeMap' -> NodeRec]
         /\ m_nodeMap'[n] = r
         /\ \A m \in DOMAIN m_nodeMap : m # n => m_nodeMap'[m] = m_nodeMap[m]
  BY DEF TypeInv, ControllerType

\* One Intermediate changes, and none changes its frequency.
LEMMA ItmChanged ==
  ASSUME TypeInv, NEW i \in DOMAIN itm, NEW c \in ItmRec, c.freq = itm[i].freq,
         itm' = [itm EXCEPT ![i] = c]
  PROVE  /\ itm' \in Seq(ItmRec) /\ DOMAIN itm' = DOMAIN itm
         /\ itm'[i] = c
         /\ \A j \in DOMAIN itm : j # i => itm'[j] = itm[j]
         /\ \A j \in DOMAIN itm : itm'[j].freq = itm[j].freq
  BY SMTT(30) DEF TypeInv, ControllerType

\* Attached devices leave every Intermediate of the map.
LEMMA DetachedAllRec ==
  ASSUME TypeInv, NEW id \in DOMAIN m_nodeMap
  PROVE  LET t == DetachedAll(id)
         IN  /\ t \in Seq(ItmRec) /\ DOMAIN t = DOMAIN itm
             /\ \A i \in DOMAIN itm : /\ t[i].freq = itm[i].freq
                                      /\ Resting(itm[i]) => Resting(t[i])
<1> DEFINE Leave(c, d) == IF m_nodeMap[id].dev[d] # 0 THEN DetachDev(c, d, id) ELSE c
           Gone(i) == IF i \in Range(m_intermediateMap)
                      THEN Leave(Leave(itm[i], "dl"), "ul") ELSE itm[i]
           t == DetachedAll(id)
<1>1. t = [i \in DOMAIN itm |-> Gone(i)]
  BY DEF DetachedAll
<1>2. ASSUME NEW i \in DOMAIN itm
      PROVE  Gone(i) \in ItmRec /\ Gone(i).freq = itm[i].freq /\ (Resting(itm[i]) => Resting(Gone(i)))
  <2>1. itm[i] \in ItmRec
    BY SMTT(30) DEF TypeInv, ControllerType
  <2>2. ASSUME NEW c \in ItmRec, NEW d \in Dir
        PROVE  Leave(c, d) \in ItmRec /\ Leave(c, d).freq = c.freq /\ (Resting(c) => Resting(Leave(c, d)))
    BY DetachDevRec
  <2>3. "ul" \in Dir /\ "dl" \in Dir
    BY DEF Dir
  <2> HIDE DEF Leave
  <2> QED BY <2>1, <2>2, <2>3
<1> HIDE DEF Gone
<1>3. DOMAIN itm = 1 .. Len(itm) /\ Len(itm) \in Nat
  BY SMTT(30) DEF TypeInv, ControllerType
<1>4. t \in Seq(ItmRec) /\ DOMAIN t = DOMAIN itm
  BY <1>1, <1>2, <1>3, SMTT(30)
<1>5. \A i \in DOMAIN itm : t[i] = Gone(i)
  BY <1>1
<1> QED BY <1>2, <1>4, <1>5

\* Keys leave the map.
LEMMA MapShrinks ==
  ASSUME TypeInv, NEW S \in SUBSET DOMAIN m_intermediateMap,
         m_intermediateMap' = Restrict(m_intermediateMap, S)
  PROVE  /\ DOMAIN m_intermediateMap' = S
         /\ m_intermediateMap' \in [S -> DOMAIN itm]
         /\ \A f \in S : m_intermediateMap'[f] = m_intermediateMap[f]
  BY DEF TypeInv, ControllerType, Restrict

LEMMA RegisterType ==
  ASSUME TypeInv, NEW id \in Node, NEW f \in Tuning, Register(id, f)
  PROVE  TypeInv'
<1>1. /\ DOMAIN m_nodeMap' \subseteq Node
      /\ m_nodeMap' \in [DOMAIN m_nodeMap' -> NodeRec]
  BY ControllerAssumption, SMTT(30) DEF Register, GetOrCreateNode, TypeInv, ControllerType, NodeRec, Dir, Timeout
<1>2. /\ pc' = "lookup" /\ dir' \in Dir /\ req'.id \in Node /\ req'.freq \in [Dir -> Freq]
      /\ req'.created \in BOOLEAN /\ req'.sandbox \in BOOLEAN /\ RequestShape'
  BY ControllerAssumption DEF Register, Dir, RequestShape
<1>3. overlap' \in BOOLEAN
  BY DEF Register, Begin, TypeInv, ControllerType
<1>4. UNCHANGED <<m_intermediateMap, itm, made, sandbox_enabled>>
  BY DEF Register, Begin, modeVars
<1> QED BY <1>1, <1>2, <1>3, <1>4 DEF TypeInv, ControllerType, FiledByFreq, Busy

\* What Lookup does to the map and the Intermediates.
LEMMA LookupMap ==
  ASSUME TypeInv, Lookup
  PROVE  LET f == req.freq[dir]
         IN  /\ f \in Freq
             /\ DOMAIN m_intermediateMap' = DOMAIN m_intermediateMap \cup {f}
             /\ m_intermediateMap' \in [DOMAIN m_intermediateMap' -> DOMAIN itm']
             /\ itm' \in Seq(ItmRec) /\ DOMAIN itm \subseteq DOMAIN itm'
             /\ \A i \in DOMAIN itm : itm'[i] = itm[i]
             /\ \A i \in DOMAIN itm' \ DOMAIN itm : itm'[i] = Created(f)
             /\ \A g \in DOMAIN m_intermediateMap : m_intermediateMap'[g] = m_intermediateMap[g]
             /\ f \notin DOMAIN m_intermediateMap => m_intermediateMap'[f] \notin DOMAIN itm
<1> DEFINE f == req.freq[dir]
<1>1. f \in Freq /\ Created(f) \in ItmRec /\ Len(itm) \in Nat /\ DOMAIN itm = 1 .. Len(itm)
  BY SMTT(30) DEF Lookup, TypeInv, ControllerType, Busy, Created, ItmRec
<1>2. CASE f \in DOMAIN m_intermediateMap
  <2>1. itm' = itm /\ m_intermediateMap' = m_intermediateMap
    BY <1>2 DEF Lookup
  <2> QED BY <1>1, <1>2, <2>1 DEF TypeInv, ControllerType
<1>3. CASE f \notin DOMAIN m_intermediateMap
  <2>1. /\ itm' = Append(itm, Created(f))
        /\ m_intermediateMap' = [g \in DOMAIN m_intermediateMap \cup {f} |->
                                   IF g = f THEN Len(itm') ELSE m_intermediateMap[g]]
    BY <1>3 DEF Lookup
  <2>2. /\ itm' \in Seq(ItmRec) /\ Len(itm') = Len(itm) + 1 /\ DOMAIN itm' = 1 .. Len(itm) + 1
        /\ \A i \in DOMAIN itm : itm'[i] = itm[i]
        /\ itm'[Len(itm) + 1] = Created(f)
    BY <1>1, <2>1, SMTT(30) DEF TypeInv, ControllerType
  <2>3. Len(itm') \in DOMAIN itm' /\ Len(itm') \notin DOMAIN itm /\ DOMAIN itm \subseteq DOMAIN itm'
    BY <1>1, <2>2, SMTT(30)
  <2>4. \A i \in DOMAIN itm' \ DOMAIN itm : itm'[i] = Created(f)
    BY <1>1, <2>2, SMTT(30)
  <2>5. /\ DOMAIN m_intermediateMap' = DOMAIN m_intermediateMap \cup {f}
        /\ \A g \in DOMAIN m_intermediateMap : m_intermediateMap'[g] = m_intermediateMap[g]
        /\ m_intermediateMap'[f] = Len(itm')
    BY <1>3, <2>1
  <2>6. m_intermediateMap' \in [DOMAIN m_intermediateMap' -> DOMAIN itm']
    BY <2>1, <2>3, <2>5 DEF TypeInv, ControllerType
  <2> QED BY <1>1, <1>3, <2>2, <2>3, <2>4, <2>5, <2>6
<1> QED BY <1>2, <1>3

\* What Lookup does to the nodes: at most the node of the request gets a device.
LEMMA LookupNodes ==
  ASSUME TypeInv, Lookup
  PROVE  /\ DOMAIN m_nodeMap' = DOMAIN m_nodeMap
         /\ m_nodeMap' \in [DOMAIN m_nodeMap' -> NodeRec]
         /\ \A n \in DOMAIN m_nodeMap : /\ m_nodeMap'[n].freq = m_nodeMap[n].freq
                                        /\ m_nodeMap'[n].age = m_nodeMap[n].age
         /\ made' \in [Dir -> Nat]
<1>1. req.id \in DOMAIN m_nodeMap /\ dir \in Dir /\ made \in [Dir -> Nat]
  BY DEF Lookup, Valid, TypeInv, ControllerType
<1>2. made' \in [Dir -> Nat] /\ AssignPort(dir) \in Nat
  BY <1>1, SMTT(30) DEF Lookup, AssignPort
<1> DEFINE r == [m_nodeMap[req.id] EXCEPT !.dev[dir] = AssignPort(dir)]
<1>3. r \in NodeRec /\ r.freq = m_nodeMap[req.id].freq /\ r.age = m_nodeMap[req.id].age
  BY <1>1, <1>2 DEF NodeRec, TypeInv, ControllerType
<1>4. m_nodeMap' = m_nodeMap \/ m_nodeMap' = [m_nodeMap EXCEPT ![req.id] = r]
  BY DEF Lookup
<1> HIDE DEF r
<1>5. CASE m_nodeMap' = m_nodeMap
  BY <1>2, <1>5 DEF TypeInv, ControllerType
<1>6. CASE m_nodeMap' = [m_nodeMap EXCEPT ![req.id] = r]
  BY <1>1, <1>2, <1>3, <1>6, NodeChanged
<1> QED BY <1>4, <1>5, <1>6

\* The two ways out of Lookup.
LEMMA LookupNext ==
  ASSUME TypeInv, Lookup
  PROVE  LET f == req.freq[dir]
             prev == target.freq[dir]
         IN  \/ /\ dir' = "dl"
                /\ \/ dir = "ul" /\ pc' = "lookup" /\ req' = req
                   \/ dir = "dl" /\ pc' = "idle" /\ req' = NoRequest
             \/ /\ pc' \in {"detach", "attach"} /\ dir' = dir /\ prev # f
                /\ req'.id = req.id /\ req'.freq = req.freq /\ req'.created = req.created
                /\ req'.sandbox = sandbox_enabled /\ DOMAIN req' = DOMAIN req
                /\ req'.ch = m_intermediateMap'[f]
                /\ pc' = "detach" => /\ prev \in DOMAIN m_intermediateMap
                                     /\ req'.prevCh = m_intermediateMap[prev]
                /\ pc' = "attach" => prev \notin DOMAIN m_intermediateMap
<1> DEFINE f == req.freq[dir]
           prev == target.freq[dir]
<1>1. f \in Nat /\ prev \in Nat /\ dir \in Dir
  <2>1. pc = "lookup" /\ Valid
    BY DEF Lookup
  <2>2. dir \in Dir /\ req.freq \in [Dir -> Freq]
    BY <2>1 DEF TypeInv, ControllerType, Busy
  <2>3. target \in NodeRec
    BY <2>1 DEF Valid, target, TypeInv, ControllerType
  <2>4. target.freq \in [Dir -> Freq]
    BY <2>3 DEF NodeRec
  <2> QED BY <2>2, <2>4, ControllerAssumption
<1>2. CASE dir' = "dl" /\ pc' = (IF dir = "ul" THEN "lookup" ELSE "idle")
           /\ req' = IF dir = "ul" THEN req ELSE NoRequest
  BY <1>1, <1>2 DEF Dir
<1>3. CASE /\ Far(prev, f)
           /\ pc' = (IF prev \in DOMAIN m_intermediateMap THEN "detach" ELSE "attach")
           /\ req' = [req EXCEPT
                        !.ch = m_intermediateMap'[f], !.sandbox = sandbox_enabled,
                        !.prevCh = IF prev \in DOMAIN m_intermediateMap
                                   THEN m_intermediateMap[prev] ELSE 0]
           /\ UNCHANGED dir
  <2>1. prev # f
    BY <1>1, <1>3, SMTT(30) DEF Far, TuneStep
  <2> QED BY <1>3, <2>1 DEF TypeInv, ControllerType, RequestShape
<1> QED BY <1>2, <1>3 DEF Lookup, Return

LEMMA LookupType ==
  ASSUME TypeInv, Lookup
  PROVE  TypeInv'
<1>1. FiledByFreq'
  <2> SUFFICES ASSUME NEW g \in DOMAIN m_intermediateMap'
               PROVE  itm'[m_intermediateMap'[g]].freq = g
    BY DEF FiledByFreq
  <2>1. CASE g \in DOMAIN m_intermediateMap
    <3>1. m_intermediateMap'[g] = m_intermediateMap[g] /\ m_intermediateMap[g] \in DOMAIN itm
      BY <2>1, LookupMap DEF TypeInv, ControllerType
    <3> QED BY <2>1, <3>1, LookupMap DEF TypeInv, FiledByFreq
  <2>2. CASE g \notin DOMAIN m_intermediateMap
    <3>1. g = req.freq[dir] /\ m_intermediateMap'[g] \in DOMAIN itm' \ DOMAIN itm
      BY <2>2, LookupMap
    <3>2. itm'[m_intermediateMap'[g]] = Created(g)
      BY <3>1, LookupMap
    <3> QED BY <3>2, SMTT(30) DEF Created
  <2> QED BY <2>1, <2>2
<1>2. UNCHANGED <<overlap, sandbox_enabled>> /\ pc = "lookup"
  BY DEF Lookup, history, modeVars
<1>3. /\ DOMAIN m_nodeMap' \subseteq Node /\ m_nodeMap' \in [DOMAIN m_nodeMap' -> NodeRec]
      /\ made' \in [Dir -> Nat]
  BY LookupNodes DEF TypeInv, ControllerType
<1>4. /\ DOMAIN m_intermediateMap' \subseteq Freq
      /\ m_intermediateMap' \in [DOMAIN m_intermediateMap' -> DOMAIN itm']
      /\ itm' \in Seq(ItmRec) /\ DOMAIN itm \subseteq DOMAIN itm'
      /\ m_intermediateMap'[req.freq[dir]] \in DOMAIN itm'
  BY LookupMap DEF TypeInv, ControllerType
<1> DEFINE f == req.freq[dir]
           Locals == /\ dir' \in Dir /\ req'.created \in BOOLEAN /\ req'.sandbox \in BOOLEAN
                     /\ Busy' => req'.id \in Node /\ req'.freq \in [Dir -> Freq]
                     /\ pc' \in {"detach", "attach"} => req'.ch \in DOMAIN itm'
                     /\ pc' = "detach" => req'.prevCh \in DOMAIN itm'
                     /\ RequestShape'
<1>5. Locals
  <2>1. CASE dir' = "dl" /\ pc' = "lookup" /\ req' = req
    BY <1>2, <2>1 DEF TypeInv, ControllerType, Busy, Dir, RequestShape
  <2>2. CASE dir' = "dl" /\ pc' = "idle" /\ req' = NoRequest
    BY <2>2 DEF Busy, Dir, NoRequest, RequestShape
  <2>3. CASE /\ pc' \in {"detach", "attach"} /\ dir' = dir
             /\ req'.id = req.id /\ req'.freq = req.freq /\ req'.created = req.created
             /\ req'.sandbox = sandbox_enabled /\ DOMAIN req' = DOMAIN req
             /\ req'.ch = m_intermediateMap'[f]
             /\ pc' = "detach" => /\ target.freq[dir] \in DOMAIN m_intermediateMap
                                  /\ req'.prevCh = m_intermediateMap[target.freq[dir]]
    <3>1. pc' = "detach" => req'.prevCh \in DOMAIN itm'
      BY <1>4, <2>3 DEF TypeInv, ControllerType
    <3> QED BY <1>2, <1>4, <2>3, <3>1 DEF TypeInv, ControllerType, Busy, RequestShape
  <2> QED BY <2>1, <2>2, <2>3, LookupNext
<1> QED BY <1>1, <1>2, <1>3, <1>4, <1>5 DEF TypeInv, ControllerType

\* What DetachPrevious does: the previous Intermediate loses the node, and its
\* place in the map if that leaves it empty.
LEMMA DetachPreviousMap ==
  ASSUME TypeInv, DetachPrevious
  PROVE  LET c == RemoveFrom(itm[req.prevCh], dir, req.id)
         IN  /\ req.prevCh \in DOMAIN itm
             /\ c \in ItmRec /\ c.freq = itm[req.prevCh].freq
             /\ itm' \in Seq(ItmRec) /\ DOMAIN itm' = DOMAIN itm /\ itm'[req.prevCh] = c
             /\ \A j \in DOMAIN itm : j # req.prevCh => itm'[j] = itm[j]
             /\ \A j \in DOMAIN itm : itm'[j].freq = itm[j].freq
             /\ DOMAIN m_intermediateMap' =
                  (IF isEmpty(c) THEN DOMAIN m_intermediateMap \ {c.freq} ELSE DOMAIN m_intermediateMap)
             /\ m_intermediateMap' \in [DOMAIN m_intermediateMap' -> DOMAIN itm]
             /\ \A f \in DOMAIN m_intermediateMap' : m_intermediateMap'[f] = m_intermediateMap[f]
<1> DEFINE c == RemoveFrom(itm[req.prevCh], dir, req.id)
           S == IF isEmpty(c) THEN DOMAIN m_intermediateMap \ {c.freq} ELSE DOMAIN m_intermediateMap
<1>1. req.prevCh \in DOMAIN itm /\ itm[req.prevCh] \in ItmRec /\ dir \in Dir
  BY SMTT(30) DEF DetachPrevious, TypeInv, ControllerType
<1>2. c \in ItmRec /\ c.freq = itm[req.prevCh].freq
  BY <1>1, RemoveFromRec
<1>3. itm' = [itm EXCEPT ![req.prevCh] = c] /\ m_intermediateMap' = Dropped(c)
  BY DEF DetachPrevious
<1> HIDE DEF c
<1>4. /\ itm' \in Seq(ItmRec) /\ DOMAIN itm' = DOMAIN itm /\ itm'[req.prevCh] = c
      /\ \A j \in DOMAIN itm : j # req.prevCh => itm'[j] = itm[j]
      /\ \A j \in DOMAIN itm : itm'[j].freq = itm[j].freq
  BY <1>1, <1>2, <1>3, ItmChanged
<1>5. /\ DOMAIN m_intermediateMap' = S
      /\ m_intermediateMap' \in [S -> DOMAIN itm]
      /\ \A f \in S : m_intermediateMap'[f] = m_intermediateMap[f]
  <2>1. CASE isEmpty(c)
    BY <1>3, <2>1, MapShrinks DEF Dropped
  <2>2. CASE ~isEmpty(c)
    BY <1>3, <2>2 DEF Dropped, TypeInv, ControllerType
  <2> QED BY <2>1, <2>2
<1> QED BY <1>1, <1>2, <1>4, <1>5 DEF c

LEMMA DetachPreviousType ==
  ASSUME TypeInv, DetachPrevious
  PROVE  TypeInv'
<1>1. /\ UNCHANGED <<m_nodeMap, made, dir, req, overlap, sandbox_enabled>>
      /\ pc = "detach" /\ pc' = "attach"
  BY DEF DetachPrevious, history, modeVars
<1>2. /\ itm' \in Seq(ItmRec) /\ DOMAIN itm' = DOMAIN itm
      /\ DOMAIN m_intermediateMap' \subseteq DOMAIN m_intermediateMap
      /\ m_intermediateMap' \in [DOMAIN m_intermediateMap' -> DOMAIN itm]
  BY DetachPreviousMap
<1>3. FiledByFreq'
  <2> SUFFICES ASSUME NEW f \in DOMAIN m_intermediateMap'
               PROVE  itm'[m_intermediateMap'[f]].freq = f
    BY DEF FiledByFreq
  <2>1. m_intermediateMap'[f] = m_intermediateMap[f] /\ m_intermediateMap[f] \in DOMAIN itm
        /\ itm[m_intermediateMap[f]].freq = f
    BY <1>2, DetachPreviousMap DEF TypeInv, ControllerType, FiledByFreq
  <2> QED BY <2>1, DetachPreviousMap
<1> QED BY <1>1, <1>2, <1>3 DEF TypeInv, ControllerType, Busy, RequestShape

\* What AttachNew does: the node is tuned, and its device joins the Intermediate.
LEMMA AttachNewMap ==
  ASSUME TypeInv, AttachNew
  PROVE  LET c == AddTo(itm[req.ch], dir, req.id, target.dev[dir])
         IN  /\ req.ch \in DOMAIN itm
             /\ c \in ItmRec /\ c.freq = itm[req.ch].freq /\ c.work = itm[req.ch].work
             /\ itm' \in Seq(ItmRec) /\ DOMAIN itm' = DOMAIN itm /\ itm'[req.ch] = c
             /\ \A j \in DOMAIN itm : j # req.ch => itm'[j] = itm[j]
             /\ \A j \in DOMAIN itm : itm'[j].freq = itm[j].freq
             /\ DOMAIN m_nodeMap' = DOMAIN m_nodeMap
             /\ m_nodeMap' \in [DOMAIN m_nodeMap' -> NodeRec]
             /\ \A n \in DOMAIN m_nodeMap : /\ n # req.id => m_nodeMap'[n] = m_nodeMap[n]
                                            /\ m_nodeMap'[n].age = m_nodeMap[n].age
<1> DEFINE c == AddTo(itm[req.ch], dir, req.id, target.dev[dir])
           r == [m_nodeMap[req.id] EXCEPT !.freq[dir] = req.freq[dir]]
<1>1. /\ req.ch \in DOMAIN itm /\ itm[req.ch] \in ItmRec /\ dir \in Dir
      /\ req.id \in DOMAIN m_nodeMap /\ req.id \in Node /\ req.freq[dir] \in Freq
      /\ m_nodeMap[req.id] \in NodeRec
  BY SMTT(30) DEF AttachNew, Valid, TypeInv, ControllerType, Busy
<1>2. target.dev[dir] \in Nat
  BY <1>1 DEF target, NodeRec
<1>3. c \in ItmRec /\ c.freq = itm[req.ch].freq /\ c.work = itm[req.ch].work
  BY <1>1, <1>2, AddToRec
<1>4. r \in NodeRec /\ r.age = m_nodeMap[req.id].age
  BY <1>1 DEF NodeRec
<1>5. itm' = [itm EXCEPT ![req.ch] = c] /\ m_nodeMap' = [m_nodeMap EXCEPT ![req.id] = r]
  BY DEF AttachNew
<1> HIDE DEF c, r
<1>6. /\ itm' \in Seq(ItmRec) /\ DOMAIN itm' = DOMAIN itm /\ itm'[req.ch] = c
      /\ \A j \in DOMAIN itm : j # req.ch => itm'[j] = itm[j]
      /\ \A j \in DOMAIN itm : itm'[j].freq = itm[j].freq
  BY <1>1, <1>3, <1>5, ItmChanged
<1>7. /\ DOMAIN m_nodeMap' = DOMAIN m_nodeMap
      /\ m_nodeMap' \in [DOMAIN m_nodeMap' -> NodeRec]
      /\ \A n \in DOMAIN m_nodeMap : /\ n # req.id => m_nodeMap'[n] = m_nodeMap[n]
                                     /\ m_nodeMap'[n].age = m_nodeMap[n].age
  BY <1>1, <1>4, <1>5, NodeChanged
<1> QED BY <1>1, <1>3, <1>6, <1>7 DEF c

LEMMA AttachNewType ==
  ASSUME TypeInv, AttachNew
  PROVE  TypeInv'
<1>1. /\ UNCHANGED <<m_intermediateMap, made, overlap, sandbox_enabled>>
      /\ pc = "attach" /\ dir' = "dl" /\ pc' \in {"lookup", "idle"}
  BY DEF AttachNew, Return, modeVars
<1>2. /\ req'.created \in BOOLEAN /\ req'.sandbox \in BOOLEAN /\ RequestShape'
      /\ pc' = "lookup" => req'.id = req.id /\ req'.freq = req.freq
  BY DEF AttachNew, Return, NoRequest, RequestShape, TypeInv, ControllerType
<1>3. FiledByFreq'
  BY <1>1, AttachNewMap DEF TypeInv, ControllerType, FiledByFreq
<1> QED BY <1>1, <1>2, <1>3, AttachNewMap DEF TypeInv, ControllerType, Busy, Dir

\* The nodes only lose one, or only age.
LEMMA NodesRestrict ==
  ASSUME TypeInv, NEW S \in SUBSET DOMAIN m_nodeMap, m_nodeMap' = Restrict(m_nodeMap, S)
  PROVE  /\ DOMAIN m_nodeMap' = S
         /\ m_nodeMap' \in [DOMAIN m_nodeMap' -> NodeRec]
         /\ \A n \in S : m_nodeMap'[n] = m_nodeMap[n]
  BY DEF TypeInv, ControllerType, Restrict

LEMMA TickNodes ==
  ASSUME TypeInv, Tick
  PROVE  /\ DOMAIN m_nodeMap' = DOMAIN m_nodeMap
         /\ m_nodeMap' \in [DOMAIN m_nodeMap' -> NodeRec]
         /\ \A n \in DOMAIN m_nodeMap : /\ m_nodeMap'[n].freq = m_nodeMap[n].freq
                                        /\ m_nodeMap'[n].dev = m_nodeMap[n].dev
                                        /\ m_nodeMap'[n].age >= m_nodeMap[n].age
<1>1. DOMAIN m_nodeMap' = DOMAIN m_nodeMap
  BY DEF Tick
<1>2. ASSUME NEW n \in DOMAIN m_nodeMap
      PROVE  /\ m_nodeMap'[n] \in NodeRec /\ m_nodeMap'[n].freq = m_nodeMap[n].freq
             /\ m_nodeMap'[n].dev = m_nodeMap[n].dev
             /\ m_nodeMap'[n].age >= m_nodeMap[n].age
  <2> DEFINE a == IF m_nodeMap[n].age < Timeout THEN m_nodeMap[n].age + 1 ELSE m_nodeMap[n].age
  <2>1. m_nodeMap[n] \in NodeRec
    BY DEF TypeInv, ControllerType
  <2>2. a \in Nat /\ a >= m_nodeMap[n].age
    BY <2>1, SMTT(30) DEF NodeRec, Timeout
  <2>3. m_nodeMap'[n] = [m_nodeMap[n] EXCEPT !.age = a]
    BY DEF Tick
  <2> HIDE DEF a
  <2> QED BY <2>1, <2>2, <2>3 DEF NodeRec
<1>3. m_nodeMap' \in [DOMAIN m_nodeMap' -> NodeRec]
  <2>1. m_nodeMap' = [n \in DOMAIN m_nodeMap' |-> m_nodeMap'[n]]
    BY DEF Tick
  <2> QED BY <1>1, <1>2, <2>1
<1> QED BY <1>1, <1>2, <1>3

LEMMA HeartbeatNodes ==
  ASSUME TypeInv, NEW id \in Node, Heartbeat(id)
  PROVE  /\ DOMAIN m_nodeMap' = DOMAIN m_nodeMap
         /\ m_nodeMap' \in [DOMAIN m_nodeMap' -> NodeRec]
         /\ \A n \in DOMAIN m_nodeMap : /\ m_nodeMap'[n].freq = m_nodeMap[n].freq
                                        /\ m_nodeMap'[n].dev = m_nodeMap[n].dev
<1> DEFINE r == [m_nodeMap[id] EXCEPT !.age = 0]
<1>1. id \in DOMAIN m_nodeMap /\ m_nodeMap' = [m_nodeMap EXCEPT ![id] = r]
  BY DEF Heartbeat
<1>2. r \in NodeRec /\ r.freq = m_nodeMap[id].freq /\ r.dev = m_nodeMap[id].dev
  BY <1>1 DEF NodeRec, TypeInv, ControllerType
<1> HIDE DEF r
<1> QED BY <1>1, <1>2, NodeChanged

LEMMA SweepMap ==
  ASSUME TypeInv, Sweep
  PROVE  /\ NotEmpty \subseteq DOMAIN m_intermediateMap
         /\ DOMAIN m_intermediateMap' = NotEmpty
         /\ m_intermediateMap' \in [NotEmpty -> DOMAIN itm]
         /\ \A f \in NotEmpty : m_intermediateMap'[f] = m_intermediateMap[f]
<1>1. NotEmpty \in SUBSET DOMAIN m_intermediateMap
  BY DEF NotEmpty
<1>2. m_intermediateMap' = Restrict(m_intermediateMap, NotEmpty)
  BY DEF Sweep
<1> QED BY <1>1, <1>2, MapShrinks

\* The steps that change neither the locals of a request nor, of the map and the
\* Intermediates, more than this.
LEMMA CalmType ==
  ASSUME TypeInv,
         DOMAIN m_nodeMap' \subseteq Node, m_nodeMap' \in [DOMAIN m_nodeMap' -> NodeRec],
         DOMAIN m_intermediateMap' \subseteq DOMAIN m_intermediateMap,
         m_intermediateMap' \in [DOMAIN m_intermediateMap' -> DOMAIN itm],
         \A f \in DOMAIN m_intermediateMap' : m_intermediateMap'[f] = m_intermediateMap[f],
         itm' \in Seq(ItmRec), DOMAIN itm' = DOMAIN itm,
         \A i \in DOMAIN itm : itm'[i].freq = itm[i].freq,
         made' = made, dir' = dir, overlap' \in BOOLEAN, sandbox_enabled' \in BOOLEAN,
         \/ pc' = pc /\ req' = req
         \/ pc' \in {"idle", "sweep", "erase", "undefined"}
            /\ (req' = req \/ req' = NoRequest \/ \E id \in Node : req' = [NoRequest EXCEPT !.id = id])
  PROVE  TypeInv'
<1>1. FiledByFreq'
  <2> SUFFICES ASSUME NEW f \in DOMAIN m_intermediateMap'
               PROVE  itm'[m_intermediateMap'[f]].freq = f
    BY DEF FiledByFreq
  <2>1. m_intermediateMap'[f] = m_intermediateMap[f] /\ m_intermediateMap[f] \in DOMAIN itm
        /\ itm[m_intermediateMap[f]].freq = f
    BY DEF TypeInv, ControllerType, FiledByFreq
  <2> QED BY <2>1
<1>2. CASE pc' = pc /\ req' = req
  BY <1>1, <1>2 DEF TypeInv, ControllerType, Busy, RequestShape
<1>3. CASE /\ pc' \in {"idle", "sweep", "erase", "undefined"}
           /\ (req' = req \/ req' = NoRequest \/ \E id \in Node : req' = [NoRequest EXCEPT !.id = id])
  <2>1. req'.created \in BOOLEAN /\ req'.sandbox \in BOOLEAN /\ RequestShape'
    <3>1. CASE req' = req
      BY <3>1 DEF TypeInv, ControllerType, RequestShape
    <3>2. CASE req' = NoRequest
      BY <3>2 DEF RequestShape, NoRequest
    <3>3. ASSUME NEW id \in Node, req' = [NoRequest EXCEPT !.id = id]
          PROVE  req'.created \in BOOLEAN /\ req'.sandbox \in BOOLEAN /\ RequestShape'
      BY <3>3 DEF RequestShape, NoRequest
    <3> QED BY <1>3, <3>1, <3>2, <3>3
  <2> QED BY <1>1, <1>3, <2>1 DEF TypeInv, ControllerType, Busy
<1> QED BY <1>2, <1>3

LEMMA RemoveType ==
  ASSUME TypeInv, NEW id \in Node, Disconnect(id) \/ CheckTimeouts(id)
  PROVE  TypeInv'
<1>1. /\ UNCHANGED <<m_nodeMap, m_intermediateMap, made, sandbox_enabled, dir>>
      /\ itm' = DetachedAll(id) /\ id \in DOMAIN m_nodeMap
      /\ overlap' \in BOOLEAN
  BY DEF Disconnect, CheckTimeouts, Begin, modeVars, ctlVars, TypeInv, ControllerType
<1>2. /\ itm' \in Seq(ItmRec) /\ DOMAIN itm' = DOMAIN itm
      /\ \A i \in DOMAIN itm : itm'[i].freq = itm[i].freq
  BY <1>1, DetachedAllRec
<1>3. \/ pc' = pc /\ req' = req
      \/ pc' = "sweep" /\ req' = [NoRequest EXCEPT !.id = id]
  BY DEF Disconnect, CheckTimeouts, ctlVars
<1>4. /\ DOMAIN m_nodeMap' \subseteq Node /\ m_nodeMap' \in [DOMAIN m_nodeMap' -> NodeRec]
      /\ m_intermediateMap' \in [DOMAIN m_intermediateMap' -> DOMAIN itm]
      /\ sandbox_enabled' \in BOOLEAN
  BY <1>1 DEF TypeInv, ControllerType
<1> QED BY <1>1, <1>2, <1>3, <1>4, CalmType

LEMMA SweepType ==
  ASSUME TypeInv, DisconnectSweep \/ TimeoutSweep
  PROVE  TypeInv'
<1>1. /\ UNCHANGED <<m_nodeMap, itm, made, sandbox_enabled, dir, overlap, req>> /\ Sweep
      /\ pc' = pc \/ pc' = "erase"
  BY DEF DisconnectSweep, TimeoutSweep, history, modeVars, ctlVars
<1>2. /\ DOMAIN m_nodeMap' \subseteq Node /\ m_nodeMap' \in [DOMAIN m_nodeMap' -> NodeRec]
      /\ itm' \in Seq(ItmRec) /\ sandbox_enabled' \in BOOLEAN /\ overlap' \in BOOLEAN
  BY <1>1 DEF TypeInv, ControllerType
<1> QED BY <1>1, <1>2, SweepMap, CalmType

LEMMA EraseType ==
  ASSUME TypeInv, DisconnectErase \/ TimeoutErase
  PROVE  TypeInv'
<1>1. /\ UNCHANGED <<m_intermediateMap, itm, made, sandbox_enabled, dir, overlap>>
      /\ \/ pc' = pc /\ req' = req
         \/ pc' = "idle" /\ req' = NoRequest
      /\ \E n \in DOMAIN m_nodeMap : m_nodeMap' = Restrict(m_nodeMap, DOMAIN m_nodeMap \ {n})
  BY DEF DisconnectErase, TimeoutErase, modeVars, ctlVars, Valid
<1>2. DOMAIN m_nodeMap' \subseteq Node /\ m_nodeMap' \in [DOMAIN m_nodeMap' -> NodeRec]
  <2>1. PICK n \in DOMAIN m_nodeMap : m_nodeMap' = Restrict(m_nodeMap, DOMAIN m_nodeMap \ {n})
    BY <1>1
  <2>2. /\ DOMAIN m_nodeMap' = DOMAIN m_nodeMap \ {n}
        /\ m_nodeMap' \in [DOMAIN m_nodeMap' -> NodeRec]
    BY <2>1, NodesRestrict
  <2> QED BY <2>2 DEF TypeInv, ControllerType
<1>3. /\ m_intermediateMap' \in [DOMAIN m_intermediateMap' -> DOMAIN itm]
      /\ itm' \in Seq(ItmRec) /\ sandbox_enabled' \in BOOLEAN /\ overlap' \in BOOLEAN
  BY <1>1 DEF TypeInv, ControllerType
<1> QED BY <1>1, <1>2, <1>3, CalmType

LEMMA OtherType ==
  ASSUME TypeInv,
         \/ \E id \in Node : Heartbeat(id)
         \/ UseErased \/ SwitchSandbox \/ Tick
  PROVE  TypeInv'
<1>1. /\ UNCHANGED <<m_intermediateMap, itm, made, dir, req>>
      /\ pc' = pc \/ pc' = "undefined"
  BY DEF Heartbeat, UseErased, SwitchSandbox, Tick, ctlVars
<1>2. overlap' \in BOOLEAN /\ sandbox_enabled' \in BOOLEAN
  BY DEF Heartbeat, UseErased, SwitchSandbox, Tick, Begin, history, modeVars, TypeInv, ControllerType
<1>3. DOMAIN m_nodeMap' \subseteq Node /\ m_nodeMap' \in [DOMAIN m_nodeMap' -> NodeRec]
  <2>1. CASE m_nodeMap' = m_nodeMap
    BY <2>1 DEF TypeInv, ControllerType
  <2>2. CASE Tick
    BY <2>2, TickNodes DEF TypeInv, ControllerType
  <2>3. CASE \E id \in Node : Heartbeat(id)
    BY <2>3, HeartbeatNodes DEF TypeInv, ControllerType
  <2> QED BY <2>1, <2>2, <2>3 DEF UseErased, SwitchSandbox
<1>4. m_intermediateMap' \in [DOMAIN m_intermediateMap' -> DOMAIN itm] /\ itm' \in Seq(ItmRec)
  BY <1>1 DEF TypeInv, ControllerType
<1> QED BY <1>1, <1>2, <1>3, <1>4, CalmType

LEMMA TypeStep ==
  ASSUME TypeInv, [Next]_vars
  PROVE  TypeInv'
<1>1. CASE UNCHANGED vars
  BY <1>1 DEF vars, ctlVars, modeVars, TypeInv, ControllerType, FiledByFreq, Busy, RequestShape
<1>2. CASE Next
  BY <1>2, RegisterType, LookupType, DetachPreviousType, AttachNewType, RemoveType, SweepType,
     EraseType, OtherType DEF Next, AssignULChannel, AssignDLChannel
<1> QED BY <1>1, <1>2

-----------------------------------------------------------------------------
(* What the timeout thread removes *)

\* As long as no call ran during another: one thread at most is inside, and the
\* node CheckTimeouts is removing is still registered and still timed out.
Serial ==
    ~overlap => /\ pc = "idle" \/ t_pc = "sleep"
                /\ t_pc \in {"sweep", "erase"} => t_id \in DOMAIN m_nodeMap /\ TimedOut(t_id)

LEMMA SerialStep ==
  ASSUME TypeInv, Serial, [Next]_vars
  PROVE  Serial'
<1> SUFFICES ASSUME ~overlap' PROVE (pc = "idle" \/ t_pc = "sleep")'
                                    /\ (t_pc \in {"sweep", "erase"} => t_id \in DOMAIN m_nodeMap /\ TimedOut(t_id))'
  BY DEF Serial
<1>1. CASE UNCHANGED vars
  BY <1>1 DEF vars, ctlVars, tmoVars, Serial, TimedOut
<1>2. ASSUME NEW id \in Node, NEW f \in Tuning, Register(id, f) PROVE Serial'
  BY <1>2 DEF Register, Begin, tmoVars, Serial
<1>3. ASSUME NEW id \in Node, Disconnect(id) PROVE Serial'
  BY <1>3 DEF Disconnect, Begin, tmoVars, Serial
<1>4. ASSUME NEW id \in Node, Heartbeat(id) PROVE Serial'
  BY <1>4 DEF Heartbeat, Begin, tmoVars, ctlVars, Serial
<1>5. ASSUME NEW id \in Node, CheckTimeouts(id) PROVE Serial'
  BY <1>5 DEF CheckTimeouts, Begin, ctlVars, Serial, TimedOut
<1>6. CASE Lookup \/ DetachPrevious \/ AttachNew \/ DisconnectSweep \/ DisconnectErase
  BY <1>6 DEF Lookup, DetachPrevious, AttachNew, DisconnectSweep, DisconnectErase, history, tmoVars, Serial
<1>7. CASE TimeoutSweep
  BY <1>7 DEF TimeoutSweep, Serial, history, ctlVars, TimedOut
<1>8. CASE TimeoutErase \/ UseErased
  BY <1>8 DEF TimeoutErase, UseErased, Serial, history, ctlVars, tmoVars, TimedOut
<1>9. CASE SwitchSandbox
  BY <1>9 DEF SwitchSandbox, Serial, ctlVars, tmoVars, TimedOut
<1>10. CASE Tick
  <2>1. UNCHANGED <<overlap, pc, t_pc, t_id>>
    BY <1>10 DEF Tick, history, ctlVars, tmoVars
  <2>2. \A n \in DOMAIN m_nodeMap : m_nodeMap[n].age \in Nat /\ m_nodeMap'[n].age \in Nat
    BY <1>10, TickNodes DEF TypeInv, ControllerType, NodeRec
  <2>3. \A n \in DOMAIN m_nodeMap : m_nodeMap[n].age >= Timeout => m_nodeMap'[n].age >= Timeout
    BY <1>10, <2>2, TickNodes, SMTT(30) DEF Timeout
  <2> QED BY <1>10, <2>1, <2>3, TickNodes DEF Serial, TimedOut
<1> QED BY <1>1, <1>2, <1>3, <1>4, <1>5, <1>6, <1>7, <1>8, <1>9, <1>10
        DEF Next, AssignULChannel, AssignDLChannel, Serial

\* docs/chem.md: nodes that have not responded for 10 s are removed.  For any
\* nodes, tunings and number of requests, a node disappears only by its own
\* disconnect request or because CheckTimeouts found it that old, unless the two
\* threads were inside at the same time.
THEOREM HeartbeatsKept == Spec => HeartbeatKept
<1>1. Init => TypeInv /\ Serial
  BY InitType DEF Init, Serial
<1>2. TypeInv /\ Serial /\ [Next]_vars => TypeInv' /\ Serial'
  BY TypeStep, SerialStep
<1>3. TypeInv /\ Serial /\ [Next]_vars =>
        [\A n \in DOMAIN m_nodeMap \ DOMAIN m_nodeMap' :
            m_nodeMap[n].age >= Timeout \/ (pc = "erase" /\ req.id = n) \/ overlap]_vars
  <2> SUFFICES ASSUME TypeInv, Serial, Next, NEW n \in DOMAIN m_nodeMap, n \notin DOMAIN m_nodeMap'
               PROVE  m_nodeMap[n].age >= Timeout \/ (pc = "erase" /\ req.id = n) \/ overlap
    OBVIOUS
  <2>1. CASE DisconnectErase
    <3>1. DOMAIN m_nodeMap' = DOMAIN m_nodeMap \ {req.id}
      BY <2>1 DEF DisconnectErase, Restrict
    <3> QED BY <2>1, <3>1 DEF DisconnectErase
  <2>2. CASE TimeoutErase
    <3>1. DOMAIN m_nodeMap' = DOMAIN m_nodeMap \ {t_id}
      BY <2>2 DEF TimeoutErase, Restrict
    <3> QED BY <2>2, <3>1 DEF TimeoutErase, Serial, TimedOut
  <2>3. ASSUME NEW id \in Node, NEW f \in Tuning, Register(id, f) PROVE FALSE
    BY <2>3 DEF Register, GetOrCreateNode
  <2>4. CASE \E id \in Node : Disconnect(id) \/ CheckTimeouts(id)
    BY <2>4 DEF Disconnect, CheckTimeouts
  <2>5. CASE (\E id \in Node : Heartbeat(id)) \/ Tick
    BY <2>5, HeartbeatNodes, TickNodes
  <2>6. CASE Lookup \/ AttachNew
    BY <2>6, LookupNodes, AttachNewMap
  <2>7. CASE DetachPrevious \/ DisconnectSweep \/ TimeoutSweep \/ UseErased \/ SwitchSandbox
    BY <2>7 DEF DetachPrevious, DisconnectSweep, TimeoutSweep, UseErased, SwitchSandbox
  <2> QED BY <2>1, <2>2, <2>3, <2>4, <2>5, <2>6, <2>7 DEF Next, AssignULChannel, AssignDLChannel
<1> QED BY <1>1, <1>2, <1>3, PTL DEF Spec, HeartbeatKept

-----------------------------------------------------------------------------
(* Which Intermediates are at work *)

\* As long as no call ran during another: an Intermediate that was told to stop
\* is empty; outside a removal every one in the map is at work; and so is the
\* one a request is about to attach to, which is not the one it leaves.
AtWork ==
    ~overlap =>
        /\ \A i \in DOMAIN itm : Resting(itm[i])
        /\ pc # "sweep" /\ t_pc # "sweep" =>
             \A f \in DOMAIN m_intermediateMap : itm[m_intermediateMap[f]].work
        /\ pc \in {"detach", "attach"} => itm[req.ch].work
        /\ pc = "detach" => req.prevCh # req.ch

LEMMA LookupWork ==
  ASSUME TypeInv, Serial, AtWork, Lookup
  PROVE  AtWork'
<1> DEFINE f == req.freq[dir]
           prev == target.freq[dir]
<1>1. SUFFICES ASSUME ~overlap' PROVE AtWork'
  BY DEF AtWork
<1>2. ~overlap /\ pc = "lookup" /\ t_pc = "sleep" /\ UNCHANGED t_pc
  BY <1>1 DEF Lookup, history, tmoVars, Serial
<1>3. Created(f).work /\ Resting(Created(f))
  BY DEF Created, Resting
<1>4. \A i \in DOMAIN itm' : Resting(itm'[i])
  BY <1>2, <1>3, LookupMap DEF AtWork
<1>5. ASSUME NEW g \in DOMAIN m_intermediateMap' PROVE itm'[m_intermediateMap'[g]].work
  <2>1. CASE g \in DOMAIN m_intermediateMap
    <3>1. m_intermediateMap'[g] = m_intermediateMap[g] /\ m_intermediateMap[g] \in DOMAIN itm
      BY <2>1, LookupMap DEF TypeInv, ControllerType
    <3> QED BY <1>2, <2>1, <3>1, LookupMap, SMTT(30) DEF AtWork
  <2>2. CASE g \notin DOMAIN m_intermediateMap
    <3>1. g = f /\ m_intermediateMap'[g] \in DOMAIN itm' \ DOMAIN itm
      BY <2>2, LookupMap
    <3> QED BY <1>3, <3>1, LookupMap
  <2> QED BY <2>1, <2>2
<1>6. pc' \in {"detach", "attach"} => itm'[req'.ch].work
  <2>1. pc' \in {"detach", "attach"} => req'.ch = m_intermediateMap'[f]
    BY LookupNext
  <2>2. f \in DOMAIN m_intermediateMap'
    BY LookupMap
  <2> QED BY <1>5, <2>1, <2>2
<1>7. pc' = "detach" => req'.prevCh # req'.ch
  <2> SUFFICES ASSUME pc' = "detach" PROVE req'.prevCh # req'.ch
    OBVIOUS
  <2>1. /\ prev # f /\ prev \in DOMAIN m_intermediateMap
        /\ req'.ch = m_intermediateMap'[f] /\ req'.prevCh = m_intermediateMap[prev]
    BY LookupNext
  <2>2. m_intermediateMap[prev] \in DOMAIN itm /\ itm[m_intermediateMap[prev]].freq = prev
    BY <2>1 DEF TypeInv, ControllerType, FiledByFreq
  <2>3. CASE f \in DOMAIN m_intermediateMap
    <3>1. m_intermediateMap'[f] = m_intermediateMap[f] /\ itm[m_intermediateMap[f]].freq = f
      BY <2>3, LookupMap DEF TypeInv, FiledByFreq
    <3> QED BY <2>1, <2>2, <3>1
  <2>4. CASE f \notin DOMAIN m_intermediateMap
    BY <2>1, <2>2, <2>4, LookupMap
  <2> QED BY <2>3, <2>4
<1> QED BY <1>4, <1>5, <1>6, <1>7 DEF AtWork

LEMMA DetachPreviousWork ==
  ASSUME TypeInv, Serial, AtWork, DetachPrevious
  PROVE  AtWork'
<1> DEFINE c == RemoveFrom(itm[req.prevCh], dir, req.id)
<1>1. SUFFICES ASSUME ~overlap' PROVE AtWork'
  BY DEF AtWork
<1>2. ~overlap /\ pc = "detach" /\ pc' = "attach" /\ req' = req /\ t_pc = "sleep" /\ UNCHANGED t_pc
  BY <1>1 DEF DetachPrevious, history, tmoVars, Serial
<1>3. /\ req.prevCh \in DOMAIN itm /\ itm[req.prevCh] \in ItmRec /\ dir \in Dir
      /\ req.ch \in DOMAIN itm /\ req.prevCh # req.ch /\ itm[req.ch].work
      /\ Resting(itm[req.prevCh])
  BY <1>2, SMTT(30) DEF TypeInv, ControllerType, AtWork
<1>4. Resting(c) /\ (~isEmpty(c) => c.work = itm[req.prevCh].work)
  BY <1>3, RemoveFromRec
<1>5. \A i \in DOMAIN itm' : Resting(itm'[i])
  BY <1>2, <1>4, DetachPreviousMap DEF AtWork
<1>6. itm'[req'.ch].work
  BY <1>2, <1>3, DetachPreviousMap
<1>7. ASSUME NEW f \in DOMAIN m_intermediateMap' PROVE itm'[m_intermediateMap'[f]].work
  <2>1. /\ m_intermediateMap'[f] = m_intermediateMap[f] /\ f \in DOMAIN m_intermediateMap
        /\ isEmpty(c) => f # c.freq
    BY DetachPreviousMap
  <2>2. /\ m_intermediateMap[f] \in DOMAIN itm /\ itm[m_intermediateMap[f]].freq = f
        /\ itm[m_intermediateMap[f]].work
    BY <1>2, <2>1 DEF TypeInv, ControllerType, FiledByFreq, AtWork
  <2>3. CASE m_intermediateMap[f] = req.prevCh
    <3>1. c.freq = f
      BY <2>2, <2>3, DetachPreviousMap
    <3>2. itm'[req.prevCh] = c
      BY DetachPreviousMap
    <3> HIDE DEF c
    <3> QED BY <1>4, <2>1, <2>2, <2>3, <3>1, <3>2
  <2>4. CASE m_intermediateMap[f] # req.prevCh
    BY <2>1, <2>2, <2>4, DetachPreviousMap
  <2> QED BY <2>3, <2>4
<1> QED BY <1>2, <1>5, <1>6, <1>7 DEF AtWork

LEMMA AttachNewWork ==
  ASSUME TypeInv, Serial, AtWork, AttachNew
  PROVE  AtWork'
<1> DEFINE c == AddTo(itm[req.ch], dir, req.id, target.dev[dir])
<1>1. SUFFICES ASSUME ~overlap' PROVE AtWork'
  BY DEF AtWork
<1>2. /\ ~overlap /\ pc = "attach" /\ pc' \in {"lookup", "idle"} /\ t_pc = "sleep"
      /\ UNCHANGED <<t_pc, m_intermediateMap>>
  BY <1>1 DEF AttachNew, Return, tmoVars, Serial
<1>3. itm[req.ch].work /\ c.work = itm[req.ch].work
  BY <1>2, AttachNewMap DEF AtWork
<1>4. itm'[req.ch] = c /\ DOMAIN itm' = DOMAIN itm
      /\ \A j \in DOMAIN itm : j # req.ch => itm'[j] = itm[j]
  BY AttachNewMap
<1> HIDE DEF c
<1>5. \A i \in DOMAIN itm' : Resting(itm'[i])
  BY <1>2, <1>3, <1>4 DEF AtWork, Resting
<1>6. \A f \in DOMAIN m_intermediateMap' : itm'[m_intermediateMap'[f]].work
  BY <1>2, <1>3, <1>4 DEF AtWork, TypeInv, ControllerType
<1> QED BY <1>2, <1>5, <1>6 DEF AtWork

LEMMA RemoveWork ==
  ASSUME TypeInv, Serial, AtWork, NEW id \in Node, Disconnect(id) \/ CheckTimeouts(id)
  PROVE  AtWork'
<1>1. SUFFICES ASSUME ~overlap' PROVE AtWork'
  BY DEF AtWork
<1>2. /\ ~overlap /\ itm' = DetachedAll(id) /\ id \in DOMAIN m_nodeMap
      /\ pc' = "sweep" \/ t_pc' = "sweep"
      /\ pc' \in {"idle", "sweep"}
  BY <1>1 DEF Disconnect, CheckTimeouts, Begin, ctlVars
<1>3. \A i \in DOMAIN itm' : Resting(itm'[i])
  BY <1>2, DetachedAllRec DEF AtWork
<1> QED BY <1>2, <1>3 DEF AtWork

LEMMA SweepWork ==
  ASSUME TypeInv, Serial, AtWork, DisconnectSweep \/ TimeoutSweep
  PROVE  AtWork'
<1>1. SUFFICES ASSUME ~overlap' PROVE AtWork'
  BY DEF AtWork
<1>2. ~overlap /\ itm' = itm /\ pc' \in {"idle", "erase"} /\ Sweep
  BY <1>1, SMTT(30) DEF DisconnectSweep, TimeoutSweep, history, ctlVars, Serial
<1>3. \A f \in DOMAIN m_intermediateMap' : itm'[m_intermediateMap'[f]].work
  <2> SUFFICES ASSUME NEW f \in DOMAIN m_intermediateMap'
               PROVE  itm[m_intermediateMap[f]].work /\ m_intermediateMap'[f] = m_intermediateMap[f]
    BY <1>2
  <2>1. f \in NotEmpty /\ m_intermediateMap'[f] = m_intermediateMap[f]
    BY <1>2, SweepMap
  <2>2. ~isEmpty(itm[m_intermediateMap[f]]) /\ m_intermediateMap[f] \in DOMAIN itm
    BY <2>1 DEF NotEmpty, TypeInv, ControllerType
  <2> QED BY <1>2, <2>1, <2>2 DEF AtWork, Resting
<1> QED BY <1>2, <1>3 DEF AtWork

LEMMA OtherWork ==
  ASSUME TypeInv, Serial, AtWork,
         \/ \E id \in Node : (\E f \in Tuning : Register(id, f)) \/ Heartbeat(id)
         \/ DisconnectErase \/ TimeoutErase \/ UseErased \/ SwitchSandbox \/ Tick
         \/ UNCHANGED vars
  PROVE  AtWork'
<1>1. SUFFICES ASSUME ~overlap' PROVE AtWork'
  BY DEF AtWork
<1>2. ~overlap
  BY <1>1 DEF Register, Heartbeat, Begin, DisconnectErase, TimeoutErase, UseErased, SwitchSandbox,
              Tick, history, vars
<1>3. UNCHANGED <<itm, m_intermediateMap>>
  BY DEF Register, Heartbeat, DisconnectErase, TimeoutErase, UseErased, SwitchSandbox, Tick, vars
<1>4. \/ pc' = pc /\ req' = req
      \/ pc = "idle" /\ pc' = "lookup"
      \/ pc = "erase" /\ pc' = "idle"
      \/ pc # "sweep" /\ pc' = "undefined"
  BY DEF Register, Heartbeat, DisconnectErase, TimeoutErase, UseErased, SwitchSandbox, Tick, vars, ctlVars
<1>5. t_pc' = t_pc \/ t_pc # "sweep"
  BY DEF Register, Heartbeat, DisconnectErase, TimeoutErase, UseErased, SwitchSandbox, Tick, vars, tmoVars
<1> QED BY <1>2, <1>3, <1>4, <1>5 DEF AtWork

\* docs/chem.md: an Intermediate distributes every incoming signal of a source.
\* For any nodes, tunings and number of requests, an Intermediate with a source
\* attached was not told to stop, unless the two threads were inside at the same
\* time.
THEOREM SourcesStayServed == Spec => []SourcesServed
<1>1. Init => TypeInv /\ Serial /\ AtWork
  BY InitType, SMTT(30) DEF Init, Serial, AtWork
<1>2. TypeInv /\ Serial /\ AtWork /\ [Next]_vars => TypeInv' /\ Serial' /\ AtWork'
  BY TypeStep, SerialStep, LookupWork, DetachPreviousWork, AttachNewWork, RemoveWork, SweepWork,
     OtherWork DEF Next, AssignULChannel, AssignDLChannel
<1>3. AtWork => SourcesServed
  BY DEF AtWork, SourcesServed, Resting, isEmpty
<1> QED BY <1>1, <1>2, <1>3, PTL DEF Spec

-----------------------------------------------------------------------------
(* What the database says *)

Row == [Dir -> Freq]

\* At every step there is a row for each registered node and for each channel of
\* the map; the row of a node has its frequencies, but for the node of a request
\* that has retuned it, or created it, and has not written it back yet.
InDatabase ==
    /\ db = [nodes |-> db.nodes, channels |-> db.channels]
    /\ db.channels = DOMAIN m_intermediateMap
    /\ db.nodes \in [DOMAIN m_nodeMap -> Row]
    /\ pc # "undefined" =>
         \A n \in DOMAIN m_nodeMap :
            db.nodes[n] = m_nodeMap[n].freq \/ (Busy /\ req.created /\ req.id = n)

LEMMA RegisterDb ==
  ASSUME TypeInv, InDatabase, NEW id \in Node, NEW f \in Tuning, Register(id, f)
  PROVE  InDatabase'
<1>1. /\ pc = "idle" /\ pc' = "lookup" /\ UNCHANGED m_intermediateMap
      /\ req'.created = (id \notin DOMAIN m_nodeMap) /\ req'.id = id
      /\ f \in Row
  BY ControllerAssumption DEF Register, Row, Dir
<1>2. CASE id \in DOMAIN m_nodeMap
  <2>1. db' = db /\ m_nodeMap' = m_nodeMap
    BY <1>2 DEF Register, GetOrCreateNode
  <2> QED BY <1>1, <2>1 DEF InDatabase, Busy
<1>3. CASE id \notin DOMAIN m_nodeMap
  <2> DEFINE rows == AddNode(db.nodes, id, f)
  <2>1. db' = [nodes |-> rows, channels |-> db.channels]
    BY <1>3 DEF Register, InDatabase
  <2>2. /\ DOMAIN m_nodeMap' = DOMAIN m_nodeMap \cup {id}
        /\ \A n \in DOMAIN m_nodeMap : m_nodeMap'[n] = m_nodeMap[n]
    BY <1>3 DEF Register, GetOrCreateNode
  <2>3. /\ rows \in [DOMAIN m_nodeMap \cup {id} -> Row]
        /\ \A n \in DOMAIN m_nodeMap : rows[n] = db.nodes[n]
    BY <1>1, <1>3 DEF AddNode, InDatabase
  <2> HIDE DEF rows
  <2> QED BY <1>1, <1>3, <2>1, <2>2, <2>3 DEF InDatabase, Busy
<1> QED BY <1>2, <1>3

\* The row of the request's node is written again with its frequencies, or not.
LEMMA PersistRows ==
  ASSUME TypeInv, InDatabase, Valid, NEW chans, NEW locals, NEW p,
         DOMAIN m_nodeMap' = DOMAIN m_nodeMap, m_nodeMap' \in [DOMAIN m_nodeMap' -> NodeRec],
         locals.id = req.id,
         p = Persist([nodes |-> db.nodes, channels |-> chans], locals)
  PROVE  /\ p = [nodes |-> p.nodes, channels |-> p.channels] /\ p.channels = chans
         /\ p.nodes \in [DOMAIN m_nodeMap -> Row]
         /\ \A n \in DOMAIN m_nodeMap : n # req.id => p.nodes[n] = db.nodes[n]
         /\ dir = "dl" /\ locals.created => p.nodes[req.id] = m_nodeMap'[req.id].freq
         /\ ~(dir = "dl" /\ locals.created) => p.nodes[req.id] = db.nodes[req.id]
<1> DEFINE written == AddNode(db.nodes, req.id, m_nodeMap'[req.id].freq)
<1>1. CASE dir = "dl" /\ locals.created
  <2>1. p = [nodes |-> written, channels |-> chans]
    BY <1>1 DEF Persist
  <2>2. req.id \in DOMAIN m_nodeMap /\ m_nodeMap'[req.id].freq \in Row
    BY DEF Valid, NodeRec, Row
  <2>3. /\ written \in [DOMAIN m_nodeMap -> Row] /\ written[req.id] = m_nodeMap'[req.id].freq
        /\ \A n \in DOMAIN m_nodeMap : n # req.id => written[n] = db.nodes[n]
    BY <2>2 DEF AddNode, InDatabase
  <2> HIDE DEF written
  <2> QED BY <1>1, <2>1, <2>3, SMTT(30)
<1>2. CASE ~(dir = "dl" /\ locals.created)
  <2>1. p = [nodes |-> db.nodes, channels |-> chans]
    BY <1>2 DEF Persist
  <2> QED BY <1>2, <2>1, SMTT(30) DEF InDatabase
<1> QED BY <1>1, <1>2

LEMMA LookupDb ==
  ASSUME TypeInv, InDatabase, Lookup
  PROVE  InDatabase'
<1> DEFINE f == req.freq[dir]
           rows == IF f \in DOMAIN m_intermediateMap THEN db ELSE [db EXCEPT !.channels = AddChannel(@, f)]
           chans == DOMAIN m_intermediateMap \cup {f}
<1>1. rows = [nodes |-> db.nodes, channels |-> chans]
  <2>1. CASE f \in DOMAIN m_intermediateMap
    BY <2>1 DEF InDatabase
  <2>2. CASE f \notin DOMAIN m_intermediateMap
    BY <2>2 DEF InDatabase, AddChannel
  <2> QED BY <2>1, <2>2
<1>2. /\ DOMAIN m_intermediateMap' = chans /\ Valid /\ pc = "lookup"
      /\ DOMAIN m_nodeMap' = DOMAIN m_nodeMap
      /\ m_nodeMap' \in [DOMAIN m_nodeMap' -> NodeRec]
      /\ \A n \in DOMAIN m_nodeMap : m_nodeMap'[n].freq = m_nodeMap[n].freq
  BY LookupMap, LookupNodes DEF Lookup
<1>3. \/ Return(req, rows)
      \/ /\ db' = rows /\ pc' \in {"detach", "attach"}
         /\ req'.id = req.id /\ req'.created = req.created
  BY DEF Lookup, TypeInv, ControllerType, RequestShape
<1> HIDE DEF f, rows, chans
<1>4. CASE Return(req, rows)
  <2>1. /\ dir = "ul" => pc' = "lookup" /\ req' = req
        /\ dir # "ul" => pc' = "idle"
        /\ db' = Persist([nodes |-> db.nodes, channels |-> chans], req)
    BY <1>1, <1>4 DEF Return
  <2>2. /\ db' = [nodes |-> db'.nodes, channels |-> db'.channels] /\ db'.channels = chans
        /\ db'.nodes \in [DOMAIN m_nodeMap -> Row]
        /\ \A n \in DOMAIN m_nodeMap : n # req.id => db'.nodes[n] = db.nodes[n]
        /\ dir = "dl" /\ req.created => db'.nodes[req.id] = m_nodeMap'[req.id].freq
        /\ ~(dir = "dl" /\ req.created) => db'.nodes[req.id] = db.nodes[req.id]
    BY <1>2, <2>1, PersistRows, SMTT(30)
  <2>3. dir = "ul" \/ dir = "dl"
    BY DEF TypeInv, ControllerType, Dir
  <2>4. ASSUME NEW n \in DOMAIN m_nodeMap
        PROVE  db'.nodes[n] = m_nodeMap'[n].freq \/ (Busy /\ req.created /\ req.id = n)'
    BY <1>2, <2>1, <2>2, <2>3 DEF InDatabase, Busy
  <2> QED BY <1>2, <2>2, <2>4 DEF InDatabase
<1>5. CASE /\ db' = rows /\ pc' \in {"detach", "attach"}
           /\ req'.id = req.id /\ req'.created = req.created
  BY <1>1, <1>2, <1>5 DEF InDatabase, Busy
<1> QED BY <1>3, <1>4, <1>5

LEMMA AttachNewDb ==
  ASSUME TypeInv, InDatabase, AttachNew
  PROVE  InDatabase'
<1> DEFINE locals == [req EXCEPT !.ch = 0, !.prevCh = 0, !.created = TRUE, !.sandbox = FALSE]
           chans == DOMAIN m_intermediateMap
<1>1. locals.id = req.id /\ locals.created = TRUE
  BY DEF TypeInv, ControllerType, RequestShape
<1>2. /\ dir = "ul" => pc' = "lookup" /\ req' = locals
      /\ dir # "ul" => pc' = "idle"
      /\ db' = Persist([nodes |-> db.nodes, channels |-> chans], locals)
      /\ UNCHANGED m_intermediateMap /\ Valid /\ pc = "attach"
  BY DEF AttachNew, Return, InDatabase
<1> HIDE DEF locals
<1>3. /\ DOMAIN m_nodeMap' = DOMAIN m_nodeMap
      /\ m_nodeMap' \in [DOMAIN m_nodeMap' -> NodeRec]
      /\ \A n \in DOMAIN m_nodeMap : n # req.id => m_nodeMap'[n] = m_nodeMap[n]
  BY AttachNewMap
<1>4. /\ db' = [nodes |-> db'.nodes, channels |-> db'.channels] /\ db'.channels = chans
      /\ db'.nodes \in [DOMAIN m_nodeMap -> Row]
      /\ \A n \in DOMAIN m_nodeMap : n # req.id => db'.nodes[n] = db.nodes[n]
      /\ dir = "dl" => db'.nodes[req.id] = m_nodeMap'[req.id].freq
  BY <1>1, <1>2, <1>3, PersistRows, SMTT(30)
<1>5. dir = "ul" \/ dir = "dl"
  BY DEF TypeInv, ControllerType, Dir
<1>6. ASSUME NEW n \in DOMAIN m_nodeMap
      PROVE  db'.nodes[n] = m_nodeMap'[n].freq \/ (Busy /\ req.created /\ req.id = n)'
  <2>1. CASE n = req.id
    BY <1>1, <1>2, <1>4, <1>5, <2>1 DEF Busy
  <2>2. CASE n # req.id
    BY <1>2, <1>3, <1>4, <2>2 DEF InDatabase
  <2> QED BY <2>1, <2>2
<1> QED BY <1>2, <1>3, <1>4, <1>6 DEF InDatabase

LEMMA DetachPreviousDb ==
  ASSUME TypeInv, InDatabase, DetachPrevious
  PROVE  InDatabase'
<1> DEFINE c == RemoveFrom(itm[req.prevCh], dir, req.id)
<1>1. /\ UNCHANGED <<m_nodeMap, req>> /\ pc = "detach" /\ pc' = "attach"
      /\ db' = IF isEmpty(c) THEN [db EXCEPT !.channels = DeleteChannel(@, {c.freq})] ELSE db
  BY DEF DetachPrevious
<1>2. DOMAIN m_intermediateMap' =
        IF isEmpty(c) THEN DOMAIN m_intermediateMap \ {c.freq} ELSE DOMAIN m_intermediateMap
  BY DetachPreviousMap
<1> HIDE DEF c
<1>3. db' = [nodes |-> db.nodes, channels |-> DOMAIN m_intermediateMap']
  <2>1. CASE isEmpty(c)
    BY <1>1, <1>2, <2>1 DEF InDatabase, DeleteChannel
  <2>2. CASE ~isEmpty(c)
    BY <1>1, <1>2, <2>2 DEF InDatabase
  <2> QED BY <2>1, <2>2
<1>4. ASSUME NEW n \in DOMAIN m_nodeMap'
      PROVE  db'.nodes[n] = m_nodeMap'[n].freq \/ (Busy /\ req.created /\ req.id = n)'
  BY <1>1, <1>3 DEF InDatabase, Busy
<1>5. db'.nodes \in [DOMAIN m_nodeMap' -> Row]
  BY <1>1, <1>3 DEF InDatabase
<1> QED BY <1>3, <1>4, <1>5 DEF InDatabase

LEMMA SweepDb ==
  ASSUME TypeInv, InDatabase, DisconnectSweep \/ TimeoutSweep
  PROVE  InDatabase'
<1>1. /\ UNCHANGED <<m_nodeMap, req>> /\ Sweep
      /\ pc' = pc \/ (pc = "sweep" /\ pc' = "erase")
  BY DEF DisconnectSweep, TimeoutSweep, ctlVars
<1>2. NotEmpty \subseteq DOMAIN m_intermediateMap /\ DOMAIN m_intermediateMap' = NotEmpty
  BY <1>1, SweepMap
<1>3. db' = [nodes |-> db.nodes, channels |-> DOMAIN m_intermediateMap']
  BY <1>1, <1>2 DEF Sweep, InDatabase, DeleteChannel
<1> QED BY <1>1, <1>3 DEF InDatabase, Busy

LEMMA EraseDb ==
  ASSUME TypeInv, InDatabase, DisconnectErase \/ TimeoutErase
  PROVE  InDatabase'
<1>1. /\ UNCHANGED m_intermediateMap
      /\ (pc' = pc /\ req' = req) \/ (pc = "erase" /\ pc' = "idle")
  BY DEF DisconnectErase, TimeoutErase, ctlVars
<1>2. PICK n \in DOMAIN m_nodeMap :
         /\ m_nodeMap' = Restrict(m_nodeMap, DOMAIN m_nodeMap \ {n})
         /\ db' = [db EXCEPT !.nodes = DeleteNode(@, n)]
  BY DEF DisconnectErase, TimeoutErase, Valid
<1> DEFINE S == DOMAIN m_nodeMap \ {n}
           left == DeleteNode(db.nodes, n)
<1>3. DOMAIN m_nodeMap' = S /\ \A m \in S : m_nodeMap'[m] = m_nodeMap[m]
  BY <1>2, NodesRestrict
<1>4. left \in [S -> Row] /\ \A m \in S : left[m] = db.nodes[m]
  BY DEF DeleteNode, Restrict, InDatabase
<1>5. db' = [nodes |-> left, channels |-> db.channels]
  BY <1>2 DEF InDatabase
<1> HIDE DEF left
<1> QED BY <1>1, <1>3, <1>4, <1>5 DEF InDatabase, Busy

LEMMA OtherDb ==
  ASSUME TypeInv, InDatabase,
         \/ \E id \in Node : Heartbeat(id) \/ Disconnect(id) \/ CheckTimeouts(id)
         \/ UseErased \/ SwitchSandbox \/ Tick \/ UNCHANGED vars
  PROVE  InDatabase'
<1>1. UNCHANGED <<db, m_intermediateMap>>
  BY DEF Heartbeat, Disconnect, CheckTimeouts, UseErased, SwitchSandbox, Tick, vars
<1>2. \/ pc' = pc /\ req' = req
      \/ pc = "idle" /\ pc' = "sweep"
      \/ pc' = "undefined"
  BY DEF Heartbeat, Disconnect, CheckTimeouts, UseErased, SwitchSandbox, Tick, vars, ctlVars
<1>3. /\ DOMAIN m_nodeMap' = DOMAIN m_nodeMap
      /\ \A n \in DOMAIN m_nodeMap : m_nodeMap'[n].freq = m_nodeMap[n].freq
  <2>1. CASE m_nodeMap' = m_nodeMap
    BY <2>1
  <2>2. CASE Tick \/ \E id \in Node : Heartbeat(id)
    BY <2>2, TickNodes, HeartbeatNodes
  <2> QED BY <2>1, <2>2 DEF Disconnect, CheckTimeouts, UseErased, SwitchSandbox, vars
<1> QED BY <1>1, <1>2, <1>3 DEF InDatabase, Busy

\* The interface of CHEM answers from the database.  For any nodes, tunings and
\* number of requests, between requests it has exactly the registered nodes, with
\* the frequencies they are tuned to, and exactly the channels that exist.
THEOREM DatabaseStaysTrue == Spec => []DatabaseAgrees
<1>1. Init => TypeInv /\ InDatabase
  <2> SUFFICES ASSUME Init PROVE InDatabase
    BY InitType
  <2>1. db = [nodes |-> << >>, channels |-> {}] /\ m_nodeMap = << >> /\ m_intermediateMap = << >>
    BY DEF Init, CreateTables
  <2>2. db.nodes = << >> /\ db.channels = {}
    BY <2>1
  <2>3. DOMAIN m_nodeMap = {} /\ DOMAIN m_intermediateMap = {} /\ << >> \in [{} -> Row]
    BY <2>1, SMTT(30)
  <2> QED BY <2>1, <2>2, <2>3 DEF InDatabase
<1>2. TypeInv /\ InDatabase /\ [Next]_vars => TypeInv' /\ InDatabase'
  BY TypeStep, RegisterDb, LookupDb, DetachPreviousDb, AttachNewDb, SweepDb, EraseDb, OtherDb
     DEF Next, AssignULChannel, AssignDLChannel
<1>3. InDatabase => DatabaseAgrees
  <2> SUFFICES ASSUME InDatabase, pc = "idle"
               PROVE  db = [nodes |-> [n \in DOMAIN m_nodeMap |-> m_nodeMap[n].freq],
                            channels |-> DOMAIN m_intermediateMap]
    BY DEF DatabaseAgrees, Quiet
  <2>1. \A n \in DOMAIN m_nodeMap : db.nodes[n] = m_nodeMap[n].freq
    BY DEF InDatabase, Busy
  <2>2. db.nodes = [n \in DOMAIN m_nodeMap |-> m_nodeMap[n].freq]
    BY <2>1 DEF InDatabase
  <2> QED BY <2>2 DEF InDatabase
<1> QED BY <1>1, <1>2, <1>3, PTL DEF Spec

-----------------------------------------------------------------------------
(* A device is attached where its node is tuned, and stays there *)

\* The node n is being removed.
Leaving(n) ==
    \/ pc \in {"sweep", "erase"} /\ req.id = n
    \/ t_pc \in {"sweep", "erase"} /\ t_id = n

\* The request has taken the node off its previous channel and not yet put it on
\* the new one.
Between(n, d) == pc = "attach" /\ req.id = n /\ dir = d

\* The attachment p of direction d to the Intermediate i is where it should be.
Sits(i, d, p) ==
    /\ p[1] \in DOMAIN m_nodeMap /\ ~Leaving(p[1])
    /\ p[2] # 0 /\ m_nodeMap[p[1]].dev[d] = p[2]
    /\ itm[i].freq \in DOMAIN m_intermediateMap
    /\ m_intermediateMap[itm[i].freq] = i
    /\ switched \/ (m_nodeMap[p[1]].freq[d] = itm[i].freq /\ ~Between(p[1], d))

Attachments == \A i \in DOMAIN itm : \A d \in Dir : \A p \in itm[i].att[d] : Sits(i, d, p)

\* What a request has found out stays true until it attaches.
Asked ==
    /\ pc \notin {"idle", "undefined"} => Valid
    /\ pc \in {"detach", "attach"} =>
         /\ req.freq[dir] \in DOMAIN m_intermediateMap
         /\ m_intermediateMap[req.freq[dir]] = req.ch
         /\ ~req.sandbox => target.dev[dir] # 0
         /\ ~switched => req.sandbox = sandbox_enabled
    /\ pc = "detach" =>
         /\ target.freq[dir] \in DOMAIN m_intermediateMap
         /\ m_intermediateMap[target.freq[dir]] = req.prevCh
         /\ target.freq[dir] # req.freq[dir]

\* Unless the mode was switched under them, nodes have no devices in sandbox mode.
OneMode ==
    sandbox_enabled /\ ~switched =>
        \A n \in DOMAIN m_nodeMap : \A d \in Dir : m_nodeMap[n].dev[d] = 0

\* The node n is on the channel of its frequency.
OnChannel(n, d) ==
    LET f == m_nodeMap[n].freq[d]
    IN  f \in DOMAIN m_intermediateMap /\ n \in Ids(itm[m_intermediateMap[f]], d)

\* Whoever was put on a channel is on one, is being moved or is being removed.
Tuned ==
    /\ \A p \in tuned : p[1] \in DOMAIN m_nodeMap /\ p[2] \in Dir
    /\ ~sandbox_enabled /\ ~switched =>
         \A p \in tuned : Leaving(p[1]) \/ Between(p[1], p[2]) \/ OnChannel(p[1], p[2])

Placement == Attachments /\ Asked /\ OneMode /\ Tuned

\* All of it as long as no call ran during another.
Placed == ~overlap => Placement

-----------------------------------------------------------------------------
(* What the calls to an Intermediate do to its attachments *)

LEMMA DetachDevAtt ==
  ASSUME NEW c \in ItmRec, NEW d \in Dir, NEW id, NEW r, r = DetachDev(c, d, id)
  PROVE  /\ r.att[d] = {p \in c.att[d] : p[1] # id}
         /\ \A e \in Dir : e # d => r.att[e] = c.att[e]
<1> DEFINE e == [c EXCEPT !.att[d] = {p \in @ : p[1] # id}]
<1>1. CASE id \notin Ids(c, d)
  BY <1>1 DEF DetachDev, Ids
<1>2. CASE id \in Ids(c, d)
  <2>1. r = EmptyChannelChecker(e)
    BY <1>2 DEF DetachDev
  <2>2. e \in ItmRec /\ e.att[d] = {p \in c.att[d] : p[1] # id}
        /\ \A g \in Dir : g # d => e.att[g] = c.att[g]
    BY DEF ItmRec
  <2> HIDE DEF e
  <2>3. EmptyChannelChecker(e).att = e.att
    BY <2>2 DEF EmptyChannelChecker, ItmRec
  <2> QED BY <2>1, <2>2, <2>3
<1> QED BY <1>1, <1>2

LEMMA RemoveFromAtt ==
  ASSUME NEW c \in ItmRec, NEW d \in Dir, NEW id, NEW r, r = RemoveFrom(c, d, id)
  PROVE  /\ \A e \in Dir : r.att[e] \subseteq c.att[e]
         /\ \A e \in Dir : \A p \in c.att[e] : e # d \/ p[1] # id => p \in r.att[e]
         /\ ~req.sandbox => \A p \in r.att[d] : p[1] # id
<1>1. CASE req.sandbox
  BY <1>1 DEF RemoveFrom, ItmRec
<1>2. CASE ~req.sandbox
  <2>1. r = DetachDev(c, d, id)
    BY <1>2 DEF RemoveFrom
  <2>2. /\ r.att[d] = {p \in c.att[d] : p[1] # id}
        /\ \A e \in Dir : e # d => r.att[e] = c.att[e]
    BY <2>1, DetachDevAtt, SMTT(30)
  <2> QED BY <2>2
<1> QED BY <1>1, <1>2

LEMMA AddToAtt ==
  ASSUME NEW c \in ItmRec, NEW d \in Dir, NEW id \in Node, NEW dev \in Nat,
         NEW r, r = AddTo(c, d, id, dev)
  PROVE  /\ \A e \in Dir : c.att[e] \subseteq r.att[e]
         /\ \A e \in Dir : \A p \in r.att[e] :
                p \in c.att[e] \/ (p = <<id, dev>> /\ e = d /\ ~req.sandbox)
         /\ ~req.sandbox => id \in Ids(r, d)
<1>1. CASE req.sandbox
  BY <1>1 DEF AddTo, ItmRec
<1>2. CASE ~req.sandbox /\ id \in Ids(c, d)
  BY <1>2 DEF AddTo, AttachDev
<1>3. CASE ~req.sandbox /\ id \notin Ids(c, d)
  <2>1. r = [c EXCEPT !.att[d] = @ \cup {<<id, dev>>}]
    BY <1>3 DEF AddTo, AttachDev
  <2>2. /\ r.att[d] = c.att[d] \cup {<<id, dev>>}
        /\ \A e \in Dir : e # d => r.att[e] = c.att[e]
    BY <2>1 DEF ItmRec
  <2>3. <<id, dev>> \in r.att[d] /\ <<id, dev>>[1] = id
    BY <2>2
  <2>4. id \in Ids(r, d)
    BY <2>3 DEF Ids
  <2> QED BY <1>3, <2>2, <2>4
<1> QED BY <1>1, <1>2, <1>3

\* A node's devices leave every Intermediate of the map, and nobody else's do.
LEMMA DetachedAllAtt ==
  ASSUME TypeInv, NEW id \in DOMAIN m_nodeMap, NEW t, t = DetachedAll(id),
         NEW i \in DOMAIN itm, NEW d \in Dir
  PROVE  /\ t[i].att[d] \subseteq itm[i].att[d]
         /\ \A p \in itm[i].att[d] : p[1] # id => p \in t[i].att[d]
         /\ i \in Range(m_intermediateMap) /\ m_nodeMap[id].dev[d] # 0 =>
              \A p \in t[i].att[d] : p[1] # id
<1> DEFINE Leave(c, e) == IF m_nodeMap[id].dev[e] # 0 THEN DetachDev(c, e, id) ELSE c
           Left(r, c, e) == /\ \A g \in Dir : r.att[g] \subseteq c.att[g]
                            /\ \A g \in Dir : \A p \in c.att[g] : p[1] # id => p \in r.att[g]
                            /\ m_nodeMap[id].dev[e] # 0 => \A p \in r.att[e] : p[1] # id
<1>1. itm[i] \in ItmRec /\ "ul" \in Dir /\ "dl" \in Dir /\ d \in {"ul", "dl"}
  BY SMTT(30) DEF TypeInv, ControllerType, Dir
<1>2. t[i] = IF i \in Range(m_intermediateMap) THEN Leave(Leave(itm[i], "dl"), "ul") ELSE itm[i]
  BY DEF DetachedAll
<1>3. ASSUME NEW c \in ItmRec, NEW e \in Dir
      PROVE  Leave(c, e) \in ItmRec /\ Left(Leave(c, e), c, e)
  <2>1. CASE m_nodeMap[id].dev[e] # 0
    <3>1. PICK r : r = DetachDev(c, e, id)
      OBVIOUS
    <3>2. Leave(c, e) = r
      BY <2>1, <3>1
    <3>3. r \in ItmRec
      BY <3>1, DetachDevRec
    <3>4. /\ r.att[e] = {p \in c.att[e] : p[1] # id}
          /\ \A g \in Dir : g # e => r.att[g] = c.att[g]
      BY <3>1, DetachDevAtt, SMTT(30)
    <3>5. Left(r, c, e)
      BY <3>4
    <3> HIDE DEF Left, Leave
    <3> QED BY <3>2, <3>3, <3>5
  <2>2. CASE m_nodeMap[id].dev[e] = 0
    BY <2>2
  <2> QED BY <2>1, <2>2
<1> HIDE DEF Leave
<1>4. PICK a : a = Leave(itm[i], "dl")
  OBVIOUS
<1>5. a \in ItmRec /\ Left(a, itm[i], "dl")
  BY <1>1, <1>3, <1>4
<1>6. PICK b : b = Leave(a, "ul")
  OBVIOUS
<1>7. Left(b, a, "ul")
  BY <1>1, <1>3, <1>5, <1>6
<1>8. CASE i \in Range(m_intermediateMap)
  <2>1. t[i] = b
    BY <1>2, <1>4, <1>6, <1>8
  <2> QED BY <1>1, <1>5, <1>7, <2>1
<1>9. CASE i \notin Range(m_intermediateMap)
  BY <1>2, <1>9
<1> QED BY <1>8, <1>9

-----------------------------------------------------------------------------
(* What the steps of a request do to the node's record *)

\* A node gets a device only where it has none, and only outside sandbox mode.
LEMMA LookupDevices ==
  ASSUME TypeInv, Lookup
  PROVE  /\ \A n \in DOMAIN m_nodeMap : \A d \in Dir :
              m_nodeMap[n].dev[d] # 0 => m_nodeMap'[n].dev[d] = m_nodeMap[n].dev[d]
         /\ sandbox_enabled => m_nodeMap' = m_nodeMap
         /\ ~sandbox_enabled => m_nodeMap'[req.id].dev[dir] # 0
<1>1. /\ req.id \in DOMAIN m_nodeMap /\ dir \in Dir /\ AssignPort(dir) \in Nat /\ AssignPort(dir) # 0
      /\ m_nodeMap[req.id] \in NodeRec
  BY SMTT(30) DEF Lookup, Valid, TypeInv, ControllerType, AssignPort
<1>2. CASE ~sandbox_enabled /\ m_nodeMap[req.id].dev[dir] = 0
  <2> DEFINE r == [m_nodeMap[req.id] EXCEPT !.dev[dir] = AssignPort(dir)]
  <2>1. m_nodeMap' = [m_nodeMap EXCEPT ![req.id] = r]
    BY <1>2 DEF Lookup, target
  <2>2. /\ r \in NodeRec /\ r.dev[dir] = AssignPort(dir)
        /\ \A d \in Dir : d # dir => r.dev[d] = m_nodeMap[req.id].dev[d]
    BY <1>1 DEF NodeRec
  <2> HIDE DEF r
  <2>3. /\ m_nodeMap'[req.id] = r
        /\ \A m \in DOMAIN m_nodeMap : m # req.id => m_nodeMap'[m] = m_nodeMap[m]
    BY <1>1, <2>1, <2>2, NodeChanged
  <2> QED BY <1>1, <1>2, <2>2, <2>3
<1>3. CASE sandbox_enabled \/ m_nodeMap[req.id].dev[dir] # 0
  <2>1. m_nodeMap' = m_nodeMap
    BY <1>3 DEF Lookup, target
  <2> QED BY <1>3, <2>1
<1> QED BY <1>2, <1>3

\* The node takes the frequency of the request and keeps its devices.
LEMMA AttachNewNode ==
  ASSUME TypeInv, AttachNew
  PROVE  /\ m_nodeMap'[req.id].freq[dir] = req.freq[dir]
         /\ \A n \in DOMAIN m_nodeMap : \A d \in Dir :
              n # req.id \/ d # dir => m_nodeMap'[n].freq[d] = m_nodeMap[n].freq[d]
         /\ \A n \in DOMAIN m_nodeMap : m_nodeMap'[n].dev = m_nodeMap[n].dev
<1> DEFINE r == [m_nodeMap[req.id] EXCEPT !.freq[dir] = req.freq[dir]]
<1>1. /\ req.id \in DOMAIN m_nodeMap /\ dir \in Dir /\ req.freq[dir] \in Freq
      /\ m_nodeMap[req.id] \in NodeRec
  BY DEF AttachNew, Valid, TypeInv, ControllerType, Busy
<1>2. /\ r \in NodeRec /\ r.freq[dir] = req.freq[dir] /\ r.dev = m_nodeMap[req.id].dev
      /\ \A d \in Dir : d # dir => r.freq[d] = m_nodeMap[req.id].freq[d]
  BY <1>1 DEF NodeRec
<1>3. m_nodeMap' = [m_nodeMap EXCEPT ![req.id] = r]
  BY DEF AttachNew
<1> HIDE DEF r
<1>4. /\ m_nodeMap'[req.id] = r
      /\ \A m \in DOMAIN m_nodeMap : m # req.id => m_nodeMap'[m] = m_nodeMap[m]
  BY <1>1, <1>2, <1>3, NodeChanged
<1> QED BY <1>1, <1>2, <1>4

-----------------------------------------------------------------------------
(* Each step keeps everybody in place *)

LEMMA LookupPlaced ==
  ASSUME TypeInv, Serial, Placed, Lookup, ~overlap'
  PROVE  Placement'
<1> DEFINE f == req.freq[dir]
           prev == target.freq[dir]
<1>1. /\ ~overlap /\ pc = "lookup" /\ t_pc = "sleep" /\ Valid
      /\ UNCHANGED <<t_pc, t_id, overlap, switched, sandbox_enabled, tuned>>
  BY DEF Lookup, history, modeVars, tmoVars, Serial
<1>2. Placement
  BY <1>1 DEF Placed
<1>3. /\ pc' \in {"lookup", "idle", "detach", "attach"}
      /\ pc' # "idle" => req'.id = req.id
      /\ pc' \in {"detach", "attach"} => dir' = dir
  BY LookupNext, <1>1
<1>4. \A n : ~Leaving(n) /\ ~Leaving(n)'
  BY <1>1, <1>3 DEF Leaving
<1>5. Attachments'
  <2> SUFFICES ASSUME NEW i \in DOMAIN itm', NEW d \in Dir, NEW p \in itm'[i].att[d]
               PROVE  Sits(i, d, p)'
    BY DEF Attachments
  <2>1. i \in DOMAIN itm
    <3> SUFFICES ASSUME i \notin DOMAIN itm PROVE FALSE
      OBVIOUS
    <3>1. itm'[i] = Created(f)
      BY LookupMap
    <3> QED BY <3>1, SMTT(30) DEF Created
  <2>2. itm'[i] = itm[i]
    BY <2>1, LookupMap
  <2>3. Sits(i, d, p)
    BY <1>2, <2>1, <2>2 DEF Placement, Attachments
  <2>4. /\ p[1] \in DOMAIN m_nodeMap' /\ p[2] # 0 /\ m_nodeMap'[p[1]].dev[d] = p[2]
        /\ m_nodeMap'[p[1]].freq = m_nodeMap[p[1]].freq
    BY <2>3, LookupNodes, LookupDevices DEF Sits
  <2>5. itm[i].freq \in DOMAIN m_intermediateMap' /\ m_intermediateMap'[itm[i].freq] = i
    BY <2>3, LookupMap DEF Sits
  <2>6. ~switched => ~Between(p[1], d)'
    <3> SUFFICES ASSUME ~switched, pc' = "attach", req'.id = p[1], dir' = d PROVE FALSE
      BY DEF Between
    <3>1. target.freq[dir] \notin DOMAIN m_intermediateMap /\ req.id = p[1] /\ dir = d
      BY <1>3, LookupNext
    <3> QED BY <2>3, <3>1 DEF Sits, target
  <2> QED BY <1>1, <1>4, <2>2, <2>3, <2>4, <2>5, <2>6 DEF Sits
<1>6. Asked'
  <2>1. pc' # "idle" => Valid'
    BY <1>1, <1>3, LookupNodes DEF Valid
  <2>2. ASSUME pc' \in {"detach", "attach"}
        PROVE  /\ dir' = dir /\ req'.id = req.id /\ req'.freq = req.freq /\ prev # f
               /\ req'.sandbox = sandbox_enabled /\ req'.ch = m_intermediateMap'[f]
               /\ pc' = "detach" => /\ prev \in DOMAIN m_intermediateMap
                                    /\ req'.prevCh = m_intermediateMap[prev]
    BY <2>2, <1>1, LookupNext
  <2>3. ASSUME pc' \in {"detach", "attach"}
        PROVE  target'.freq[dir'] = prev /\ (~sandbox_enabled => target'.dev[dir'] # 0)
    BY <1>1, <2>2, <2>3, LookupNodes, LookupDevices DEF Valid, target
  <2>4. f \in DOMAIN m_intermediateMap'
        /\ (prev \in DOMAIN m_intermediateMap =>
              prev \in DOMAIN m_intermediateMap' /\ m_intermediateMap'[prev] = m_intermediateMap[prev])
    BY LookupMap
  <2> QED BY <1>1, <1>3, <2>1, <2>2, <2>3, <2>4 DEF Asked
<1>7. OneMode'
  BY <1>1, <1>2, LookupDevices, SMTT(30) DEF OneMode, Placement
<1>8. Tuned'
  <2>1. \A p \in tuned' : p[1] \in DOMAIN m_nodeMap' /\ p[2] \in Dir
    BY <1>1, <1>2, LookupNodes DEF Placement, Tuned
  <2>2. ASSUME ~sandbox_enabled, ~switched, NEW p \in tuned PROVE OnChannel(p[1], p[2])'
    <3>1. OnChannel(p[1], p[2]) /\ p[1] \in DOMAIN m_nodeMap
      BY <1>1, <1>2, <1>4, <2>2 DEF Placement, Tuned, Between
    <3>2. PICK g : g = m_nodeMap[p[1]].freq[p[2]]
      OBVIOUS
    <3>3. m_nodeMap'[p[1]].freq[p[2]] = g
      BY <3>1, <3>2, LookupNodes
    <3>4. /\ g \in DOMAIN m_intermediateMap /\ m_intermediateMap[g] \in DOMAIN itm
          /\ p[1] \in Ids(itm[m_intermediateMap[g]], p[2])
      BY <3>1, <3>2 DEF OnChannel, TypeInv, ControllerType
    <3>5. /\ g \in DOMAIN m_intermediateMap' /\ m_intermediateMap'[g] = m_intermediateMap[g]
          /\ itm'[m_intermediateMap[g]] = itm[m_intermediateMap[g]]
      BY <3>4, LookupMap
    <3> QED BY <3>3, <3>4, <3>5 DEF OnChannel, Ids
  <2> QED BY <1>1, <2>1, <2>2 DEF Tuned
<1> QED BY <1>5, <1>6, <1>7, <1>8 DEF Placement

LEMMA DetachPreviousPlaced ==
  ASSUME TypeInv, Serial, Placed, DetachPrevious, ~overlap'
  PROVE  Placement'
<1>1. /\ ~overlap /\ pc = "detach" /\ pc' = "attach" /\ t_pc = "sleep" /\ Valid
      /\ UNCHANGED <<m_nodeMap, dir, req, t_pc, t_id, overlap, switched, sandbox_enabled, tuned>>
  BY DEF DetachPrevious, history, modeVars, tmoVars, Serial
<1>2. Placement
  BY <1>1 DEF Placed
<1>3. \A n : ~Leaving(n) /\ ~Leaving(n)'
  BY <1>1 DEF Leaving
<1>4. /\ req.freq[dir] \in DOMAIN m_intermediateMap /\ m_intermediateMap[req.freq[dir]] = req.ch
      /\ ~req.sandbox => target.dev[dir] # 0
      /\ ~switched => req.sandbox = sandbox_enabled
      /\ target.freq[dir] \in DOMAIN m_intermediateMap
      /\ m_intermediateMap[target.freq[dir]] = req.prevCh
      /\ target.freq[dir] # req.freq[dir]
  BY <1>1, <1>2 DEF Placement, Asked
<1>5. PICK c : c = RemoveFrom(itm[req.prevCh], dir, req.id)
  OBVIOUS
<1>6. /\ req.prevCh \in DOMAIN itm
      /\ c \in ItmRec /\ c.freq = itm[req.prevCh].freq
      /\ DOMAIN itm' = DOMAIN itm /\ itm'[req.prevCh] = c
      /\ \A j \in DOMAIN itm : j # req.prevCh => itm'[j] = itm[j]
      /\ \A j \in DOMAIN itm : itm'[j].freq = itm[j].freq
      /\ DOMAIN m_intermediateMap' =
           (IF isEmpty(c) THEN DOMAIN m_intermediateMap \ {c.freq} ELSE DOMAIN m_intermediateMap)
      /\ \A f \in DOMAIN m_intermediateMap' : m_intermediateMap'[f] = m_intermediateMap[f]
  BY <1>5, DetachPreviousMap
<1>7. itm[req.prevCh] \in ItmRec /\ dir \in Dir /\ itm[req.prevCh].freq = target.freq[dir]
  BY <1>4, <1>6, SMTT(30) DEF TypeInv, ControllerType, FiledByFreq
<1>8. /\ \A e \in Dir : c.att[e] \subseteq itm[req.prevCh].att[e]
      /\ \A e \in Dir : \A p \in itm[req.prevCh].att[e] : e # dir \/ p[1] # req.id => p \in c.att[e]
      /\ ~req.sandbox => \A p \in c.att[dir] : p[1] # req.id
  BY <1>5, <1>7, RemoveFromAtt, SMTT(30)
<1>9. isEmpty(c) => \A d \in Dir : c.att[d] = {}
  BY DEF isEmpty, Dir
<1>10. Attachments'
  <2> SUFFICES ASSUME NEW i \in DOMAIN itm', NEW d \in Dir, NEW p \in itm'[i].att[d]
               PROVE  Sits(i, d, p)'
    BY DEF Attachments
  <2>1. i \in DOMAIN itm /\ p \in itm[i].att[d] /\ itm'[i].freq = itm[i].freq
    BY <1>6, <1>8
  <2>2. Sits(i, d, p)
    BY <1>2, <2>1 DEF Placement, Attachments
  <2>3. itm[i].freq \in DOMAIN m_intermediateMap' /\ m_intermediateMap'[itm[i].freq] = i
    <3>1. itm[i].freq = target.freq[dir] => i = req.prevCh
      BY <1>4, <2>2 DEF Sits
    <3>2. isEmpty(c) => i # req.prevCh
      BY <1>6, <1>9
    <3> QED BY <1>6, <1>7, <2>2, <3>1, <3>2 DEF Sits
  <2>4. ~switched => ~Between(p[1], d)'
    <3> SUFFICES ASSUME ~switched, req.id = p[1], dir = d PROVE FALSE
      BY <1>1 DEF Between
    <3>1. m_nodeMap[req.id].freq[dir] = itm[i].freq /\ m_nodeMap[req.id].dev[dir] # 0
      BY <2>2 DEF Sits
    <3>2. i = req.prevCh
      BY <1>4, <2>2, <3>1 DEF Sits, target
    <3>3. req.sandbox
      BY <1>6, <1>8, <3>2
    <3> QED BY <1>1, <1>2, <1>4, <3>1, <3>3 DEF Placement, OneMode, Valid
  <2> QED BY <1>1, <1>3, <2>1, <2>2, <2>3, <2>4 DEF Sits
<1>11. Asked'
  <2>1. req.freq[dir] \in DOMAIN m_intermediateMap'
    BY <1>4, <1>6, <1>7
  <2> QED BY <1>1, <1>4, <1>6, <2>1 DEF Asked, Valid, target
<1>12. OneMode'
  BY <1>1, <1>2 DEF OneMode, Placement
<1>13. Tuned'
  <2>1. \A p \in tuned' : p[1] \in DOMAIN m_nodeMap' /\ p[2] \in Dir
    BY <1>1, <1>2 DEF Placement, Tuned
  <2>2. ASSUME ~sandbox_enabled, ~switched, NEW p \in tuned
        PROVE  Between(p[1], p[2])' \/ OnChannel(p[1], p[2])'
    <3> SUFFICES ASSUME p[1] # req.id \/ p[2] # dir PROVE OnChannel(p[1], p[2])'
      BY <1>1 DEF Between
    <3>1. OnChannel(p[1], p[2]) /\ p[2] \in Dir
      BY <1>1, <1>2, <1>3, <2>2 DEF Placement, Tuned, Between
    <3>2. PICK g : g = m_nodeMap[p[1]].freq[p[2]]
      OBVIOUS
    <3>3. PICK i : i = m_intermediateMap[g]
      OBVIOUS
    <3>4. g \in DOMAIN m_intermediateMap /\ i \in DOMAIN itm /\ p[1] \in Ids(itm[i], p[2])
      BY <3>1, <3>2, <3>3 DEF OnChannel, TypeInv, ControllerType
    <3>5. PICK q \in itm[i].att[p[2]] : q[1] = p[1]
      BY <3>4 DEF Ids
    <3>6. q \in itm'[i].att[p[2]]
      BY <1>6, <1>8, <3>1, <3>4, <3>5
    <3>7. g = target.freq[dir] => i = req.prevCh
      BY <1>4, <3>3
    <3>8. g \in DOMAIN m_intermediateMap' /\ m_intermediateMap'[g] = i
      BY <1>6, <1>7, <1>9, <3>1, <3>3, <3>4, <3>6, <3>7
    <3> QED BY <1>1, <3>2, <3>5, <3>6, <3>8 DEF OnChannel, Ids
  <2> QED BY <1>1, <2>1, <2>2 DEF Tuned
<1> QED BY <1>10, <1>11, <1>12, <1>13 DEF Placement

LEMMA AttachNewPlaced ==
  ASSUME TypeInv, Serial, Placed, AttachNew, ~overlap'
  PROVE  Placement'
<1>1. /\ ~overlap /\ pc = "attach" /\ pc' \in {"lookup", "idle"} /\ t_pc = "sleep" /\ Valid
      /\ pc' = "lookup" => req'.id = req.id
      /\ UNCHANGED <<m_intermediateMap, t_pc, t_id, overlap, switched, sandbox_enabled>>
      /\ tuned' = tuned \cup {<<req.id, dir>>}
  BY DEF AttachNew, Return, modeVars, tmoVars, Serial, TypeInv, ControllerType, RequestShape
<1>2. Placement
  BY <1>1 DEF Placed
<1>3. \A n : ~Leaving(n) /\ ~Leaving(n)' /\ \A d : ~Between(n, d)'
  BY <1>1 DEF Leaving, Between
<1>4. /\ req.freq[dir] \in DOMAIN m_intermediateMap /\ m_intermediateMap[req.freq[dir]] = req.ch
      /\ ~req.sandbox => m_nodeMap[req.id].dev[dir] # 0
      /\ ~switched => req.sandbox = sandbox_enabled
  BY <1>1, <1>2 DEF Placement, Asked, target
<1>5. PICK c : c = AddTo(itm[req.ch], dir, req.id, target.dev[dir])
  OBVIOUS
<1>6. /\ req.ch \in DOMAIN itm
      /\ DOMAIN itm' = DOMAIN itm /\ itm'[req.ch] = c
      /\ \A j \in DOMAIN itm : j # req.ch => itm'[j] = itm[j]
      /\ \A j \in DOMAIN itm : itm'[j].freq = itm[j].freq
      /\ DOMAIN m_nodeMap' = DOMAIN m_nodeMap
  BY <1>5, AttachNewMap
<1>7. /\ itm[req.ch] \in ItmRec /\ dir \in Dir /\ itm[req.ch].freq = req.freq[dir]
      /\ req.id \in Node /\ target.dev[dir] \in Nat
  BY <1>1, <1>4, <1>6, SMTT(30) DEF TypeInv, ControllerType, FiledByFreq, Busy, Valid, target, NodeRec
<1>8. /\ \A e \in Dir : itm[req.ch].att[e] \subseteq c.att[e]
      /\ \A e \in Dir : \A p \in c.att[e] :
             p \in itm[req.ch].att[e] \/ (p = <<req.id, target.dev[dir]>> /\ e = dir /\ ~req.sandbox)
      /\ ~req.sandbox => req.id \in Ids(c, dir)
  BY <1>5, <1>7, AddToAtt, SMTT(30)
<1>9. Attachments'
  <2> SUFFICES ASSUME NEW i \in DOMAIN itm', NEW d \in Dir, NEW p \in itm'[i].att[d]
               PROVE  Sits(i, d, p)'
    BY DEF Attachments
  <2>1. CASE p \in itm[i].att[d]
    <3>1. Sits(i, d, p)
      BY <1>2, <1>6, <2>1 DEF Placement, Attachments
    <3>2. ~switched => p[1] # req.id \/ d # dir
      BY <1>1, <3>1 DEF Sits, Between
    <3>3. /\ p[1] \in DOMAIN m_nodeMap' /\ m_nodeMap'[p[1]].dev[d] = p[2]
          /\ ~switched => m_nodeMap'[p[1]].freq[d] = itm[i].freq
      BY <1>6, <3>1, <3>2, AttachNewNode DEF Sits
    <3> QED BY <1>1, <1>3, <1>6, <3>1, <3>3 DEF Sits
  <2>2. CASE p \notin itm[i].att[d]
    <3>1. i = req.ch /\ p = <<req.id, target.dev[dir]>> /\ d = dir /\ ~req.sandbox
      BY <1>6, <1>8, <2>2
    <3>2. p[1] = req.id /\ p[2] = m_nodeMap[req.id].dev[dir]
      BY <3>1 DEF target
    <3>3. /\ p[1] \in DOMAIN m_nodeMap' /\ p[2] # 0 /\ m_nodeMap'[p[1]].dev[d] = p[2]
          /\ m_nodeMap'[p[1]].freq[d] = req.freq[dir]
      BY <1>1, <1>4, <1>6, <3>1, <3>2, AttachNewNode DEF Valid
    <3>4. itm'[i].freq = req.freq[dir]
      BY <1>6, <1>7, <3>1
    <3> QED BY <1>1, <1>3, <1>4, <3>1, <3>3, <3>4 DEF Sits
  <2> QED BY <2>1, <2>2
<1>10. Asked'
  BY <1>1, <1>6 DEF Asked, Valid
<1>11. OneMode'
  BY <1>1, <1>2, <1>6, AttachNewNode, SMTT(30) DEF OneMode, Placement
<1>12. Tuned'
  <2>1. \A p \in tuned' : p[1] \in DOMAIN m_nodeMap' /\ p[2] \in Dir
    BY <1>1, <1>2, <1>6, <1>7, SMTT(30) DEF Placement, Tuned, Valid
  <2>2. ASSUME ~sandbox_enabled, ~switched, NEW p \in tuned' PROVE OnChannel(p[1], p[2])'
    <3>1. CASE p[1] = req.id /\ p[2] = dir
      <4>1. m_nodeMap'[p[1]].freq[p[2]] = req.freq[dir] /\ req.id \in Ids(itm'[req.ch], dir)
        BY <1>4, <1>6, <1>8, <2>2, <3>1, AttachNewNode
      <4> QED BY <1>1, <1>4, <3>1, <4>1 DEF OnChannel, Ids
    <3>2. CASE p[1] # req.id \/ p[2] # dir
      <4>1. p \in tuned
        BY <1>1, <2>2, <3>2, SMTT(30)
      <4>2. OnChannel(p[1], p[2]) /\ p[1] \in DOMAIN m_nodeMap /\ p[2] \in Dir
        BY <1>1, <1>2, <1>3, <2>2, <3>2, <4>1 DEF Placement, Tuned, Between
      <4>3. PICK g : g = m_nodeMap[p[1]].freq[p[2]]
        OBVIOUS
      <4>4. m_nodeMap'[p[1]].freq[p[2]] = g
        BY <3>2, <4>2, <4>3, AttachNewNode
      <4>5. PICK i : i = m_intermediateMap[g]
        OBVIOUS
      <4>6. g \in DOMAIN m_intermediateMap /\ i \in DOMAIN itm /\ p[1] \in Ids(itm[i], p[2])
        BY <4>2, <4>3, <4>5 DEF OnChannel, TypeInv, ControllerType
      <4>7. itm[i].att[p[2]] \subseteq itm'[i].att[p[2]]
        BY <1>6, <1>8, <4>2, <4>6
      <4>8. p[1] \in Ids(itm'[i], p[2])
        BY <4>6, <4>7 DEF Ids
      <4> QED BY <1>1, <4>4, <4>5, <4>6, <4>8 DEF OnChannel, Ids
    <3> QED BY <3>1, <3>2
  <2> QED BY <1>1, <2>1, <2>2 DEF Tuned
<1> QED BY <1>9, <1>10, <1>11, <1>12 DEF Placement

\* Disconnect and CheckTimeouts: every attachment of the node is in the map, so
\* the loop over the map reaches it.
LEMMA RemovePlaced ==
  ASSUME TypeInv, Serial, Placed, ~overlap', NEW id \in Node, Disconnect(id) \/ CheckTimeouts(id)
  PROVE  Placement'
<1>1. /\ ~overlap /\ pc = "idle" /\ t_pc = "sleep" /\ id \in DOMAIN m_nodeMap
      /\ UNCHANGED <<m_nodeMap, m_intermediateMap, switched, sandbox_enabled, tuned>>
      /\ itm' = DetachedAll(id)
  BY DEF Disconnect, CheckTimeouts, Begin, modeVars, TypeInv, ControllerType
<1>2. \/ pc' = "sweep" /\ req'.id = id /\ t_pc' = "sleep"
      \/ pc' = "idle" /\ t_pc' = "sweep" /\ t_id' = id
  BY <1>1 DEF Disconnect, CheckTimeouts, NoRequest, tmoVars, ctlVars
<1>3. Placement
  BY <1>1 DEF Placed
<1>4. \A n : /\ ~Leaving(n) /\ (Leaving(n)' <=> n = id)
             /\ \A d : ~Between(n, d) /\ ~Between(n, d)'
  BY <1>1, <1>2 DEF Leaving, Between
<1>5. /\ DOMAIN itm' = DOMAIN itm
      /\ \A i \in DOMAIN itm : itm'[i].freq = itm[i].freq
  BY <1>1, DetachedAllRec
<1>6. \A i \in DOMAIN itm : \A d \in Dir :
        /\ itm'[i].att[d] \subseteq itm[i].att[d]
        /\ \A p \in itm[i].att[d] : p[1] # id => p \in itm'[i].att[d]
        /\ i \in Range(m_intermediateMap) /\ m_nodeMap[id].dev[d] # 0 =>
             \A p \in itm'[i].att[d] : p[1] # id
  <2> TAKE i \in DOMAIN itm
  <2> TAKE d \in Dir
  <2> QED BY <1>1, DetachedAllAtt
<1>7. Attachments'
  <2> SUFFICES ASSUME NEW i \in DOMAIN itm', NEW d \in Dir, NEW p \in itm'[i].att[d]
               PROVE  Sits(i, d, p)'
    BY DEF Attachments
  <2>1. Sits(i, d, p)
    BY <1>3, <1>5, <1>6 DEF Placement, Attachments
  <2>2. i \in Range(m_intermediateMap)
    BY <2>1 DEF Sits, Range
  <2>3. p[1] # id
    <3> SUFFICES ASSUME p[1] = id PROVE FALSE
      OBVIOUS
    <3>1. m_nodeMap[id].dev[d] # 0
      BY <2>1 DEF Sits
    <3> QED BY <1>5, <1>6, <2>2, <3>1
  <2> QED BY <1>1, <1>4, <1>5, <2>1, <2>3 DEF Sits
<1>8. Asked'
  BY <1>1, <1>2 DEF Asked, Valid
<1>9. OneMode'
  BY <1>1, <1>3 DEF OneMode, Placement
<1>10. Tuned'
  <2>1. \A p \in tuned' : p[1] \in DOMAIN m_nodeMap' /\ p[2] \in Dir
    BY <1>1, <1>3 DEF Placement, Tuned
  <2>2. ASSUME ~sandbox_enabled, ~switched, NEW p \in tuned, p[1] # id PROVE OnChannel(p[1], p[2])'
    <3>1. OnChannel(p[1], p[2]) /\ p[2] \in Dir
      BY <1>3, <1>4, <2>2 DEF Placement, Tuned
    <3>2. PICK g : g = m_nodeMap[p[1]].freq[p[2]]
      OBVIOUS
    <3>3. PICK i : i = m_intermediateMap[g]
      OBVIOUS
    <3>4. g \in DOMAIN m_intermediateMap /\ i \in DOMAIN itm /\ p[1] \in Ids(itm[i], p[2])
      BY <3>1, <3>2, <3>3 DEF OnChannel, TypeInv, ControllerType
    <3>5. PICK q \in itm[i].att[p[2]] : q[1] = p[1]
      BY <3>4 DEF Ids
    <3>6. q \in itm'[i].att[p[2]]
      BY <1>6, <2>2, <3>1, <3>4, <3>5
    <3> QED BY <1>1, <3>2, <3>3, <3>4, <3>5, <3>6 DEF OnChannel, Ids
  <2> QED BY <1>1, <1>4, <2>1, <2>2 DEF Tuned
<1> QED BY <1>7, <1>8, <1>9, <1>10 DEF Placement

\* Only empty Intermediates leave the map.
LEMMA SweepPlaced ==
  ASSUME TypeInv, Serial, Placed, ~overlap', DisconnectSweep \/ TimeoutSweep
  PROVE  Placement'
<1>1. /\ ~overlap /\ Sweep
      /\ UNCHANGED <<m_nodeMap, itm, dir, req, t_id, switched, sandbox_enabled, tuned>>
      /\ \/ pc = "sweep" /\ pc' = "erase" /\ t_pc = "sleep" /\ t_pc' = "sleep"
         \/ pc = "idle" /\ pc' = "idle" /\ t_pc = "sweep" /\ t_pc' = "erase"
  BY SMTT(30) DEF DisconnectSweep, TimeoutSweep, history, modeVars, tmoVars, ctlVars, Serial
<1>2. Placement
  BY <1>1 DEF Placed
<1>3. \A n : /\ Leaving(n)' <=> Leaving(n)
             /\ \A d : ~Between(n, d) /\ ~Between(n, d)'
  BY <1>1 DEF Leaving, Between
<1>4. /\ DOMAIN m_intermediateMap' = NotEmpty
      /\ \A f \in NotEmpty : m_intermediateMap'[f] = m_intermediateMap[f]
  BY <1>1, SweepMap
<1>5. ASSUME NEW f \in DOMAIN m_intermediateMap, NEW d \in Dir, NEW p,
             p \in itm[m_intermediateMap[f]].att[d]
      PROVE  f \in NotEmpty
  BY <1>5 DEF NotEmpty, isEmpty, Dir
<1>6. Attachments'
  <2> SUFFICES ASSUME NEW i \in DOMAIN itm, NEW d \in Dir, NEW p \in itm[i].att[d]
               PROVE  Sits(i, d, p)'
    BY <1>1 DEF Attachments
  <2>1. Sits(i, d, p)
    BY <1>2 DEF Placement, Attachments
  <2>2. itm[i].freq \in NotEmpty
    BY <1>5, <2>1 DEF Sits
  <2> QED BY <1>1, <1>3, <1>4, <2>1, <2>2 DEF Sits
<1>7. Asked'
  BY <1>1, <1>2 DEF Asked, Valid, Placement
<1>8. OneMode'
  BY <1>1, <1>2 DEF OneMode, Placement
<1>9. Tuned'
  <2>1. ASSUME NEW p \in tuned, OnChannel(p[1], p[2]) PROVE OnChannel(p[1], p[2])'
    <3>1. PICK g : g = m_nodeMap[p[1]].freq[p[2]]
      OBVIOUS
    <3>2. g \in DOMAIN m_intermediateMap /\ p[1] \in Ids(itm[m_intermediateMap[g]], p[2]) /\ p[2] \in Dir
      BY <1>2, <2>1, <3>1 DEF OnChannel, Placement, Tuned
    <3>3. g \in NotEmpty
      BY <1>5, <3>2 DEF Ids
    <3> QED BY <1>1, <1>4, <3>1, <3>2, <3>3 DEF OnChannel, Ids
  <2> QED BY <1>1, <1>2, <1>3, <2>1 DEF Tuned, Placement
<1> QED BY <1>6, <1>7, <1>8, <1>9 DEF Placement

\* The erased node has no attachment left.
LEMMA ErasePlaced ==
  ASSUME TypeInv, Serial, Placed, ~overlap', DisconnectErase \/ TimeoutErase
  PROVE  Placement'
<1>1. PICK id : /\ id \in DOMAIN m_nodeMap /\ Leaving(id)
                /\ m_nodeMap' = Restrict(m_nodeMap, DOMAIN m_nodeMap \ {id})
                /\ tuned' = {p \in tuned : p[1] # id}
                /\ \A n : Leaving(n) => n = id
  <2>1. CASE DisconnectErase
    <3>1. t_pc = "sleep"
      BY <2>1 DEF DisconnectErase, Serial, modeVars
    <3> QED BY <2>1, <3>1 DEF DisconnectErase, Valid, Leaving
  <2>2. CASE TimeoutErase
    <3>1. pc = "idle"
      BY <2>2 DEF TimeoutErase, Serial, modeVars
    <3> QED BY <2>2, <3>1 DEF TimeoutErase, Leaving
  <2> QED BY <2>1, <2>2
<1>2. /\ ~overlap /\ pc' = "idle" /\ t_pc' = "sleep" /\ pc # "attach"
      /\ UNCHANGED <<m_intermediateMap, itm, switched, sandbox_enabled>>
  BY SMTT(30) DEF DisconnectErase, TimeoutErase, modeVars, tmoVars, ctlVars, Serial
<1>3. Placement
  BY <1>2 DEF Placed
<1>4. \A n : ~Leaving(n)' /\ \A d : ~Between(n, d) /\ ~Between(n, d)'
  BY <1>2 DEF Leaving, Between
<1>5. /\ DOMAIN m_nodeMap' = DOMAIN m_nodeMap \ {id}
      /\ \A n \in DOMAIN m_nodeMap \ {id} : m_nodeMap'[n] = m_nodeMap[n]
  BY <1>1, NodesRestrict
<1>6. Attachments'
  <2> SUFFICES ASSUME NEW i \in DOMAIN itm, NEW d \in Dir, NEW p \in itm[i].att[d]
               PROVE  Sits(i, d, p)'
    BY <1>2 DEF Attachments
  <2>1. Sits(i, d, p)
    BY <1>3 DEF Placement, Attachments
  <2>2. p[1] \in DOMAIN m_nodeMap \ {id}
    BY <1>1, <2>1 DEF Sits
  <2> QED BY <1>2, <1>4, <1>5, <2>1, <2>2 DEF Sits
<1>7. Asked'
  BY <1>2 DEF Asked
<1>8. OneMode'
  BY <1>2, <1>3, <1>5 DEF OneMode, Placement
<1>9. Tuned'
  <2>1. ASSUME NEW p \in tuned, p[1] # id
        PROVE  /\ p[1] \in DOMAIN m_nodeMap \ {id} /\ p[2] \in Dir
               /\ ~sandbox_enabled /\ ~switched => OnChannel(p[1], p[2])
    BY <1>1, <1>3, <1>4, <2>1 DEF Tuned, Placement
  <2>2. ASSUME NEW p \in tuned, p[1] # id, OnChannel(p[1], p[2]) PROVE OnChannel(p[1], p[2])'
    <3>1. m_nodeMap'[p[1]] = m_nodeMap[p[1]]
      BY <1>5, <2>1, <2>2
    <3> QED BY <1>2, <2>2, <3>1 DEF OnChannel, Ids
  <2> QED BY <1>1, <1>2, <1>5, <2>1, <2>2 DEF Tuned
<1> QED BY <1>6, <1>7, <1>8, <1>9 DEF Placement

\* A step that moves nobody: the channels stay, and so do the frequencies and
\* the devices of the nodes.
LEMMA CalmPlaced ==
  ASSUME TypeInv, Placement, UNCHANGED <<itm, m_intermediateMap, switched, sandbox_enabled, tuned>>,
         DOMAIN m_nodeMap \subseteq DOMAIN m_nodeMap',
         \A n \in DOMAIN m_nodeMap : /\ m_nodeMap'[n].freq = m_nodeMap[n].freq
                                     /\ m_nodeMap'[n].dev = m_nodeMap[n].dev,
         \A n : (Leaving(n)' <=> Leaving(n)) /\ \A d : Between(n, d)' <=> Between(n, d)
  PROVE  Attachments' /\ Tuned'
<1>1. Attachments'
  <2> SUFFICES ASSUME NEW i \in DOMAIN itm, NEW d \in Dir, NEW p \in itm[i].att[d]
               PROVE  Sits(i, d, p)'
    BY DEF Attachments
  <2>1. Sits(i, d, p)
    BY DEF Placement, Attachments
  <2> QED BY <2>1 DEF Sits
<1>2. ASSUME NEW p \in tuned, OnChannel(p[1], p[2]) PROVE OnChannel(p[1], p[2])'
  <2>1. m_nodeMap'[p[1]].freq = m_nodeMap[p[1]].freq
    BY DEF Placement, Tuned
  <2> QED BY <1>2, <2>1 DEF OnChannel, Ids
<1>3. Tuned'
  BY <1>2 DEF Placement, Tuned
<1> QED BY <1>1, <1>3

LEMMA RegisterPlaced ==
  ASSUME TypeInv, Serial, Placed, ~overlap', NEW id \in Node, NEW f \in Tuning, Register(id, f)
  PROVE  Placement'
<1>1. /\ ~overlap /\ pc = "idle" /\ t_pc = "sleep" /\ pc' = "lookup" /\ t_pc' = "sleep"
      /\ req'.id = id
      /\ UNCHANGED <<itm, m_intermediateMap, switched, sandbox_enabled, tuned>>
  BY DEF Register, Begin, modeVars, tmoVars, TypeInv, ControllerType
<1>2. Placement
  BY <1>1 DEF Placed
<1>3. /\ DOMAIN m_nodeMap' = DOMAIN m_nodeMap \cup {id}
      /\ \A n \in DOMAIN m_nodeMap : m_nodeMap'[n] = m_nodeMap[n]
      /\ id \notin DOMAIN m_nodeMap => \A d \in Dir : m_nodeMap'[id].dev[d] = 0
  BY DEF Register, GetOrCreateNode
<1>4. \A n : (Leaving(n)' <=> Leaving(n)) /\ \A d : Between(n, d)' <=> Between(n, d)
  BY <1>1 DEF Leaving, Between
<1>5. Attachments' /\ Tuned'
  BY <1>1, <1>2, <1>3, <1>4, CalmPlaced
<1>6. Asked'
  BY <1>1, <1>3 DEF Asked, Valid
<1>7. OneMode'
  BY <1>1, <1>2, <1>3 DEF OneMode, Placement
<1> QED BY <1>5, <1>6, <1>7 DEF Placement

\* Time and heartbeats change only ages.
LEMMA AgePlaced ==
  ASSUME TypeInv, Serial, Placed, ~overlap', Tick \/ \E id \in Node : Heartbeat(id)
  PROVE  Placement'
<1>1. /\ ~overlap
      /\ UNCHANGED <<itm, m_intermediateMap, pc, dir, req, t_pc, t_id, switched, sandbox_enabled, tuned>>
  BY DEF Tick, Heartbeat, Begin, history, modeVars, tmoVars, ctlVars, TypeInv, ControllerType
<1>2. Placement
  BY <1>1 DEF Placed
<1>3. /\ DOMAIN m_nodeMap' = DOMAIN m_nodeMap
      /\ \A n \in DOMAIN m_nodeMap : /\ m_nodeMap'[n].freq = m_nodeMap[n].freq
                                     /\ m_nodeMap'[n].dev = m_nodeMap[n].dev
  BY TickNodes, HeartbeatNodes
<1>4. \A n : (Leaving(n)' <=> Leaving(n)) /\ \A d : Between(n, d)' <=> Between(n, d)
  BY <1>1 DEF Leaving, Between
<1>5. Attachments' /\ Tuned'
  BY <1>1, <1>2, <1>3, <1>4, CalmPlaced
<1>6. Asked'
  BY <1>1, <1>2, <1>3 DEF Asked, Valid, target, Placement
<1>7. OneMode'
  BY <1>1, <1>2, <1>3 DEF OneMode, Placement
<1> QED BY <1>5, <1>6, <1>7 DEF Placement

\* A switch under registered nodes is recorded; without any there is nobody to place.
LEMMA SwitchPlaced ==
  ASSUME TypeInv, Serial, Placed, ~overlap', SwitchSandbox
  PROVE  Placement'
<1>1. /\ ~overlap /\ UNCHANGED <<m_nodeMap, itm, m_intermediateMap, pc, dir, req, t_pc, t_id, tuned>>
      /\ switched => switched'
      /\ ~switched' => DOMAIN m_nodeMap = {}
  BY DEF SwitchSandbox, tmoVars, ctlVars
<1>2. Placement
  BY <1>1 DEF Placed
<1>3. \A n : (Leaving(n)' <=> Leaving(n)) /\ \A d : Between(n, d)' <=> Between(n, d)
  BY <1>1 DEF Leaving, Between
<1>4. Attachments'
  <2> SUFFICES ASSUME NEW i \in DOMAIN itm, NEW d \in Dir, NEW p \in itm[i].att[d]
               PROVE  Sits(i, d, p)'
    BY <1>1 DEF Attachments
  <2>1. Sits(i, d, p)
    BY <1>2 DEF Placement, Attachments
  <2> QED BY <1>1, <1>3, <2>1 DEF Sits
<1>5. Asked'
  BY <1>1, <1>2 DEF Asked, Valid, target, Placement
<1>6. OneMode'
  BY <1>1 DEF OneMode
<1>7. Tuned'
  BY <1>1, <1>2 DEF Tuned, Placement
<1> QED BY <1>4, <1>5, <1>6, <1>7 DEF Placement

LEMMA PlacedStep ==
  ASSUME TypeInv, Serial, Placed, [Next]_vars
  PROVE  Placed'
<1> SUFFICES ASSUME ~overlap' PROVE Placement'
  BY DEF Placed
<1>1. CASE UNCHANGED vars
  <2>1. UNCHANGED <<m_nodeMap, itm, m_intermediateMap, pc, dir, req, t_pc, t_id, overlap, switched,
                    sandbox_enabled, tuned>>
    BY <1>1 DEF vars, ctlVars, tmoVars, modeVars
  <2>2. Placement
    BY <2>1 DEF Placed
  <2>3. \A n : (Leaving(n)' <=> Leaving(n)) /\ \A d : Between(n, d)' <=> Between(n, d)
    BY <2>1 DEF Leaving, Between
  <2>4. Attachments' /\ Tuned'
    BY <2>1, <2>2, <2>3, CalmPlaced
  <2>5. Asked'
    BY <2>1, <2>2 DEF Asked, Valid, target, Placement
  <2>6. OneMode'
    BY <2>1, <2>2 DEF OneMode, Placement
  <2> QED BY <2>4, <2>5, <2>6 DEF Placement
<1>2. CASE Next /\ UseErased
  <2>1. ~overlap /\ pc # "undefined"
    BY <1>2, SMTT(30) DEF Next, UseErased, history
  <2> QED BY <1>2, <2>1 DEF UseErased, Serial, Placed, Placement, Asked
<1>3. CASE Next
  <2>1. CASE \E id \in Node : \/ \E f \in Tuning : Register(id, f)
                            \/ Disconnect(id) \/ CheckTimeouts(id)
    BY <2>1, RegisterPlaced, RemovePlaced
  <2> QED
    BY <1>2, <1>3, <2>1, LookupPlaced, DetachPreviousPlaced, AttachNewPlaced,
       SweepPlaced, ErasePlaced, AgePlaced, SwitchPlaced DEF Next, AssignULChannel, AssignDLChannel
<1> QED BY <1>1, <1>3

LEMMA PlacedAlways == Spec => [](TypeInv /\ Serial /\ Placed)
<1>1. Init => TypeInv /\ Serial /\ Placed
  <2> SUFFICES ASSUME Init PROVE Placed
    BY InitType DEF Init, Serial
  <2>1. /\ DOMAIN itm = {} /\ DOMAIN m_nodeMap = {} /\ tuned = {} /\ pc = "idle"
    BY SMTT(30) DEF Init
  <2> QED BY <2>1 DEF Placed, Placement, Attachments, Asked, OneMode, Tuned
<1>2. TypeInv /\ Serial /\ Placed /\ [Next]_vars => TypeInv' /\ Serial' /\ Placed'
  BY TypeStep, SerialStep, PlacedStep
<1> QED BY <1>1, <1>2, PTL DEF Spec

\* For any nodes, tunings, requests and mode switches: between requests a device
\* is attached only while its node is registered, only to an Intermediate the map
\* has for its frequency, and only on the frequency its node is tuned to, unless
\* the sandbox mode was switched under registered nodes.
THEOREM StaysWhereTuned == Spec => []AttachedWhereTuned
<1>1. TypeInv /\ Serial /\ Placed => AttachedWhereTuned
  <2> SUFFICES ASSUME Placed, Quiet, NEW i \in DOMAIN itm, NEW d \in Dir, NEW p \in itm[i].att[d]
               PROVE  /\ p[1] \in DOMAIN m_nodeMap
                      /\ m_nodeMap[p[1]].dev[d] = p[2]
                      /\ itm[i].freq \in DOMAIN m_intermediateMap
                      /\ m_intermediateMap[itm[i].freq] = i
                      /\ m_nodeMap[p[1]].freq[d] = itm[i].freq \/ switched
    BY DEF AttachedWhereTuned
  <2>1. Sits(i, d, p)
    BY DEF Quiet, Placed, Placement, Attachments
  <2> QED BY <2>1 DEF Sits
<1> QED BY <1>1, PlacedAlways, PTL

\* docs/chem.md: an Intermediate has all the sources and destinations tuned to
\* its frequency.  For any nodes and any requests of the others, a device that a
\* retune put on a channel is on the channel of its node's frequency until its
\* node is retuned or removed.
THEOREM StaysTuned == Spec => []TunedAttached
<1>1. TypeInv /\ Serial /\ Placed => TunedAttached
  <2> SUFFICES ASSUME Placed, Quiet, ~sandbox_enabled, ~switched, NEW p \in tuned
               PROVE  OnChannel(p[1], p[2])
    BY DEF TunedAttached, OnChannel
  <2>1. ~Leaving(p[1]) /\ ~Between(p[1], p[2])
    BY DEF Quiet, Leaving, Between
  <2> QED BY <2>1 DEF Quiet, Placed, Placement, Tuned
<1> QED BY <1>1, PlacedAlways, PTL

=============================================================================
