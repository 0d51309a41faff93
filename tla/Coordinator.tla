----------------------------- MODULE Coordinator -----------------------------
(***************************************************************************)
(* The settings of channels and who changes them: the Coordinator's        *)
(* requests (path-loss model, defaults, shadowing, Doppler), the thread    *)
(* that copies node positions into the channels, and the Controller, which *)
(* creates and erases frequency channels and their links meanwhile.        *)
(*                                                                         *)
(* A critical section of an Intermediate's dest_mutex is one step; its     *)
(* members m_propagationModel, grReflection and the parameters of the      *)
(* models are assigned outside of it, and are steps of their own.  A       *)
(* parameter that is a string or several numbers is torn while it is being *)
(* written.  Every parameter has the built-in value 0 or another one.      *)
(***************************************************************************)
EXTENDS Integers, FiniteSets

CONSTANTS
    Freq,       \* frequencies, ordered as the keys of m_intermediateMap
    Node,
    Link,       \* pairs of nodes a channel may be created for
    Value,      \* values of a parameter; 0 is the built-in one
    Setting,    \* the models, with their parameter, requests ask for
    Deviation,  \* shadowing deviations requests ask for; the built-in one is 0
    Torn,       \* what a reader may find in a parameter while it is written
    Position,
    NoLocation, \* getLocation has no value, or the node is not in m_nodeMap
    MaxCmd,     \* bound: requests
    MaxInput    \* bound: requests, Controller calls and position changes

Model == {"FREE_SPACE", "TWO_RAY", "3GPP", "HATA", "ITM", "NONE", "UNKNOWN"}
Kind == {"coeff", "scenario", "env", "itm"}
ChannelKind == Kind \ {"coeff"}     \* the ones each Channel keeps a copy of

ASSUME CoordinatorAssumption ==
    /\ Freq \subseteq Nat \ {0} /\ IsFiniteSet(Freq)
    /\ Link \subseteq Node \X Node /\ Setting \subseteq Model \X Value
    /\ 0 \in Value /\ Torn \notin Value /\ NoLocation \notin Position
    /\ MaxCmd \in Nat /\ MaxInput \in Nat

VARIABLES
    m_propagationDefaults,  \* [model, par]
    m_intermediateMap,      \* frequency -> Intermediate
    shadow_std, shadow_std_by_freq,
    location,               \* Node::getLocation of every node
    rq,                     \* the request being handled, one at a time
    ctl,                    \* the Controller inside CreateChannel
    upd,                    \* frequency the update thread visits next; 0 asleep
    chosen,                 \* history: CHG_PL of a frequency since the last default
    overlap,                \* history: CreateChannel ran during a SET_DEFAULT_PL
    cmds, inputs

vars == <<m_propagationDefaults, m_intermediateMap, shadow_std, shadow_std_by_freq, location,
          rq, ctl, upd, chosen, overlap, cmds, inputs>>
shadows == <<shadow_std, shadow_std_by_freq>>
history == <<chosen, overlap>>

-----------------------------------------------------------------------------
(* Channels and Intermediates *)

\* The parameter a model reads, if it has one.
Uses(m) == CASE m = "TWO_RAY" -> "coeff" [] m = "3GPP" -> "scenario" [] m = "HATA" -> "env"
             [] m = "ITM" -> "itm" [] OTHER -> "none"

\* currentPlType, and the same switch in setPathLossMode.
currentPlType(m) == IF m \in {"NONE", "UNKNOWN"} THEN "FREE_SPACE" ELSE m

Chans(f) == m_intermediateMap[f].ch

\* What computePathLoss of a link depends on, apart from shadowing and distance.
computePathLoss(f, l) ==
    LET i == m_intermediateMap[f]
        k == Uses(i.model)
    IN  <<i.model, IF k = "coeff" THEN i.par[k] ELSE IF k = "none" THEN 0 ELSE i.ch[l].par[k]>>

Asked(m, v) == <<m, IF Uses(m) = "none" THEN 0 ELSE v>>

\* Mutant: a new channel keeps the constructor's scenario.
NewChannel_NoScenario(i) ==
    [plType |-> currentPlType(i.model),
     par |-> [k \in ChannelKind |-> IF k = "scenario" THEN 0 ELSE i.par[k]],
     shadow |-> 0, doppler |-> FALSE, geo |-> << >>, dopplerHz |-> << >>]

\* The channel insertChannelIfMissing makes: shadowing and Doppler are the constructor's.
NewChannel(i) ==
    [plType |-> currentPlType(i.model), par |-> [k \in ChannelKind |-> i.par[k]],
     shadow |-> 0, doppler |-> FALSE, geo |-> << >>, dopplerHz |-> << >>]

\* A range-for over the map meets key g after f; 0 is its end.
Follows(g, f) ==
    LET later == {h \in DOMAIN m_intermediateMap : h > f}
    IN  IF later = {} THEN g = 0 ELSE g \in later /\ \A h \in later : g <= h

SetChans(f, New(_)) ==
    m_intermediateMap' = [m_intermediateMap EXCEPT ![f].ch = [l \in DOMAIN @ |-> New(l)]]

-----------------------------------------------------------------------------
(* Requests.  CHG_PL applies a model to one frequency, SET_DEFAULT_PL stores *)
(* it as default and applies it to all; a parameter that is not sent is 0.   *)

Idle == [at |-> "idle"]
Request(at, m, v, f, all) == [at |-> at, mode |-> m, val |-> v, f |-> f, all |-> all]
To(at) == rq' = [rq EXCEPT !.at = at]
Input == inputs < MaxInput /\ inputs' = inputs + 1
Command == rq = Idle /\ cmds < MaxCmd /\ cmds' = cmds + 1 /\ Input
Param(m, v) == [k \in Kind |-> IF k = Uses(m) THEN v ELSE 0]
InDefault == rq.at # "idle" /\ rq.all

CHG_PL(f, m, v) ==
    /\ Command
    /\ f \in DOMAIN m_intermediateMap
    /\ rq' = Request("model", m, v, f, FALSE)
    /\ chosen' = [chosen EXCEPT ![f] = Asked(m, v)]
    /\ UNCHANGED <<m_propagationDefaults, m_intermediateMap, shadows, location, ctl, upd, overlap>>

\* An unknown model is refused.  The defaults are stored one after the other.
SET_DEFAULT_PL(m, v) ==
    /\ Command
    /\ m # "UNKNOWN"
    /\ m_propagationDefaults' = [m_propagationDefaults EXCEPT !.model = m]
    /\ rq' = Request("d_coeff", m, v, 0, TRUE)
    /\ chosen' = [f \in Freq |-> << >>]
    /\ overlap' = (overlap \/ ctl # Idle)
    /\ UNCHANGED <<m_intermediateMap, shadows, location, ctl, upd>>

StoreDefault ==
    /\ rq.at \in {"d_coeff", "d_rest"}
    /\ m_propagationDefaults' =
        [m_propagationDefaults EXCEPT !.par =
            [k \in Kind |-> IF (k = "coeff") = (rq.at = "d_coeff")
                            THEN Param(rq.mode, rq.val)[k] ELSE @[k]]]
    /\ To(IF rq.at = "d_coeff" THEN "d_rest" ELSE "next")
    /\ UNCHANGED <<m_intermediateMap, shadows, location, ctl, upd, history, cmds, inputs>>

\* updatePathLoss: the model, the type of every channel, the ground coefficient.
updatePathLoss ==
    /\ \/ /\ rq.at = "model"
          /\ m_intermediateMap' = [m_intermediateMap EXCEPT ![rq.f].model = rq.mode]
          /\ To("type")
       \/ /\ rq.at = "type"
          /\ SetChans(rq.f, LAMBDA l : [Chans(rq.f)[l] EXCEPT !.plType = currentPlType(rq.mode)])
          /\ To("coeff")
       \/ /\ rq.at = "coeff"
          /\ m_intermediateMap' = [m_intermediateMap EXCEPT
                ![rq.f].par["coeff"] = Param(rq.mode, rq.val)["coeff"]]
          /\ To(IF Uses(rq.mode) \in ChannelKind THEN "write" ELSE "next")
    /\ UNCHANGED <<m_propagationDefaults, shadows, location, ctl, upd, history, cmds, inputs>>

\* set3gppScenario, setHataEnvironment and setITMParams: the member, without
\* the mutex, then every channel under it.
SetParams ==
    LET k == Uses(rq.mode)
    IN  /\ \/ /\ rq.at = "write"
              /\ m_intermediateMap' = [m_intermediateMap EXCEPT ![rq.f].par[k] = Torn]
              /\ To("written")
           \/ /\ rq.at = "written"
              /\ m_intermediateMap' = [m_intermediateMap EXCEPT ![rq.f].par[k] = rq.val]
              /\ To("share")
           \/ /\ rq.at = "share"
              /\ SetChans(rq.f, LAMBDA l : [Chans(rq.f)[l] EXCEPT
                    !.par[k] = m_intermediateMap[rq.f].par[k]])
              /\ To("next")
        /\ UNCHANGED <<m_propagationDefaults, shadows, location, ctl, upd, history, cmds, inputs>>

\* The end of the loop body, or of the request.
NextFrequency ==
    /\ rq.at = "next"
    /\ \E g \in Freq \cup {0} :
        /\ Follows(g, rq.f)
        /\ rq' = IF rq.all /\ g # 0 THEN [rq EXCEPT !.at = "model", !.f = g] ELSE Idle
    /\ UNCHANGED <<m_propagationDefaults, m_intermediateMap, shadows, location, ctl, upd, history,
                   cmds, inputs>>

Shadowed(f, v) == SetChans(f, LAMBDA l : [Chans(f)[l] EXCEPT !.shadow = v])

UPD_SHADOW_STD_Freq(f, v) ==
    /\ Command
    /\ shadow_std_by_freq' = [shadow_std_by_freq EXCEPT ![f] = {v}]
    /\ IF f \in DOMAIN m_intermediateMap THEN Shadowed(f, v) ELSE UNCHANGED m_intermediateMap
    /\ UNCHANGED <<m_propagationDefaults, shadow_std, location, rq, ctl, upd, history>>

\* Without a frequency: setShadowingSTD visits every Intermediate.
UPD_SHADOW_STD(v) ==
    /\ Command
    /\ shadow_std' = v
    /\ \E g \in Freq \cup {0} :
        Follows(g, 0) /\ rq' = IF g = 0 THEN Idle ELSE Request("shadow", "NONE", v, g, FALSE)
    /\ UNCHANGED <<m_propagationDefaults, m_intermediateMap, shadow_std_by_freq, location, ctl, upd,
                   history>>

setShadowingSTD ==
    /\ rq.at = "shadow"
    /\ IF rq.f \in DOMAIN m_intermediateMap
       THEN Shadowed(rq.f, shadow_std) ELSE UNCHANGED m_intermediateMap
    /\ \E g \in Freq \cup {0} :
        Follows(g, rq.f) /\ rq' = IF g = 0 THEN Idle ELSE [rq EXCEPT !.f = g]
    /\ UNCHANGED <<m_propagationDefaults, shadows, location, ctl, upd, history, cmds, inputs>>

CHG_DOPPLER(f, l, enabled) ==
    /\ Command
    /\ f \in DOMAIN m_intermediateMap
    /\ l \in DOMAIN Chans(f)
    /\ Chans(f)[l].doppler # enabled
    /\ m_intermediateMap' = [m_intermediateMap EXCEPT ![f].ch[l].doppler = enabled]
    /\ UNCHANGED <<m_propagationDefaults, shadows, location, rq, ctl, upd, history>>

-----------------------------------------------------------------------------
(* The Controller *)

Call == ctl = Idle /\ Input

CreateChannel(f) ==
    /\ Call
    /\ f \notin DOMAIN m_intermediateMap
    /\ ctl' = [at |-> "coeff", f |-> f, model |-> m_propagationDefaults.model]
    /\ overlap' = (overlap \/ InDefault)
    /\ UNCHANGED <<m_propagationDefaults, m_intermediateMap, shadows, location, rq, upd, chosen,
                   cmds>>

LoadDefault ==
    /\ \/ /\ ctl.at = "coeff"
          /\ ctl' = [at |-> "scenario", f |-> ctl.f, model |-> ctl.model,
                     coeff |-> m_propagationDefaults.par["coeff"]]
       \/ /\ ctl.at = "scenario"
          /\ ctl' = [at |-> "insert", f |-> ctl.f, model |-> ctl.model, coeff |-> ctl.coeff,
                     scenario |-> m_propagationDefaults.par["scenario"]]
    /\ UNCHANGED <<m_propagationDefaults, m_intermediateMap, shadows, location, rq, upd, history,
                   cmds, inputs>>

\* Mutant: the scenario is not handed on.
NewIntermediate_NoScenario(m, coeff, scenario) ==
    [model |-> m, par |-> [k \in Kind |-> IF k = "coeff" THEN coeff ELSE 0], ch |-> << >>]

\* Free space is what the constructor sets; environment and ITM defaults are not read.
NewIntermediate(m, coeff, scenario) ==
    LET apply == m \notin {"FREE_SPACE", "UNKNOWN"}
    IN  [model |-> IF apply THEN m ELSE "FREE_SPACE",
         par |-> [k \in Kind |-> IF k = "coeff" /\ apply THEN coeff
                                 ELSE IF k = "scenario" /\ m = "3GPP" THEN scenario ELSE 0],
         ch |-> << >>]

InsertChannel ==
    /\ ctl.at = "insert"
    /\ m_intermediateMap' = [f \in DOMAIN m_intermediateMap \cup {ctl.f} |->
            IF f = ctl.f THEN NewIntermediate(ctl.model, ctl.coeff, ctl.scenario)
            ELSE m_intermediateMap[f]]
    /\ ctl' = Idle
    /\ UNCHANGED <<m_propagationDefaults, shadows, location, rq, upd, history, cmds, inputs>>

insertChannelIfMissing(f, l) ==
    /\ Call
    /\ f \in DOMAIN m_intermediateMap
    /\ l \notin DOMAIN Chans(f)
    /\ m_intermediateMap' = [m_intermediateMap EXCEPT ![f].ch =
            [k \in DOMAIN @ \cup {l} |-> IF k = l THEN NewChannel(m_intermediateMap[f]) ELSE @[k]]]
    /\ UNCHANGED <<m_propagationDefaults, shadows, location, rq, ctl, upd, history, cmds>>

removeChannel(f, n) ==
    /\ Call
    /\ f \in DOMAIN m_intermediateMap
    /\ \E l \in DOMAIN Chans(f) : n \in {l[1], l[2]}
    /\ m_intermediateMap' = [m_intermediateMap EXCEPT ![f].ch =
            [l \in {k \in DOMAIN @ : n \notin {k[1], k[2]}} |-> @[l]]]
    /\ UNCHANGED <<m_propagationDefaults, shadows, location, rq, ctl, upd, history, cmds>>

\* An Intermediate without links is erased from the map.  A request that was
\* applying a model to it goes on with the freed object, which nobody sees.
isChannelEmpty(f) ==
    /\ Call
    /\ f \in DOMAIN m_intermediateMap
    /\ Chans(f) = << >>
    /\ m_intermediateMap' = [g \in DOMAIN m_intermediateMap \ {f} |-> m_intermediateMap[g]]
    /\ chosen' = [chosen EXCEPT ![f] = << >>]
    /\ rq' = IF rq.at \in {"model", "type", "coeff", "write", "written", "share"} /\ rq.f = f
             THEN [rq EXCEPT !.at = "next"] ELSE rq
    /\ UNCHANGED <<m_propagationDefaults, shadows, location, ctl, upd, overlap, cmds>>

-----------------------------------------------------------------------------
(* Positions and the update thread *)

\* Node::setLocation, or the node leaves m_nodeMap.
setLocation(n, p) ==
    /\ Input
    /\ location[n] # p
    /\ location' = [location EXCEPT ![n] = p]
    /\ UNCHANGED <<m_propagationDefaults, m_intermediateMap, shadows, rq, ctl, upd, history, cmds>>

Located(l) == location[l[1]] # NoLocation /\ location[l[2]] # NoLocation
Geometry(l) == <<location[l[1]], location[l[2]]>>

\* The Doppler shift follows the line between two different places, else it is 0.
Doppler(l) == IF location[l[1]] = location[l[2]] THEN << >> ELSE Geometry(l)

\* Mutant: a link without positions ends the pass instead of being skipped.
Configured_Break(f, l) ==
    LET c == Chans(f)[l]
    IN  IF \A k \in DOMAIN Chans(f) : Located(k)
        THEN [c EXCEPT !.geo = Geometry(l), !.dopplerHz = IF c.doppler THEN Doppler(l) ELSE @]
        ELSE c

Configured(f, l) ==
    LET c == Chans(f)[l]
    IN  IF Located(l)
        THEN [c EXCEPT !.geo = Geometry(l), !.dopplerHz = IF c.doppler THEN Doppler(l) ELSE @]
        ELSE c

\* One Intermediate of configChannels, or the sleep between two passes.
configChannels ==
    /\ IF upd \in DOMAIN m_intermediateMap
       THEN SetChans(upd, LAMBDA l : Configured(upd, l)) ELSE UNCHANGED m_intermediateMap
    /\ \E g \in Freq \cup {0} : Follows(g, upd) /\ upd' = g
    /\ UNCHANGED <<m_propagationDefaults, shadows, location, rq, ctl, history, cmds, inputs>>

-----------------------------------------------------------------------------

Init ==
    /\ m_propagationDefaults = [model |-> "FREE_SPACE", par |-> [k \in Kind |-> 0]]
    /\ m_intermediateMap = << >>
    /\ shadow_std = 0
    /\ shadow_std_by_freq = [f \in Freq |-> {}]
    /\ location = [n \in Node |-> NoLocation]
    /\ rq = Idle /\ ctl = Idle /\ upd = 0
    /\ chosen = [f \in Freq |-> << >>] /\ overlap = FALSE
    /\ cmds = 0 /\ inputs = 0

Requests ==
    \/ \E f \in Freq, s \in Setting : CHG_PL(f, s[1], s[2])
    \/ \E s \in Setting : SET_DEFAULT_PL(s[1], s[2])
    \/ StoreDefault \/ updatePathLoss \/ SetParams \/ NextFrequency
    \/ \E f \in Freq, v \in Deviation : UPD_SHADOW_STD_Freq(f, v)
    \/ \E v \in Deviation : UPD_SHADOW_STD(v)
    \/ setShadowingSTD
    \/ \E f \in Freq, l \in Link, e \in BOOLEAN : CHG_DOPPLER(f, l, e)

Controller ==
    \/ \E f \in Freq : CreateChannel(f) \/ isChannelEmpty(f)
    \/ LoadDefault \/ InsertChannel
    \/ \E f \in Freq, l \in Link : insertChannelIfMissing(f, l)
    \/ \E f \in Freq, n \in Node : removeChannel(f, n)

Next ==
    \/ Requests
    \/ Controller
    \/ \E n \in Node, p \in Position \cup {NoLocation} : setLocation(n, p)
    \/ configChannels

Spec == Init /\ [][Next]_vars

\* updateChannels runs for as long as the program does.
FairSpec == Spec /\ WF_vars(configChannels)

-----------------------------------------------------------------------------
(* Properties *)

\* setPathLossMode and the setters of parameters assign the member before they
\* take dest_mutex and visit the channels, and insertChannelIfMissing copies the
\* members under it: whenever no request is at work on a frequency, its channels
\* agree with it, whatever was inserted meanwhile, and nothing torn is left.  Their
\* shadowing is the built-in one, or one GET_SHADOW_STD can report.
LinksAgree ==
    \A f \in DOMAIN m_intermediateMap : (rq = Idle \/ rq.f # f) =>
        \A l \in DOMAIN Chans(f) :
            /\ Chans(f)[l].plType = currentPlType(m_intermediateMap[f].model)
            /\ \A k \in ChannelKind :
                Chans(f)[l].par[k] = m_intermediateMap[f].par[k] /\ Chans(f)[l].par[k] # Torn
            /\ rq = Idle => Chans(f)[l].shadow \in {0, shadow_std} \cup shadow_std_by_freq[f]

\* What a link should lose: as CHG_PL chose for its frequency, else the default.
Expected(f) ==
    IF chosen[f] # << >> THEN chosen[f]
    ELSE Asked(m_propagationDefaults.model,
               IF Uses(m_propagationDefaults.model) = "none" THEN 0
               ELSE m_propagationDefaults.par[Uses(m_propagationDefaults.model)])

\* "The default model is applied to all existing and future intermediates"
\* (docs/channel-models.md:411), and CHG_PL to one of them: the loss of a link is
\* computed as was asked.  Both exceptions are the code's: a CreateChannel that
\* overlaps a SET_DEFAULT_PL reads a mixture and inserts after the loop, and
\* CreateChannel ignores the default's Hata environment and ITM parameters.
LossAsAsked ==
    (rq = Idle /\ ~overlap) =>
        \A f \in DOMAIN m_intermediateMap :
            (chosen[f] # << >> \/ m_propagationDefaults.model \notin {"HATA", "ITM"}) =>
                \A l \in DOMAIN Chans(f) : computePathLoss(f, l) = Expected(f)

Linked(f, l) == f \in DOMAIN m_intermediateMap /\ l \in DOMAIN Chans(f)
DopplerOn(f, l) == Linked(f, l) /\ Chans(f)[l].doppler

\* configChannels: a link whose ends have positions gets their distance and
\* angles, and with Doppler enabled their shift, once the nodes stand still,
\* whatever other links on its frequency lack.
GeometrySettles ==
    \A f \in Freq, l \in Link :
        /\ <>[](Linked(f, l) /\ Located(l)) =>
                <>[](Linked(f, l) => Chans(f)[l].geo = Geometry(l))
        /\ <>[](DopplerOn(f, l) /\ Located(l)) =>
                <>[](Linked(f, l) => Chans(f)[l].dopplerHz = Doppler(l))

=============================================================================
