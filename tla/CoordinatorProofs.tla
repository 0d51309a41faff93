------------------------- MODULE CoordinatorProofs -------------------------
(***************************************************************************)
(* For any frequencies, nodes, links, parameters and numbers of requests:  *)
(* the channels of a frequency agree with it whenever no request is at     *)
(* work on it, and what a link loses is what was asked for it.             *)
(***************************************************************************)
EXTENDS Coordinator, TLAPS

-----------------------------------------------------------------------------
(* Types *)

AnyValue == Value \cup {Torn}

\* A channel, whatever its geometry is.
IsChannel(c) ==
    /\ c = [plType |-> c.plType, par |-> c.par, shadow |-> c.shadow, doppler |-> c.doppler,
            geo |-> c.geo, dopplerHz |-> c.dopplerHz]
    /\ c.par \in [ChannelKind -> AnyValue]

Inter(m, p, c) == [model |-> m, par |-> p, ch |-> c]

IsIntermediate(i) ==
    /\ i = Inter(i.model, i.par, i.ch)
    /\ i.model \in Model
    /\ i.par \in [Kind -> AnyValue]
    /\ i.ch = [l \in DOMAIN i.ch |-> i.ch[l]]
    /\ \A l \in DOMAIN i.ch : IsChannel(i.ch[l])

MapType ==
    /\ m_intermediateMap = [f \in DOMAIN m_intermediateMap |-> m_intermediateMap[f]]
    /\ DOMAIN m_intermediateMap \subseteq Freq
    /\ \A f \in DOMAIN m_intermediateMap : IsIntermediate(m_intermediateMap[f])

\* Where a request that applies a model is at work on its frequency.
Work == {"model", "type", "coeff", "write", "written", "share"}

RequestType ==
    \/ rq = Idle
    \/ /\ rq \in [at : {"d_coeff", "d_rest"}, mode : Model, val : Value, f : {0}, all : {TRUE}]
                 \cup [at : {"next"}, mode : Model, val : Value, f : Freq \cup {0}, all : BOOLEAN]
                 \cup [at : Work, mode : Model, val : Value, f : Freq, all : BOOLEAN]
                 \cup [at : {"shadow"}, mode : Model, val : Deviation, f : Freq, all : {FALSE}]
       /\ rq.at \in {"write", "written", "share"} => Uses(rq.mode) \in ChannelKind
       /\ rq.at \in Work => rq.f \in DOMAIN m_intermediateMap

ControllerType ==
    \/ ctl = Idle
    \/ /\ ctl \in [at : {"coeff"}, f : Freq, model : Model]
                  \cup [at : {"scenario"}, f : Freq, model : Model, coeff : Value]
                  \cup [at : {"insert"}, f : Freq, model : Model, coeff : Value, scenario : Value]
       /\ ctl.f \notin DOMAIN m_intermediateMap

DataType ==
    /\ m_propagationDefaults \in [model : Model \ {"UNKNOWN"}, par : [Kind -> Value]]
    /\ shadow_std_by_freq = [f \in Freq |-> shadow_std_by_freq[f]]
    /\ chosen = [f \in Freq |-> chosen[f]]
    /\ \A f \in Freq : chosen[f] = << >> \/ chosen[f] \in Model \X Value
    /\ \A f \in Freq : f \notin DOMAIN m_intermediateMap => chosen[f] = << >>

TypeInv == MapType /\ RequestType /\ ControllerType /\ DataType

-----------------------------------------------------------------------------
(* The channels of a frequency *)

\* Where channels or members of a request's frequency are not as they will be.
Between == {"type", "written", "share"}

\* The parameter request q is about to copy into the channels of f.
Stale(q, f, k) == q.at \in {"written", "share"} /\ q.f = f /\ k = Uses(q.mode)

\* The channels of Intermediate i have its type and its parameters, except what
\* the request at work on it has still to write; only that can be torn.
AgreeOf(q, f, m, p, c) ==
    /\ \A l \in DOMAIN c :
        /\ (q.at = "type" /\ q.f = f) \/ c[l].plType = currentPlType(m)
        /\ \A k \in ChannelKind : Stale(q, f, k) \/ c[l].par[k] = p[k]
    /\ \A k \in Kind : (q.at = "written" /\ Stale(q, f, k)) \/ p[k] \in Value

AgreeAt(q, f, i) == AgreeOf(q, f, i.model, i.par, i.ch)

Agreeing == \A f \in DOMAIN m_intermediateMap : AgreeAt(rq, f, m_intermediateMap[f])

\* What GET_SHADOW_STD can report for a frequency, and the built-in value.
Known(f) == {0, shadow_std} \cup shadow_std_by_freq[f]

\* setShadowingSTD has been at every frequency below the one it visits next.
ShadowAt(q, f, i, known) ==
    \A l \in DOMAIN i.ch : i.ch[l].shadow \in known \/ (q.at = "shadow" /\ q.f <= f)

Shadowing ==
    \A f \in DOMAIN m_intermediateMap : ShadowAt(rq, f, m_intermediateMap[f], Known(f))

-----------------------------------------------------------------------------
(* What was asked *)

\* What the links of a frequency should lose, by the members of its Intermediate.
Set(i) == <<i.model, IF Uses(i.model) = "none" THEN 0 ELSE i.par[Uses(i.model)]>>

\* What Expected makes of a choice c and the defaults d.
ExpectedOf(c, d) ==
    IF c # << >> THEN c
    ELSE Asked(d.model, IF Uses(d.model) = "none" THEN 0 ELSE d.par[Uses(d.model)])

\* Request q is at work on f, or will come to f.
Ahead(q, f) == q # Idle /\ ((q.at \in Work /\ q.f = f) \/ (q.all /\ q.f < f))

\* Request q has come this far with its frequency, of Intermediate i, for which c was chosen.
UnderwayIn(q, i, c) ==
    /\ q.at # "model" => i.model = q.mode
    /\ q.at \in {"write", "written", "share"} => i.par["coeff"] = Param(q.mode, q.val)["coeff"]
    /\ q.at = "share" => i.par[Uses(q.mode)] = q.val
    /\ ~q.all => c = Asked(q.mode, q.val)

Underway == rq.at \in Work => UnderwayIn(rq, m_intermediateMap[rq.f], chosen[rq.f])

\* While a default is being applied nothing else is chosen, and it is stored.
StoringIn(q, d) ==
    /\ d.model = q.mode
    /\ q.at # "d_coeff" => d.par["coeff"] = Param(q.mode, q.val)["coeff"]
    /\ q.at \notin {"d_coeff", "d_rest"} => \A k \in Kind : d.par[k] = Param(q.mode, q.val)[k]

Storing ==
    InDefault => StoringIn(rq, m_propagationDefaults) /\ \A f \in Freq : chosen[f] = << >>

\* Without overlap CreateChannel has read the defaults as they are.
Creating ==
    ctl # Idle =>
        /\ ~InDefault
        /\ ctl.model = m_propagationDefaults.model
        /\ ctl.at # "coeff" => ctl.coeff = m_propagationDefaults.par["coeff"]
        /\ ctl.at = "insert" => ctl.scenario = m_propagationDefaults.par["scenario"]

\* The links of f lose what was asked, or will when request q has come to f.
AskedAt(q, f, i, c, d) ==
    (c # << >> \/ d.model \notin {"HATA", "ITM"}) => Ahead(q, f) \/ Set(i) = ExpectedOf(c, d)

AsAsked ==
    \A f \in DOMAIN m_intermediateMap :
        AskedAt(rq, f, m_intermediateMap[f], chosen[f], m_propagationDefaults)

Asking == Storing /\ (~overlap => Creating /\ AsAsked)

-----------------------------------------------------------------------------
(* The keys of the map, in order *)

LEMMA FreqNat == Freq \subseteq Nat /\ 0 \notin Freq /\ \A f \in Freq \cup {0} : f \in Nat
BY CoordinatorAssumption

\* What follows f is 0 at the end of the map, and the next frequency before.
LEMMA FollowsFacts ==
    ASSUME MapType, NEW f \in Nat, NEW n, Follows(n, f)
    PROVE  /\ n = 0 => \A g \in DOMAIN m_intermediateMap : g <= f
           /\ n # 0 =>
                /\ n \in DOMAIN m_intermediateMap /\ n \in Freq /\ n > f
                /\ \A g \in DOMAIN m_intermediateMap : g > f => n <= g
<1> DEFINE later == {g \in DOMAIN m_intermediateMap : g > f}
<1>1. \A g \in DOMAIN m_intermediateMap : g \in Freq /\ g \in Nat /\ g # 0
  BY FreqNat DEF MapType
<1>2. CASE later = {}
  <2>1. n = 0
    BY <1>2 DEF Follows
  <2>2. \A g \in DOMAIN m_intermediateMap : g <= f
    BY <1>1, <1>2
  <2> QED BY <2>1, <2>2
<1>3. CASE later # {}
  <2>1. n \in later /\ \A g \in later : n <= g
    BY <1>3 DEF Follows
  <2> QED BY <1>1, <2>1
<1> QED BY <1>2, <1>3

-----------------------------------------------------------------------------
(* What the actions do to the map *)

\* One Intermediate is replaced by another.
Becomes(f, m, p, c) ==
    /\ f \in DOMAIN m_intermediateMap
    /\ m_intermediateMap' = [m_intermediateMap EXCEPT ![f] = Inter(m, p, c)]

\* Functions from links to channels.
AreChannels(c) == c = [l \in DOMAIN c |-> c[l]] /\ \A l \in DOMAIN c : IsChannel(c[l])

\* One Intermediate is replaced by another of the right type.
Effect(f, m, p, c) ==
    Becomes(f, m, p, c) /\ m \in Model /\ p \in [Kind -> AnyValue] /\ AreChannels(c)

\* The time a leaf may take; those that name another prover say their own.
USE ZenonT(30)

LEMMA InterFields ==
    ASSUME NEW m, NEW p, NEW c
    PROVE  Inter(m, p, c).model = m /\ Inter(m, p, c).par = p /\ Inter(m, p, c).ch = c
BY DEF Inter

LEMMA EffectType ==
    ASSUME MapType, NEW f, NEW m, NEW p, NEW c, Effect(f, m, p, c)
    PROVE  /\ MapType' /\ f \in DOMAIN m_intermediateMap
           /\ DOMAIN m_intermediateMap' = DOMAIN m_intermediateMap
           /\ m_intermediateMap'[f] = Inter(m, p, c)
           /\ \A g \in DOMAIN m_intermediateMap :
                g # f => m_intermediateMap'[g] = m_intermediateMap[g]
<1> DEFINE j == Inter(m, p, c)
<1>1. IsIntermediate(j) /\ f \in DOMAIN m_intermediateMap
  BY DEF IsIntermediate, AreChannels, Effect, Becomes, Inter
<1>2. /\ DOMAIN m_intermediateMap' = DOMAIN m_intermediateMap
      /\ m_intermediateMap'[f] = j
      /\ \A g \in DOMAIN m_intermediateMap :
            g # f => m_intermediateMap'[g] = m_intermediateMap[g]
      /\ m_intermediateMap' = [g \in DOMAIN m_intermediateMap' |-> m_intermediateMap'[g]]
  BY DEF Effect, Becomes, MapType
<1>3. \A g \in DOMAIN m_intermediateMap' : IsIntermediate(m_intermediateMap'[g])
  <2> HIDE DEF j
  <2> QED BY <1>1, <1>2 DEF MapType
<1>4. MapType'
  BY <1>2, <1>3 DEF MapType, IsIntermediate, IsChannel, AnyValue
<1> QED BY <1>1, <1>2, <1>4

-----------------------------------------------------------------------------
(* What a request and the actions that serve it do *)

LEMMA IdleAt == Idle.at = "idle"
BY DEF Idle

\* A request at work on a frequency has all of its fields, and so has the next step's.
LEMMA AtWork ==
    ASSUME RequestType, rq.at \in Work
    PROVE  /\ rq = Request(rq.at, rq.mode, rq.val, rq.f, rq.all) /\ rq # Idle
           /\ rq.mode \in Model /\ rq.val \in Value /\ rq.f \in Freq /\ rq.all \in BOOLEAN
           /\ rq.f \in DOMAIN m_intermediateMap
           /\ rq.at \in {"write", "written", "share"} => Uses(rq.mode) \in ChannelKind
<1>1. rq # Idle
  BY IdleAt DEF Work
<1>2. rq \in [at : Work, mode : Model, val : Value, f : Freq, all : BOOLEAN]
  BY <1>1 DEF RequestType, Work
<1> QED BY <1>1, <1>2 DEF RequestType, Request

\* The fields of a request in which only the place changed.
LEMMA Moved ==
    ASSUME NEW a, NEW m, NEW v, NEW f, NEW b, rq = Request(a, m, v, f, b), NEW to, To(to)
    PROVE  /\ rq' = Request(to, m, v, f, b)
           /\ rq'.at = to /\ rq'.mode = m /\ rq'.val = v /\ rq'.f = f /\ rq'.all = b
BY DEF To, Request

\* What MapType says of one Intermediate.
LEMMA OneIntermediate ==
    ASSUME MapType, NEW f \in DOMAIN m_intermediateMap
    PROVE  /\ f \in Freq
           /\ m_intermediateMap[f] = Inter(m_intermediateMap[f].model, m_intermediateMap[f].par, Chans(f))
           /\ m_intermediateMap[f].model \in Model
           /\ m_intermediateMap[f].par \in [Kind -> AnyValue]
           /\ AreChannels(Chans(f))
BY DEF MapType, IsIntermediate, AreChannels, Chans

\* Assigning a member of one Intermediate replaces the Intermediate.
LEMMA Assigned ==
    ASSUME MapType, NEW f \in DOMAIN m_intermediateMap, NEW x, NEW k
    PROVE  /\ m_intermediateMap' = [m_intermediateMap EXCEPT ![f].model = x] =>
                Becomes(f, x, m_intermediateMap[f].par, Chans(f))
           /\ m_intermediateMap' = [m_intermediateMap EXCEPT ![f].ch = x] =>
                Becomes(f, m_intermediateMap[f].model, m_intermediateMap[f].par, x)
           /\ m_intermediateMap' = [m_intermediateMap EXCEPT ![f].par[k] = x] =>
                Becomes(f, m_intermediateMap[f].model, [m_intermediateMap[f].par EXCEPT ![k] = x],
                        Chans(f))
<1> DEFINE F == m_intermediateMap
           m == m_intermediateMap[f].model
           p == m_intermediateMap[f].par
           c == Chans(f)
<1>1. F = [g \in DOMAIN F |-> F[g]] /\ f \in DOMAIN F
  BY DEF MapType
<1>2. F[f] = Inter(m, p, c)
  BY OneIntermediate
<1>3. /\ [F EXCEPT ![f].model = x] = [F EXCEPT ![f] = Inter(x, p, c)]
      /\ [F EXCEPT ![f].ch = x] = [F EXCEPT ![f] = Inter(m, p, x)]
      /\ [F EXCEPT ![f].par[k] = x] =
            [F EXCEPT ![f] = Inter(m, [p EXCEPT ![k] = x], c)]
  <2> HIDE DEF F, m, p, c
  <2>1. /\ [F[f] EXCEPT !.model = x] = Inter(x, p, c)
        /\ [F[f] EXCEPT !.ch = x] = Inter(m, p, x)
        /\ F[f].par = p
    BY <1>2, SMTT(30) DEF Inter
  <2>2. [F[f] EXCEPT !.par = [p EXCEPT ![k] = x]]
            = Inter(m, [p EXCEPT ![k] = x], c)
    BY <1>2, SMTT(30) DEF Inter
  <2> QED BY <1>1, <2>1, <2>2
<1> QED BY <1>1, <1>3 DEF Becomes

\* A channel with this type, these parameters and this shadowing.
Like(c, t, p, v) == IsChannel(c) /\ c.plType = t /\ c.par = p /\ c.shadow = v

Shape(t, p, v, e, g, h) ==
    [plType |-> t, par |-> p, shadow |-> v, doppler |-> e, geo |-> g, dopplerHz |-> h]

LEMMA ShapeLike ==
    ASSUME NEW t, NEW p \in [ChannelKind -> AnyValue], NEW v, NEW e, NEW g, NEW h
    PROVE  Like(Shape(t, p, v, e, g, h), t, p, v)
BY DEF Shape, Like, IsChannel

LEMMA ChannelShape ==
    ASSUME NEW c, IsChannel(c)
    PROVE  /\ c = Shape(c.plType, c.par, c.shadow, c.doppler, c.geo, c.dopplerHz)
           /\ c.par \in [ChannelKind -> AnyValue]
           /\ Like(c, c.plType, c.par, c.shadow)
BY DEF IsChannel, Shape, Like

\* Assigning a member of a channel leaves the others.
LEMMA SetType ==
    ASSUME NEW c, IsChannel(c), NEW x
    PROVE  Like([c EXCEPT !.plType = x], x, c.par, c.shadow)
<1>1. [c EXCEPT !.plType = x] = Shape(x, c.par, c.shadow, c.doppler, c.geo, c.dopplerHz)
  BY ChannelShape, SMTT(30) DEF Shape
<1> QED BY <1>1, ShapeLike, ChannelShape, SMTT(30)

LEMMA SetShadow ==
    ASSUME NEW c, IsChannel(c), NEW x
    PROVE  Like([c EXCEPT !.shadow = x], c.plType, c.par, x)
<1>1. [c EXCEPT !.shadow = x] = Shape(c.plType, c.par, x, c.doppler, c.geo, c.dopplerHz)
  BY ChannelShape, SMTT(30) DEF Shape
<1> QED BY <1>1, ShapeLike, ChannelShape, SMTT(30)

LEMMA SetDoppler ==
    ASSUME NEW c, IsChannel(c), NEW x
    PROVE  Like([c EXCEPT !.doppler = x], c.plType, c.par, c.shadow)
<1>1. [c EXCEPT !.doppler = x] = Shape(c.plType, c.par, c.shadow, x, c.geo, c.dopplerHz)
  BY ChannelShape, SMTT(30) DEF Shape
<1> QED BY <1>1, ShapeLike, ChannelShape, SMTT(30)

LEMMA SetGeometry ==
    ASSUME NEW c, IsChannel(c), NEW x, NEW y
    PROVE  Like([c EXCEPT !.geo = x, !.dopplerHz = y], c.plType, c.par, c.shadow)
<1> DEFINE d == [c EXCEPT !.geo = x]
<1>1. [c EXCEPT !.geo = x, !.dopplerHz = y] = [d EXCEPT !.dopplerHz = y]
  OBVIOUS
<1>2. d = Shape(c.plType, c.par, c.shadow, c.doppler, x, c.dopplerHz)
  BY ChannelShape, SMTT(30) DEF Shape
<1>3. [d EXCEPT !.dopplerHz = y] = Shape(c.plType, c.par, c.shadow, c.doppler, x, y)
  <2> HIDE DEF d
  <2> QED BY <1>2, SMTT(30) DEF Shape
<1> HIDE DEF d
<1> QED BY <1>1, <1>3, ShapeLike, ChannelShape, SMTT(30)

LEMMA SetParameter ==
    ASSUME NEW c, IsChannel(c), NEW k \in ChannelKind, NEW x \in AnyValue
    PROVE  Like([c EXCEPT !.par[k] = x], c.plType, [c.par EXCEPT ![k] = x], c.shadow)
<1>1. [c EXCEPT !.par[k] = x] =
        Shape(c.plType, [c.par EXCEPT ![k] = x], c.shadow, c.doppler, c.geo, c.dopplerHz)
  BY ChannelShape, SMTT(30) DEF Shape
<1>2. [c.par EXCEPT ![k] = x] \in [ChannelKind -> AnyValue]
  BY ChannelShape
<1> QED BY <1>1, <1>2, ShapeLike, SMTT(30)

\* The channels in c have their type and parameters from those of f.
Kept(f, c) ==
    /\ DOMAIN c \subseteq DOMAIN Chans(f)
    /\ \A l \in DOMAIN c : c[l].plType = Chans(f)[l].plType /\ c[l].par = Chans(f)[l].par

\* Assigning the channels of one Intermediate.
LEMMA ChannelsEffect ==
    ASSUME MapType, NEW f \in DOMAIN m_intermediateMap, NEW c, c = [l \in DOMAIN c |-> c[l]],
           \A l \in DOMAIN c : \E t, p, v : Like(c[l], t, p, v),
           m_intermediateMap' = [m_intermediateMap EXCEPT ![f].ch = c]
    PROVE  Effect(f, m_intermediateMap[f].model, m_intermediateMap[f].par, c)
<1>1. AreChannels(c)
  BY DEF AreChannels, Like
<1>2. Becomes(f, m_intermediateMap[f].model, m_intermediateMap[f].par, c)
  BY Assigned
<1> QED BY <1>1, <1>2, OneIntermediate DEF Effect

\* updatePathLoss: the model, the types of the channels, the ground coefficient.
LEMMA ModelStep ==
    ASSUME MapType, RequestType, rq.at = "model", updatePathLoss
    PROVE  Effect(rq.f, rq.mode, m_intermediateMap[rq.f].par, Chans(rq.f)) /\ To("type")
<1>1. rq.f \in DOMAIN m_intermediateMap /\ rq.mode \in Model
  BY AtWork DEF Work
<1>2. To("type") /\ m_intermediateMap' = [m_intermediateMap EXCEPT ![rq.f].model = rq.mode]
  BY DEF updatePathLoss
<1>3. Becomes(rq.f, rq.mode, m_intermediateMap[rq.f].par, Chans(rq.f))
  BY <1>1, <1>2, Assigned
<1> QED BY <1>1, <1>2, <1>3, OneIntermediate DEF Effect

LEMMA TypeStep ==
    ASSUME MapType, RequestType, rq.at = "type", updatePathLoss
    PROVE  /\ To("coeff")
           /\ \E c : /\ Effect(rq.f, m_intermediateMap[rq.f].model, m_intermediateMap[rq.f].par, c)
                    /\ DOMAIN c = DOMAIN Chans(rq.f)
                    /\ \A l \in DOMAIN c : Like(c[l], currentPlType(rq.mode), Chans(rq.f)[l].par,
                                                Chans(rq.f)[l].shadow)
<1> DEFINE c == [l \in DOMAIN Chans(rq.f) |->
                    [Chans(rq.f)[l] EXCEPT !.plType = currentPlType(rq.mode)]]
<1>1. rq.f \in DOMAIN m_intermediateMap
  BY AtWork DEF Work
<1>2. To("coeff") /\ m_intermediateMap' = [m_intermediateMap EXCEPT ![rq.f].ch = c]
  BY <1>1 DEF updatePathLoss, SetChans, Chans
<1>3. DOMAIN c = DOMAIN Chans(rq.f) /\ c = [l \in DOMAIN c |-> c[l]]
  OBVIOUS
<1>4. \A l \in DOMAIN c :
        Like(c[l], currentPlType(rq.mode), Chans(rq.f)[l].par, Chans(rq.f)[l].shadow)
  BY <1>1, OneIntermediate, SetType DEF AreChannels
<1> HIDE DEF c
<1>5. Effect(rq.f, m_intermediateMap[rq.f].model, m_intermediateMap[rq.f].par, c)
  BY <1>1, <1>2, <1>3, <1>4, ChannelsEffect
<1> QED BY <1>2, <1>3, <1>4, <1>5

LEMMA KindFacts == Kind = ChannelKind \cup {"coeff"} /\ "coeff" \notin ChannelKind
BY DEF Kind, ChannelKind

LEMMA ParamType ==
    ASSUME NEW m, NEW v \in Value
    PROVE  Param(m, v) \in [Kind -> Value]
BY CoordinatorAssumption DEF Param

\* Assigning one parameter of an Intermediate.
LEMMA ParameterEffect ==
    ASSUME MapType, NEW f \in DOMAIN m_intermediateMap, NEW k \in Kind, NEW x \in AnyValue,
           m_intermediateMap' = [m_intermediateMap EXCEPT ![f].par[k] = x]
    PROVE  Effect(f, m_intermediateMap[f].model, [m_intermediateMap[f].par EXCEPT ![k] = x], Chans(f))
<1>1. Becomes(f, m_intermediateMap[f].model, [m_intermediateMap[f].par EXCEPT ![k] = x], Chans(f))
  BY Assigned
<1>2. [m_intermediateMap[f].par EXCEPT ![k] = x] \in [Kind -> AnyValue]
  BY OneIntermediate
<1> QED BY <1>1, <1>2, OneIntermediate DEF Effect

LEMMA CoeffStep ==
    ASSUME MapType, RequestType, rq.at = "coeff", updatePathLoss
    PROVE  /\ To(IF Uses(rq.mode) \in ChannelKind THEN "write" ELSE "next")
           /\ Effect(rq.f, m_intermediateMap[rq.f].model,
                     [m_intermediateMap[rq.f].par EXCEPT
                        !["coeff"] = Param(rq.mode, rq.val)["coeff"]],
                     Chans(rq.f))
<1>1. rq.f \in DOMAIN m_intermediateMap /\ rq.val \in Value
  BY AtWork DEF Work
<1>2. "coeff" \in Kind /\ Param(rq.mode, rq.val)["coeff"] \in AnyValue
  BY <1>1, ParamType, SMTT(30) DEF Kind, AnyValue
<1>3. /\ To(IF Uses(rq.mode) \in ChannelKind THEN "write" ELSE "next")
      /\ m_intermediateMap' = [m_intermediateMap EXCEPT
            ![rq.f].par["coeff"] = Param(rq.mode, rq.val)["coeff"]]
  BY DEF updatePathLoss
<1> QED BY <1>1, <1>2, <1>3, ParameterEffect

\* SetParams: the member is torn, then written, then copied into every channel.
LEMMA WriteStep ==
    ASSUME MapType, RequestType, rq.at = "write", SetParams
    PROVE  /\ To("written")
           /\ Effect(rq.f, m_intermediateMap[rq.f].model,
                     [m_intermediateMap[rq.f].par EXCEPT ![Uses(rq.mode)] = Torn], Chans(rq.f))
<1>1. rq.f \in DOMAIN m_intermediateMap /\ Uses(rq.mode) \in Kind /\ Torn \in AnyValue
  BY AtWork, KindFacts DEF Work, AnyValue
<1>2. /\ To("written")
      /\ m_intermediateMap' = [m_intermediateMap EXCEPT ![rq.f].par[Uses(rq.mode)] = Torn]
  BY DEF SetParams
<1> QED BY <1>1, <1>2, ParameterEffect

LEMMA WrittenStep ==
    ASSUME MapType, RequestType, rq.at = "written", SetParams
    PROVE  /\ To("share")
           /\ Effect(rq.f, m_intermediateMap[rq.f].model,
                     [m_intermediateMap[rq.f].par EXCEPT ![Uses(rq.mode)] = rq.val], Chans(rq.f))
<1>1. rq.f \in DOMAIN m_intermediateMap /\ Uses(rq.mode) \in Kind /\ rq.val \in AnyValue
  BY AtWork, KindFacts DEF Work, AnyValue
<1>2. /\ To("share")
      /\ m_intermediateMap' = [m_intermediateMap EXCEPT ![rq.f].par[Uses(rq.mode)] = rq.val]
  BY DEF SetParams
<1> QED BY <1>1, <1>2, ParameterEffect

LEMMA ShareStep ==
    ASSUME MapType, RequestType, rq.at = "share", SetParams
    PROVE  /\ To("next")
           /\ \E c : /\ Effect(rq.f, m_intermediateMap[rq.f].model, m_intermediateMap[rq.f].par, c)
                    /\ DOMAIN c = DOMAIN Chans(rq.f)
                    /\ \A l \in DOMAIN c :
                        Like(c[l], Chans(rq.f)[l].plType,
                             [Chans(rq.f)[l].par EXCEPT
                                ![Uses(rq.mode)] = m_intermediateMap[rq.f].par[Uses(rq.mode)]],
                             Chans(rq.f)[l].shadow)
<1> DEFINE k == Uses(rq.mode)
           x == m_intermediateMap[rq.f].par[k]
           c == [l \in DOMAIN Chans(rq.f) |-> [Chans(rq.f)[l] EXCEPT !.par[k] = x]]
<1>1. rq.f \in DOMAIN m_intermediateMap /\ k \in ChannelKind
  BY AtWork DEF Work
<1>2. To("next") /\ m_intermediateMap' = [m_intermediateMap EXCEPT ![rq.f].ch = c]
  BY <1>1 DEF SetParams, SetChans, Chans
<1>3. x \in AnyValue
  BY <1>1, OneIntermediate, KindFacts
<1>4. DOMAIN c = DOMAIN Chans(rq.f) /\ c = [l \in DOMAIN c |-> c[l]]
  OBVIOUS
<1>5. \A l \in DOMAIN c :
        Like(c[l], Chans(rq.f)[l].plType, [Chans(rq.f)[l].par EXCEPT ![k] = x],
             Chans(rq.f)[l].shadow)
  <2> HIDE DEF k, x
  <2> QED BY <1>1, <1>3, OneIntermediate, SetParameter DEF AreChannels
<1> HIDE DEF c
<1>6. Effect(rq.f, m_intermediateMap[rq.f].model, m_intermediateMap[rq.f].par, c)
  BY <1>1, <1>2, <1>4, <1>5, ChannelsEffect
<1> QED BY <1>2, <1>4, <1>5, <1>6

\* Setting the shadowing of every channel of a frequency.
LEMMA ShadowEffect ==
    ASSUME MapType, NEW f \in DOMAIN m_intermediateMap, NEW v, Shadowed(f, v)
    PROVE  \E c : /\ Effect(f, m_intermediateMap[f].model, m_intermediateMap[f].par, c)
                  /\ Kept(f, c)
                  /\ \A l \in DOMAIN c : c[l].shadow = v
<1> DEFINE c == [l \in DOMAIN Chans(f) |-> [Chans(f)[l] EXCEPT !.shadow = v]]
<1>1. m_intermediateMap' = [m_intermediateMap EXCEPT ![f].ch = c]
  BY DEF Shadowed, SetChans, Chans
<1>2. DOMAIN c = DOMAIN Chans(f) /\ c = [l \in DOMAIN c |-> c[l]]
  OBVIOUS
<1>3. \A l \in DOMAIN c : Like(c[l], Chans(f)[l].plType, Chans(f)[l].par, v)
  BY OneIntermediate, SetShadow DEF AreChannels
<1> HIDE DEF c
<1>4. Effect(f, m_intermediateMap[f].model, m_intermediateMap[f].par, c)
  BY <1>1, <1>2, <1>3, ChannelsEffect
<1> QED BY <1>2, <1>3, <1>4 DEF Kept, Like

\* What is left of the channels of f, with type, parameters and shadowing as they were.
Rest(f) ==
    \E c : /\ Effect(f, m_intermediateMap[f].model, m_intermediateMap[f].par, c)
           /\ Kept(f, c)
           /\ \A l \in DOMAIN c : c[l].shadow = Chans(f)[l].shadow

LEMMA ConfigEffect ==
    ASSUME MapType, NEW f \in DOMAIN m_intermediateMap, SetChans(f, LAMBDA l : Configured(f, l))
    PROVE  Rest(f)
<1> DEFINE c == [l \in DOMAIN Chans(f) |-> Configured(f, l)]
<1>1. m_intermediateMap' = [m_intermediateMap EXCEPT ![f].ch = c]
  BY DEF SetChans, Chans
<1>2. DOMAIN c = DOMAIN Chans(f) /\ c = [l \in DOMAIN c |-> c[l]]
  OBVIOUS
<1>3. ASSUME NEW l \in DOMAIN c
      PROVE  Like(c[l], Chans(f)[l].plType, Chans(f)[l].par, Chans(f)[l].shadow)
  <2>1. l \in DOMAIN Chans(f) /\ IsChannel(Chans(f)[l])
    BY OneIntermediate DEF AreChannels
  <2>2. CASE Located(l)
    <3> DEFINE
           y == IF Chans(f)[l].doppler THEN Doppler(l) ELSE Chans(f)[l].dopplerHz
           g == Geometry(l)
           e == Chans(f)[l]
    <3>1. c[l] = [e EXCEPT !.geo = g, !.dopplerHz = y]
      BY <2>1, <2>2 DEF Configured
    <3>2. IsChannel(e)
      BY <2>1
    <3>3. Like([e EXCEPT !.geo = g, !.dopplerHz = y], e.plType, e.par, e.shadow)
      <4> HIDE DEF y, c, g, e
      <4> QED BY <3>2, SetGeometry
    <3> QED BY <3>1, <3>3
  <2>3. CASE ~Located(l)
    BY <2>1, <2>3, ChannelShape DEF Configured
  <2> QED BY <2>2, <2>3
<1> HIDE DEF c
<1>4. Effect(f, m_intermediateMap[f].model, m_intermediateMap[f].par, c)
  BY <1>1, <1>2, <1>3, ChannelsEffect
<1> QED BY <1>2, <1>3, <1>4 DEF Rest, Kept, Like

LEMMA DopplerEffect ==
    ASSUME MapType, NEW f, NEW l, NEW e, CHG_DOPPLER(f, l, e)
    PROVE  Rest(f)
<1> DEFINE d == [Chans(f)[l] EXCEPT !.doppler = e]
           c == [Chans(f) EXCEPT ![l] = d]
<1>1. f \in DOMAIN m_intermediateMap /\ l \in DOMAIN Chans(f)
  BY DEF CHG_DOPPLER
<1>2. m_intermediateMap' = [m_intermediateMap EXCEPT ![f].ch = c]
  BY <1>1 DEF CHG_DOPPLER, Chans
<1>3. AreChannels(Chans(f))
  BY <1>1, OneIntermediate
<1>4. Like(d, Chans(f)[l].plType, Chans(f)[l].par, Chans(f)[l].shadow)
  BY <1>1, <1>3, SetDoppler DEF AreChannels
<1>5. DOMAIN c = DOMAIN Chans(f) /\ c = [k \in DOMAIN c |-> c[k]]
  BY <1>3 DEF AreChannels
<1>6. \A k \in DOMAIN c : Like(c[k], Chans(f)[k].plType, Chans(f)[k].par, Chans(f)[k].shadow)
  <2> HIDE DEF d
  <2> QED BY <1>1, <1>3, <1>4, ChannelShape DEF AreChannels
<1> HIDE DEF c
<1>7. Effect(f, m_intermediateMap[f].model, m_intermediateMap[f].par, c)
  BY <1>1, <1>2, <1>5, <1>6, ChannelsEffect
<1> QED BY <1>5, <1>6, <1>7 DEF Rest, Kept, Like

LEMMA RemoveEffect ==
    ASSUME MapType, NEW f, NEW n, removeChannel(f, n)
    PROVE  Rest(f)
<1> DEFINE c == [l \in {k \in DOMAIN Chans(f) : n \notin {k[1], k[2]}} |-> Chans(f)[l]]
<1>1. f \in DOMAIN m_intermediateMap
  BY DEF removeChannel
<1>2. m_intermediateMap' = [m_intermediateMap EXCEPT ![f].ch = c]
  BY <1>1 DEF removeChannel, Chans
<1>3. DOMAIN c \subseteq DOMAIN Chans(f) /\ c = [l \in DOMAIN c |-> c[l]]
  OBVIOUS
<1>4. \A l \in DOMAIN c : Like(c[l], Chans(f)[l].plType, Chans(f)[l].par, Chans(f)[l].shadow)
  BY <1>1, OneIntermediate, ChannelShape DEF AreChannels
<1> HIDE DEF c
<1>5. Effect(f, m_intermediateMap[f].model, m_intermediateMap[f].par, c)
  BY <1>1, <1>2, <1>3, <1>4, ChannelsEffect
<1> QED BY <1>3, <1>4, <1>5 DEF Rest, Kept, Like

\* insertChannelIfMissing: the new channel is like its Intermediate.
LEMMA InsertEffect ==
    ASSUME MapType, NEW f, NEW l, insertChannelIfMissing(f, l)
    PROVE  \E c : /\ Effect(f, m_intermediateMap[f].model, m_intermediateMap[f].par, c)
                  /\ DOMAIN c = DOMAIN Chans(f) \cup {l} /\ l \notin DOMAIN Chans(f)
                  /\ \A k \in DOMAIN Chans(f) : c[k] = Chans(f)[k]
                  /\ Like(c[l], currentPlType(m_intermediateMap[f].model),
                          [k \in ChannelKind |-> m_intermediateMap[f].par[k]], 0)
<1> DEFINE p == [k \in ChannelKind |-> m_intermediateMap[f].par[k]]
           d == NewChannel(m_intermediateMap[f])
           c == [k \in DOMAIN Chans(f) \cup {l} |-> IF k = l THEN d ELSE Chans(f)[k]]
<1>1. f \in DOMAIN m_intermediateMap /\ l \notin DOMAIN Chans(f)
  BY DEF insertChannelIfMissing
<1>2. m_intermediateMap' = [m_intermediateMap EXCEPT ![f].ch = c]
  BY <1>1 DEF insertChannelIfMissing, Chans
<1>3. p \in [ChannelKind -> AnyValue]
  BY <1>1, OneIntermediate, KindFacts
<1>4. d = Shape(currentPlType(m_intermediateMap[f].model), p, 0, FALSE, << >>, << >>)
  BY DEF NewChannel, Shape
<1>5. Like(d, currentPlType(m_intermediateMap[f].model), p, 0)
  <2> HIDE DEF p, d
  <2> QED BY <1>3, <1>4, ShapeLike
<1> HIDE DEF d, p
<1>6. /\ DOMAIN c = DOMAIN Chans(f) \cup {l} /\ c = [k \in DOMAIN c |-> c[k]]
      /\ c[l] = d /\ \A k \in DOMAIN Chans(f) : c[k] = Chans(f)[k]
  BY <1>1
<1>7. \A k \in DOMAIN c : \E t, q, v : Like(c[k], t, q, v)
  <2> HIDE DEF c
  <2> QED BY <1>1, <1>5, <1>6, OneIntermediate, ChannelShape DEF AreChannels
<1> HIDE DEF c
<1>8. Effect(f, m_intermediateMap[f].model, m_intermediateMap[f].par, c)
  BY <1>1, <1>2, <1>6, <1>7, ChannelsEffect
<1> QED BY <1>1, <1>5, <1>6, <1>8 DEF p

\* InsertChannel and the erasure in isChannelEmpty change the frequencies of the map.
LEMMA GrowEffect ==
    ASSUME MapType, ControllerType, InsertChannel
    PROVE  /\ MapType' /\ DOMAIN m_intermediateMap' = DOMAIN m_intermediateMap \cup {ctl.f}
           /\ ctl.f \in Freq /\ ctl.f \notin DOMAIN m_intermediateMap
           /\ ctl.model \in Model /\ ctl.coeff \in Value /\ ctl.scenario \in Value
           /\ m_intermediateMap'[ctl.f] = NewIntermediate(ctl.model, ctl.coeff, ctl.scenario)
           /\ \A f \in DOMAIN m_intermediateMap : m_intermediateMap'[f] = m_intermediateMap[f]
<1> DEFINE i == NewIntermediate(ctl.model, ctl.coeff, ctl.scenario)
<1>1. /\ ctl.f \in Freq /\ ctl.model \in Model /\ ctl.coeff \in Value /\ ctl.scenario \in Value
      /\ ctl.f \notin DOMAIN m_intermediateMap
  BY IdleAt DEF ControllerType, InsertChannel
<1>2. /\ DOMAIN m_intermediateMap' = DOMAIN m_intermediateMap \cup {ctl.f}
      /\ m_intermediateMap'[ctl.f] = i
      /\ \A f \in DOMAIN m_intermediateMap : m_intermediateMap'[f] = m_intermediateMap[f]
      /\ m_intermediateMap' = [f \in DOMAIN m_intermediateMap' |-> m_intermediateMap'[f]]
  <2> HIDE DEF i
  <2>1. m_intermediateMap' = [f \in DOMAIN m_intermediateMap \cup {ctl.f} |->
                                IF f = ctl.f THEN i ELSE m_intermediateMap[f]]
    BY DEF InsertChannel, i
  <2> QED BY <1>1, <2>1
<1>3. IsIntermediate(i)
  <2>1. i.model \in Model /\ i.par \in [Kind -> AnyValue]
    BY <1>1, CoordinatorAssumption DEF NewIntermediate, AnyValue, Model
  <2>2. i = Inter(i.model, i.par, i.ch) /\ i.ch = << >>
    BY DEF NewIntermediate, Inter
  <2> HIDE DEF i
  <2>3. i.ch = [l \in DOMAIN i.ch |-> i.ch[l]] /\ DOMAIN i.ch = {}
    BY <2>2, SMTT(30)
  <2> QED BY <2>1, <2>2, <2>3 DEF IsIntermediate
<1>4. MapType'
  <2> HIDE DEF i
  <2>1. DOMAIN m_intermediateMap' \subseteq Freq
    BY <1>1, <1>2 DEF MapType
  <2>2. \A f \in DOMAIN m_intermediateMap' : IsIntermediate(m_intermediateMap'[f])
    BY <1>2, <1>3 DEF MapType
  <2> QED BY <1>2, <2>1, <2>2 DEF MapType, IsIntermediate, IsChannel, AnyValue
<1> QED BY <1>1, <1>2, <1>4

LEMMA ShrinkEffect ==
    ASSUME MapType, NEW f, isChannelEmpty(f)
    PROVE  /\ MapType' /\ DOMAIN m_intermediateMap' = DOMAIN m_intermediateMap \ {f}
           /\ f \in Freq
           /\ \A g \in DOMAIN m_intermediateMap' : m_intermediateMap'[g] = m_intermediateMap[g]
<1>1. /\ DOMAIN m_intermediateMap' = DOMAIN m_intermediateMap \ {f} /\ f \in Freq
      /\ \A g \in DOMAIN m_intermediateMap' : m_intermediateMap'[g] = m_intermediateMap[g]
      /\ m_intermediateMap' = [g \in DOMAIN m_intermediateMap' |-> m_intermediateMap'[g]]
  BY DEF isChannelEmpty, MapType
<1>2. \A g \in DOMAIN m_intermediateMap' : IsIntermediate(m_intermediateMap'[g])
  BY <1>1 DEF MapType
<1>3. MapType'
  BY <1>1, <1>2 DEF MapType, IsIntermediate, IsChannel, AnyValue
<1> QED BY <1>1, <1>3

-----------------------------------------------------------------------------
(* Types are kept *)

LEMMA MovedType ==
    ASSUME RequestType, rq.at \in Work, NEW to \in Work \cup {"next"}, To(to),
           DOMAIN m_intermediateMap' = DOMAIN m_intermediateMap,
           to \in {"write", "written", "share"} => Uses(rq.mode) \in ChannelKind
    PROVE  RequestType'
<1>1. /\ rq = Request(rq.at, rq.mode, rq.val, rq.f, rq.all)
      /\ rq.mode \in Model /\ rq.val \in Value /\ rq.f \in Freq /\ rq.all \in BOOLEAN
      /\ rq.f \in DOMAIN m_intermediateMap
  BY AtWork
<1>2. /\ rq' = Request(to, rq.mode, rq.val, rq.f, rq.all)
      /\ rq'.at = to /\ rq'.mode = rq.mode /\ rq'.f = rq.f
  BY <1>1, Moved, SMTT(30)
<1>3. rq' \in [at : {"next"}, mode : Model, val : Value, f : Freq \cup {0}, all : BOOLEAN]
              \cup [at : Work, mode : Model, val : Value, f : Freq, all : BOOLEAN]
  BY <1>1, <1>2 DEF Request
<1> QED BY <1>1, <1>2, <1>3 DEF RequestType

\* The steps of updatePathLoss and SetParams.
LEMMA WorkType ==
    ASSUME TypeInv, updatePathLoss \/ SetParams
    PROVE  TypeInv'
<1> USE DEF TypeInv
<1>1. rq.at \in Work
  BY DEF updatePathLoss, SetParams, Work
<1>2. UNCHANGED <<m_propagationDefaults, shadows, location, ctl, upd, history, cmds, inputs>>
  BY DEF updatePathLoss, SetParams
<1>3. MapType' /\ DOMAIN m_intermediateMap' = DOMAIN m_intermediateMap /\ RequestType'
  <2>1. CASE rq.at = "model" /\ updatePathLoss
    BY <2>1, ModelStep, EffectType, MovedType DEF Work
  <2>2. CASE rq.at = "type" /\ updatePathLoss
    BY <2>2, TypeStep, EffectType, MovedType DEF Work
  <2>3. CASE rq.at = "coeff" /\ updatePathLoss
    <3> DEFINE to == IF Uses(rq.mode) \in ChannelKind THEN "write" ELSE "next"
    <3>1. To(to) /\ MapType' /\ DOMAIN m_intermediateMap' = DOMAIN m_intermediateMap
      BY <2>3, CoeffStep, EffectType
    <3>2. to \in Work \cup {"next"} /\ (to \in {"write", "written", "share"} => Uses(rq.mode) \in ChannelKind)
      BY DEF Work
    <3> HIDE DEF to
    <3> QED BY <1>1, <3>1, <3>2, MovedType
  <2>4. CASE rq.at = "write" /\ SetParams
    BY <1>1, <2>4, WriteStep, EffectType, MovedType, AtWork DEF Work
  <2>5. CASE rq.at = "written" /\ SetParams
    BY <1>1, <2>5, WrittenStep, EffectType, MovedType, AtWork DEF Work
  <2>6. CASE rq.at = "share" /\ SetParams
    BY <2>6, ShareStep, EffectType, MovedType DEF Work
  <2> QED BY <2>1, <2>2, <2>3, <2>4, <2>5, <2>6 DEF updatePathLoss, SetParams
<1>4. ControllerType' /\ DataType'
  BY <1>2, <1>3 DEF ControllerType, DataType, shadows, history
<1> QED BY <1>3, <1>4

\* Steps that change channels only.
LEMMA QuietType ==
    ASSUME TypeInv, MapType', DOMAIN m_intermediateMap' = DOMAIN m_intermediateMap,
           UNCHANGED <<m_propagationDefaults, shadow_std_by_freq, rq, ctl, chosen>>
    PROVE  TypeInv'
BY DEF TypeInv, RequestType, ControllerType, DataType

LEMMA RestType ==
    ASSUME TypeInv, NEW f, Rest(f),
           UNCHANGED <<m_propagationDefaults, shadow_std_by_freq, rq, ctl, chosen>>
    PROVE  TypeInv'
<1>1. MapType' /\ DOMAIN m_intermediateMap' = DOMAIN m_intermediateMap
  BY EffectType DEF Rest, TypeInv
<1> QED BY <1>1, QuietType

LEMMA SameMap ==
    ASSUME MapType, UNCHANGED m_intermediateMap
    PROVE  MapType'
BY SMTT(30) DEF MapType, IsIntermediate, IsChannel, AnyValue, Inter

LEMMA SettingType ==
    ASSUME NEW s \in Setting
    PROVE  s[1] \in Model /\ s[2] \in Value
BY CoordinatorAssumption

LEMMA AskedType ==
    ASSUME NEW m \in Model, NEW v \in Value
    PROVE  Asked(m, v) \in Model \X Value /\ Asked(m, v) # << >>
BY CoordinatorAssumption DEF Asked

LEMMA ChgPlType ==
    ASSUME TypeInv, NEW f \in Freq, NEW m \in Model, NEW v \in Value, CHG_PL(f, m, v)
    PROVE  TypeInv'
<1> USE DEF TypeInv
<1>1. MapType' /\ ControllerType'
  BY SameMap DEF CHG_PL, ControllerType
<1>2. RequestType'
  <2>1. rq' = Request("model", m, v, f, FALSE) /\ f \in DOMAIN m_intermediateMap'
    BY DEF CHG_PL
  <2>2. rq' \in [at : Work, mode : Model, val : Value, f : Freq, all : BOOLEAN]
    BY <2>1 DEF Request, Work
  <2>3. rq'.at = "model" /\ rq'.f = f
    BY <2>1 DEF Request
  <2> QED BY <2>1, <2>2, <2>3 DEF RequestType
<1>3. DataType'
  <2>1. /\ f \in DOMAIN m_intermediateMap /\ chosen' = [chosen EXCEPT ![f] = Asked(m, v)]
        /\ UNCHANGED <<m_propagationDefaults, shadow_std_by_freq, m_intermediateMap>>
    BY DEF CHG_PL, shadows
  <2> QED BY <2>1, AskedType DEF DataType
<1> QED BY <1>1, <1>2, <1>3

LEMMA SetDefaultType ==
    ASSUME TypeInv, NEW m \in Model, NEW v \in Value, SET_DEFAULT_PL(m, v)
    PROVE  TypeInv'
<1> USE DEF TypeInv
<1>1. MapType' /\ ControllerType'
  BY SameMap DEF SET_DEFAULT_PL, ControllerType
<1>2. RequestType'
  <2>1. rq' = Request("d_coeff", m, v, 0, TRUE)
    BY DEF SET_DEFAULT_PL
  <2>2. rq' \in [at : {"d_coeff", "d_rest"}, mode : Model, val : Value, f : {0}, all : {TRUE}]
    BY <2>1 DEF Request
  <2> QED BY <2>2 DEF RequestType, Work
<1>3. DataType'
  <2>1. /\ m_propagationDefaults' = [m_propagationDefaults EXCEPT !.model = m] /\ m # "UNKNOWN"
        /\ chosen' = [f \in Freq |-> << >>]
        /\ UNCHANGED <<shadow_std_by_freq, m_intermediateMap>>
    BY DEF SET_DEFAULT_PL, shadows
  <2>2. m_propagationDefaults' \in [model : Model \ {"UNKNOWN"}, par : [Kind -> Value]]
    BY <2>1 DEF DataType
  <2> QED BY <2>1, <2>2 DEF DataType
<1> QED BY <1>1, <1>2, <1>3

\* A request that stores defaults.
LEMMA AtStore ==
    ASSUME RequestType, rq.at \in {"d_coeff", "d_rest"}
    PROVE  /\ rq = Request(rq.at, rq.mode, rq.val, 0, TRUE) /\ rq # Idle
           /\ rq.mode \in Model /\ rq.val \in Value /\ rq.f = 0 /\ rq.all
<1>1. rq # Idle
  BY IdleAt
<1>2. rq \in [at : {"d_coeff", "d_rest"}, mode : Model, val : Value, f : {0}, all : {TRUE}]
  BY <1>1 DEF RequestType, Work
<1> QED BY <1>1, <1>2 DEF Request

LEMMA StoreDefaultStep ==
    ASSUME TypeInv, StoreDefault
    PROVE  /\ m_propagationDefaults' =
                [model |-> m_propagationDefaults.model,
                 par |-> [k \in Kind |-> IF (k = "coeff") = (rq.at = "d_coeff")
                                         THEN Param(rq.mode, rq.val)[k]
                                         ELSE m_propagationDefaults.par[k]]]
           /\ m_propagationDefaults' \in [model : Model \ {"UNKNOWN"}, par : [Kind -> Value]]
           /\ rq' = Request(IF rq.at = "d_coeff" THEN "d_rest" ELSE "next", rq.mode, rq.val, 0, TRUE)
           /\ UNCHANGED <<m_intermediateMap, shadow_std, shadow_std_by_freq, ctl, chosen, overlap>>
<1> DEFINE to == IF rq.at = "d_coeff" THEN "d_rest" ELSE "next"
           q == [k \in Kind |-> IF (k = "coeff") = (rq.at = "d_coeff")
                                THEN Param(rq.mode, rq.val)[k] ELSE m_propagationDefaults.par[k]]
<1>1. rq.at \in {"d_coeff", "d_rest"} /\ To(to)
      /\ m_propagationDefaults' = [m_propagationDefaults EXCEPT !.par = q]
  BY DEF StoreDefault
<1>2. UNCHANGED <<m_intermediateMap, shadow_std, shadow_std_by_freq, ctl, chosen, overlap>>
  BY DEF StoreDefault, shadows, history
<1>3. rq = Request(rq.at, rq.mode, rq.val, 0, TRUE) /\ rq.mode \in Model /\ rq.val \in Value
  BY <1>1, AtStore DEF TypeInv
<1>4. rq' = Request(to, rq.mode, rq.val, 0, TRUE)
  <2> HIDE DEF to
  <2>1. ASSUME NEW a, NEW m, NEW v, rq = Request(a, m, v, 0, TRUE)
        PROVE  rq' = Request(to, m, v, 0, TRUE)
    BY <1>1, <2>1 DEF To, Request
  <2> QED BY <1>3, <2>1
<1>5. q \in [Kind -> Value]
  BY <1>3, ParamType, SMTT(30) DEF TypeInv, DataType
<1> HIDE DEF q
<1>6. m_propagationDefaults' = [model |-> m_propagationDefaults.model, par |-> q]
      /\ m_propagationDefaults.model \in Model \ {"UNKNOWN"}
  BY <1>1 DEF TypeInv, DataType
<1> QED BY <1>2, <1>4, <1>5, <1>6 DEF q

LEMMA StoreDefaultType ==
    ASSUME TypeInv, StoreDefault
    PROVE  TypeInv'
<1>1. rq.at \in {"d_coeff", "d_rest"} /\ rq.mode \in Model /\ rq.val \in Value
  BY AtStore DEF StoreDefault, TypeInv
<1>2. RequestType'
  <2>1. rq' \in [at : {"d_coeff", "d_rest"}, mode : Model, val : Value, f : {0}, all : {TRUE}]
                \cup [at : {"next"}, mode : Model, val : Value, f : Freq \cup {0}, all : BOOLEAN]
    <3> DEFINE to == IF rq.at = "d_coeff" THEN "d_rest" ELSE "next"
    <3>1. rq' = Request(to, rq.mode, rq.val, 0, TRUE) /\ to \in {"d_rest", "next"}
      BY StoreDefaultStep
    <3> HIDE DEF to
    <3> QED BY <1>1, <3>1 DEF Request
  <2>2. rq'.at \in {"d_rest", "next"}
    BY <1>1, StoreDefaultStep, SMTT(30) DEF Request
  <2> QED BY <2>1, <2>2 DEF RequestType, Work
<1>3. MapType' /\ ControllerType'
  BY StoreDefaultStep, SameMap DEF TypeInv, ControllerType
<1>4. DataType'
  BY StoreDefaultStep DEF TypeInv, DataType
<1> QED BY <1>2, <1>3, <1>4 DEF TypeInv

\* A request between two frequencies, or one that sets the shadowing.
LEMMA AtNext ==
    ASSUME RequestType, rq.at = "next"
    PROVE  /\ rq = Request("next", rq.mode, rq.val, rq.f, rq.all) /\ rq # Idle
           /\ rq.mode \in Model /\ rq.val \in Value /\ rq.f \in Freq \cup {0} /\ rq.f \in Nat
           /\ rq.all \in BOOLEAN
<1>1. rq # Idle
  BY IdleAt
<1>2. rq \in [at : {"next"}, mode : Model, val : Value, f : Freq \cup {0}, all : BOOLEAN]
  BY <1>1 DEF RequestType, Work
<1>3. rq.f \in Nat
  <2>1. rq.f \in Freq \cup {0}
    BY <1>2
  <2> QED BY <2>1, FreqNat
<1> QED BY <1>1, <1>2, <1>3 DEF Request

LEMMA AtShadow ==
    ASSUME RequestType, rq.at = "shadow"
    PROVE  /\ rq = Request("shadow", rq.mode, rq.val, rq.f, rq.all) /\ rq # Idle
           /\ rq.mode \in Model /\ rq.val \in Deviation /\ rq.f \in Freq /\ rq.f \in Nat
           /\ rq.all = FALSE
<1>1. rq # Idle
  BY IdleAt
<1>2. rq \in [at : {"shadow"}, mode : Model, val : Deviation, f : Freq, all : {FALSE}]
  BY <1>1 DEF RequestType, Work
<1>3. rq.f \in Nat
  <2>1. rq.f \in Freq \cup {0}
    BY <1>2
  <2> QED BY <2>1, FreqNat
<1> QED BY <1>1, <1>2, <1>3 DEF Request

LEMMA NextFrequencyStep ==
    ASSUME TypeInv, NextFrequency
    PROVE  /\ \/ rq' = Idle /\ (rq.all => \A g \in DOMAIN m_intermediateMap : g <= rq.f)
              \/ \E n : /\ rq.all /\ rq' = Request("model", rq.mode, rq.val, n, TRUE)
                       /\ n \in DOMAIN m_intermediateMap /\ n \in Freq /\ n > rq.f
                       /\ \A g \in DOMAIN m_intermediateMap : g > rq.f => n <= g
           /\ UNCHANGED <<m_propagationDefaults, m_intermediateMap, shadow_std, shadow_std_by_freq,
                          ctl, chosen, overlap>>
<1>1. PICK n : /\ rq.at = "next" /\ Follows(n, rq.f)
               /\ rq' = IF rq.all /\ n # 0 THEN [rq EXCEPT !.at = "model", !.f = n] ELSE Idle
  BY DEF NextFrequency
<1>2. /\ rq = Request("next", rq.mode, rq.val, rq.f, rq.all) /\ rq.f \in Nat
      /\ rq.all \in BOOLEAN
  BY <1>1, AtNext DEF TypeInv
<1> DEFINE Visit(x) == [rq EXCEPT !.at = "model", !.f = x]
<1>3. ASSUME NEW a, NEW m, NEW v, NEW f, NEW b, rq = Request(a, m, v, f, b), NEW x
      PROVE  Visit(x) = Request("model", m, v, x, b)
  <2> DEFINE r == [rq EXCEPT !.at = "model"]
  <2>1. [rq EXCEPT !.at = "model", !.f = x] = [r EXCEPT !.f = x]
    OBVIOUS
  <2>2. r = Request("model", m, v, f, b)
    BY <1>3, SMTT(30) DEF Request
  <2> HIDE DEF r
  <2> QED BY <2>1, <2>2, SMTT(30) DEF Request
<1>4. Visit(n) = Request("model", rq.mode, rq.val, n, rq.all)
  <2> HIDE DEF Visit
  <2> QED BY <1>2, <1>3, SMTT(30)
<1>5. UNCHANGED <<m_propagationDefaults, m_intermediateMap, shadow_std, shadow_std_by_freq,
                  ctl, chosen, overlap>>
  BY DEF NextFrequency, shadows, history
<1> HIDE DEF Visit
<1>6. CASE rq.all /\ n # 0
  <2>1. rq' = Request("model", rq.mode, rq.val, n, rq.all) /\ rq.all = TRUE
    BY <1>1, <1>2, <1>4, <1>6 DEF Visit
  <2>2. /\ n \in DOMAIN m_intermediateMap /\ n \in Freq /\ n > rq.f
        /\ \A g \in DOMAIN m_intermediateMap : g > rq.f => n <= g
    BY <1>1, <1>2, <1>6, FollowsFacts DEF TypeInv
  <2> QED BY <1>5, <2>1, <2>2
<1>7. CASE ~(rq.all /\ n # 0)
  BY <1>1, <1>2, <1>5, <1>7, FollowsFacts DEF TypeInv
<1> QED BY <1>6, <1>7

LEMMA NextFrequencyType ==
    ASSUME TypeInv, NextFrequency
    PROVE  TypeInv'
<1>1. MapType' /\ ControllerType' /\ DataType'
  BY NextFrequencyStep, SameMap DEF TypeInv, ControllerType, DataType
<1>2. rq.mode \in Model /\ rq.val \in Value
  BY AtNext DEF NextFrequency, TypeInv
<1>3. CASE rq' = Idle
  BY <1>1, <1>3 DEF TypeInv, RequestType
<1>4. ASSUME NEW f \in Freq, rq' = Request("model", rq.mode, rq.val, f, TRUE),
             f \in DOMAIN m_intermediateMap'
      PROVE  RequestType'
  <2>1. rq' \in [at : Work, mode : Model, val : Value, f : Freq, all : BOOLEAN]
    BY <1>2, <1>4 DEF Request, Work
  <2>2. rq'.at = "model" /\ rq'.f = f
    BY <1>4 DEF Request
  <2> QED BY <1>4, <2>1, <2>2 DEF RequestType
<1> QED BY <1>1, <1>3, <1>4, NextFrequencyStep DEF TypeInv

\* The shadowing of one frequency or of all.
LEMMA ShadowFreqType ==
    ASSUME TypeInv, NEW f \in Freq, NEW v, UPD_SHADOW_STD_Freq(f, v)
    PROVE  TypeInv'
<1>1. /\ IF f \in DOMAIN m_intermediateMap THEN Shadowed(f, v) ELSE UNCHANGED m_intermediateMap
      /\ shadow_std_by_freq' = [shadow_std_by_freq EXCEPT ![f] = {v}]
      /\ UNCHANGED <<m_propagationDefaults, rq, ctl, chosen>>
  BY DEF UPD_SHADOW_STD_Freq, history
<1>2. MapType' /\ DOMAIN m_intermediateMap' = DOMAIN m_intermediateMap
  BY <1>1, ShadowEffect, EffectType, SameMap DEF TypeInv
<1>3. DataType'
  BY <1>1, <1>2 DEF TypeInv, DataType
<1> QED BY <1>1, <1>2, <1>3 DEF TypeInv, RequestType, ControllerType

\* The request that visits f, or none.
LEMMA ShadowRequest ==
    ASSUME NEW f \in Freq, NEW m \in Model, NEW v \in Deviation,
           rq' = Request("shadow", m, v, f, FALSE)
    PROVE  RequestType'
<1>1. rq' \in [at : {"shadow"}, mode : Model, val : Deviation, f : Freq, all : {FALSE}]
  BY DEF Request
<1>2. rq'.at = "shadow"
  BY DEF Request
<1> QED BY <1>1, <1>2 DEF RequestType, Work

LEMMA ShadowAllStep ==
    ASSUME TypeInv, NEW v, UPD_SHADOW_STD(v)
    PROVE  /\ \/ rq' = Idle /\ \A g \in DOMAIN m_intermediateMap : g <= 0
              \/ \E n \in Freq : /\ rq' = Request("shadow", "NONE", v, n, FALSE)
                                 /\ \A g \in DOMAIN m_intermediateMap : g > 0 => n <= g
           /\ UNCHANGED <<m_propagationDefaults, m_intermediateMap, shadow_std_by_freq, ctl, chosen,
                          overlap>>
<1>1. PICK n : /\ Follows(n, 0)
               /\ rq' = IF n = 0 THEN Idle ELSE Request("shadow", "NONE", v, n, FALSE)
  BY DEF UPD_SHADOW_STD
<1>2. UNCHANGED <<m_propagationDefaults, m_intermediateMap, shadow_std_by_freq, ctl, chosen, overlap>>
  BY DEF UPD_SHADOW_STD, history
<1> QED BY <1>1, <1>2, FollowsFacts DEF TypeInv

LEMMA ShadowAllType ==
    ASSUME TypeInv, NEW v \in Deviation, UPD_SHADOW_STD(v)
    PROVE  TypeInv'
<1>1. UNCHANGED <<m_propagationDefaults, m_intermediateMap, shadow_std_by_freq, ctl, chosen>>
  BY ShadowAllStep
<1>2. MapType' /\ ControllerType' /\ DataType'
  BY <1>1, SameMap DEF TypeInv, ControllerType, DataType
<1>3. CASE rq' = Idle
  BY <1>1, <1>2, <1>3 DEF TypeInv, RequestType
<1>4. ASSUME NEW n \in Freq, rq' = Request("shadow", "NONE", v, n, FALSE)
      PROVE  RequestType'
  BY <1>4, ShadowRequest DEF Model
<1> QED BY <1>2, <1>3, <1>4, ShadowAllStep DEF TypeInv

LEMMA ShadowNextStep ==
    ASSUME TypeInv, setShadowingSTD
    PROVE  /\ rq.at = "shadow" /\ rq.f \in Nat
           /\ IF rq.f \in DOMAIN m_intermediateMap
              THEN Shadowed(rq.f, shadow_std) ELSE UNCHANGED m_intermediateMap
           /\ \/ rq' = Idle /\ \A g \in DOMAIN m_intermediateMap : g <= rq.f
              \/ \E n \in Freq : /\ rq' = Request("shadow", rq.mode, rq.val, n, FALSE)
                                 /\ \A g \in DOMAIN m_intermediateMap : g > rq.f => n <= g
           /\ UNCHANGED <<m_propagationDefaults, shadow_std, shadow_std_by_freq, ctl, chosen, overlap>>
<1>1. /\ rq.at = "shadow"
      /\ IF rq.f \in DOMAIN m_intermediateMap
         THEN Shadowed(rq.f, shadow_std) ELSE UNCHANGED m_intermediateMap
      /\ UNCHANGED <<m_propagationDefaults, shadow_std, shadow_std_by_freq, ctl, chosen, overlap>>
  BY DEF setShadowingSTD, shadows, history
<1>2. rq = Request("shadow", rq.mode, rq.val, rq.f, rq.all) /\ rq.f \in Nat /\ rq.all = FALSE
  BY <1>1, AtShadow DEF TypeInv
<1> DEFINE Visit(x) == [rq EXCEPT !.f = x]
<1>3. ASSUME NEW a, NEW m, NEW v, NEW f, NEW b, rq = Request(a, m, v, f, b), NEW x
      PROVE  Visit(x) = Request(a, m, v, x, b)
  BY <1>3, SMTT(30) DEF Request
<1>4. PICK n : Follows(n, rq.f) /\ rq' = IF n = 0 THEN Idle ELSE Visit(n)
  BY DEF setShadowingSTD
<1> HIDE DEF Visit
<1>5. n # 0 => rq' = Request("shadow", rq.mode, rq.val, n, FALSE)
  <2>1. Visit(n) = Request("shadow", rq.mode, rq.val, n, rq.all)
    BY <1>2, <1>3, SMTT(30)
  <2> QED BY <1>2, <1>4, <2>1
<1>6. /\ n = 0 => \A g \in DOMAIN m_intermediateMap : g <= rq.f
      /\ n # 0 => n \in Freq /\ \A g \in DOMAIN m_intermediateMap : g > rq.f => n <= g
  BY <1>2, <1>4, FollowsFacts DEF TypeInv
<1> QED BY <1>1, <1>2, <1>4, <1>5, <1>6

LEMMA ShadowNextType ==
    ASSUME TypeInv, setShadowingSTD
    PROVE  TypeInv'
<1>1. MapType' /\ DOMAIN m_intermediateMap' = DOMAIN m_intermediateMap
  BY ShadowNextStep, ShadowEffect, EffectType, SameMap DEF TypeInv
<1>2. ControllerType' /\ DataType'
  BY <1>1, ShadowNextStep DEF TypeInv, ControllerType, DataType
<1>3. CASE rq' = Idle
  BY <1>1, <1>2, <1>3 DEF TypeInv, RequestType
<1>4. ASSUME NEW n \in Freq, rq' = Request("shadow", rq.mode, rq.val, n, FALSE)
      PROVE  TypeInv'
  <2>1. rq.mode \in Model /\ rq.val \in Deviation
    BY ShadowNextStep, AtShadow DEF TypeInv
  <2> QED BY <1>1, <1>2, <1>4, <2>1, ShadowRequest DEF TypeInv
<1> QED BY <1>3, <1>4, ShadowNextStep

LEMMA CreateType ==
    ASSUME TypeInv, NEW f \in Freq, CreateChannel(f)
    PROVE  TypeInv'
<1>1. /\ ctl' = [at |-> "coeff", f |-> f, model |-> m_propagationDefaults.model]
      /\ f \notin DOMAIN m_intermediateMap
      /\ UNCHANGED <<m_propagationDefaults, m_intermediateMap, shadow_std_by_freq, rq, chosen>>
  BY DEF CreateChannel, shadows
<1>2. MapType' /\ RequestType' /\ DataType'
  BY <1>1, SameMap DEF TypeInv, RequestType, DataType
<1>3. ControllerType'
  BY <1>1 DEF TypeInv, DataType, ControllerType
<1> QED BY <1>2, <1>3 DEF TypeInv

LEMMA LoadStep ==
    ASSUME TypeInv, LoadDefault
    PROVE  /\ ctl # Idle /\ ctl.f \in Freq /\ ctl.f \notin DOMAIN m_intermediateMap
           /\ ctl.model \in Model
           /\ \/ /\ ctl.at = "coeff"
                 /\ ctl' = [at |-> "scenario", f |-> ctl.f, model |-> ctl.model,
                            coeff |-> m_propagationDefaults.par["coeff"]]
              \/ /\ ctl.at = "scenario" /\ ctl.coeff \in Value
                 /\ ctl' = [at |-> "insert", f |-> ctl.f, model |-> ctl.model, coeff |-> ctl.coeff,
                            scenario |-> m_propagationDefaults.par["scenario"]]
           /\ UNCHANGED <<m_propagationDefaults, m_intermediateMap, shadow_std, shadow_std_by_freq, rq,
                          chosen, overlap>>
<1>1. ctl # Idle
  BY IdleAt DEF LoadDefault
<1>2. ctl.f \in Freq /\ ctl.f \notin DOMAIN m_intermediateMap /\ ctl.model \in Model
  BY <1>1 DEF TypeInv, ControllerType
<1>3. ctl.at = "scenario" => ctl.coeff \in Value
  BY <1>1 DEF TypeInv, ControllerType
<1> QED BY <1>1, <1>2, <1>3 DEF LoadDefault, shadows, history

LEMMA LoadType ==
    ASSUME TypeInv, LoadDefault
    PROVE  TypeInv'
<1>1. MapType' /\ RequestType' /\ DataType'
  BY LoadStep, SameMap DEF TypeInv, RequestType, DataType
<1>2. /\ m_propagationDefaults.par["coeff"] \in Value
      /\ m_propagationDefaults.par["scenario"] \in Value
  BY DEF TypeInv, DataType, Kind
<1>3. ControllerType'
  <2>1. CASE ctl.at = "coeff"
    BY <1>2, <2>1, LoadStep, SMTT(30) DEF ControllerType
  <2>2. CASE ctl.at = "scenario"
    BY <1>2, <2>2, LoadStep, SMTT(30) DEF ControllerType
  <2> QED BY <2>1, <2>2, LoadStep
<1> QED BY <1>1, <1>3 DEF TypeInv

LEMMA InsertChannelType ==
    ASSUME TypeInv, InsertChannel
    PROVE  TypeInv'
<1>1. /\ MapType' /\ DOMAIN m_intermediateMap' = DOMAIN m_intermediateMap \cup {ctl.f}
  BY GrowEffect DEF TypeInv
<1>2. UNCHANGED <<m_propagationDefaults, shadow_std_by_freq, rq, chosen>> /\ ctl' = Idle
  BY DEF InsertChannel, shadows, history
<1>3. RequestType' /\ DataType'
  BY <1>1, <1>2 DEF TypeInv, RequestType, DataType
<1> QED BY <1>1, <1>2, <1>3 DEF TypeInv, ControllerType

LEMMA EraseStep ==
    ASSUME TypeInv, NEW f \in Freq, isChannelEmpty(f)
    PROVE  /\ ctl = Idle /\ ctl' = Idle
           /\ f \in DOMAIN m_intermediateMap
           /\ chosen' = [chosen EXCEPT ![f] = << >>]
           /\ \/ rq.at \in Work /\ rq.f = f /\ To("next")
              \/ ~(rq.at \in Work /\ rq.f = f) /\ rq' = rq
           /\ UNCHANGED <<m_propagationDefaults, shadow_std, shadow_std_by_freq, overlap>>
BY DEF isChannelEmpty, Call, Work, To, shadows

LEMMA EraseType ==
    ASSUME TypeInv, NEW f \in Freq, isChannelEmpty(f)
    PROVE  TypeInv'
<1>1. /\ MapType' /\ DOMAIN m_intermediateMap' = DOMAIN m_intermediateMap \ {f}
  BY ShrinkEffect DEF TypeInv
<1>2. DataType'
  BY <1>1, EraseStep DEF TypeInv, DataType
<1>3. CASE rq.at \in Work /\ rq.f = f /\ To("next")
  <2>1. /\ rq = Request(rq.at, rq.mode, rq.val, rq.f, rq.all)
        /\ rq.mode \in Model /\ rq.val \in Value /\ rq.f \in Freq /\ rq.all \in BOOLEAN
    BY <1>3, AtWork DEF TypeInv
  <2>2. rq' = Request("next", rq.mode, rq.val, rq.f, rq.all) /\ rq'.at = "next"
    BY <1>3, <2>1, Moved, SMTT(30)
  <2>3. rq' \in [at : {"next"}, mode : Model, val : Value, f : Freq \cup {0}, all : BOOLEAN]
    BY <2>1, <2>2 DEF Request
  <2>4. RequestType'
    BY <2>2, <2>3 DEF RequestType, Work
  <2> QED BY <1>1, <1>2, <2>4, EraseStep DEF TypeInv, ControllerType
<1>4. CASE ~(rq.at \in Work /\ rq.f = f) /\ rq' = rq
  BY <1>1, <1>2, <1>4, EraseStep DEF TypeInv, ControllerType, RequestType
<1> QED BY <1>3, <1>4, EraseStep

LEMMA InsertLinkType ==
    ASSUME TypeInv, NEW f, NEW l, insertChannelIfMissing(f, l)
    PROVE  TypeInv'
<1>1. MapType' /\ DOMAIN m_intermediateMap' = DOMAIN m_intermediateMap
  BY InsertEffect, EffectType DEF TypeInv
<1>2. UNCHANGED <<m_propagationDefaults, shadow_std_by_freq, rq, ctl, chosen>>
  BY DEF insertChannelIfMissing, shadows, history
<1> QED BY <1>1, <1>2, QuietType

\* Steps that change positions and Doppler only, or take links away.
LEMMA RestStep ==
    ASSUME TypeInv,
           \/ \E f \in Freq, l \in Link, e \in BOOLEAN : CHG_DOPPLER(f, l, e)
           \/ \E f \in Freq, n \in Node : removeChannel(f, n)
           \/ \E n \in Node, p \in Position \cup {NoLocation} : setLocation(n, p)
           \/ configChannels
    PROVE  /\ (\E f : Rest(f)) \/ UNCHANGED m_intermediateMap
           /\ UNCHANGED <<m_propagationDefaults, shadow_std, shadow_std_by_freq, rq, ctl, chosen, overlap>>
<1>1. CASE \E f \in Freq, l \in Link, e \in BOOLEAN : CHG_DOPPLER(f, l, e)
  <2>1. \E f : Rest(f)
    BY <1>1, DopplerEffect DEF TypeInv
  <2> QED BY <1>1, <2>1 DEF CHG_DOPPLER, shadows, history
<1>2. CASE \E f \in Freq, n \in Node : removeChannel(f, n)
  <2>1. \E f : Rest(f)
    BY <1>2, RemoveEffect DEF TypeInv
  <2> QED BY <1>2, <2>1 DEF removeChannel, shadows, history
<1>3. CASE \E n \in Node, p \in Position \cup {NoLocation} : setLocation(n, p)
  BY <1>3 DEF setLocation, shadows, history
<1>4. CASE configChannels
  <2>1. (\E f : Rest(f)) \/ UNCHANGED m_intermediateMap
    BY <1>4, ConfigEffect DEF configChannels, TypeInv
  <2> QED BY <1>4, <2>1 DEF configChannels, shadows, history
<1> QED BY <1>1, <1>2, <1>3, <1>4

\* Every step keeps the types.
LEMMA TypeNext ==
    ASSUME TypeInv, [Next]_vars
    PROVE  TypeInv'
<1>1. ASSUME NEW f \in Freq, NEW s \in Setting, CHG_PL(f, s[1], s[2])
      PROVE  TypeInv'
  BY <1>1, SettingType, ChgPlType
<1>2. ASSUME NEW s \in Setting, SET_DEFAULT_PL(s[1], s[2])
      PROVE  TypeInv'
  BY <1>2, SettingType, SetDefaultType
<1>3. CASE StoreDefault \/ updatePathLoss \/ SetParams \/ NextFrequency \/ setShadowingSTD
  BY <1>3, StoreDefaultType, WorkType, NextFrequencyType, ShadowNextType
<1>4. CASE \/ \E f \in Freq, v \in Deviation : UPD_SHADOW_STD_Freq(f, v)
           \/ \E v \in Deviation : UPD_SHADOW_STD(v)
  BY <1>4, ShadowFreqType, ShadowAllType
<1>5. CASE \/ \E f \in Freq : CreateChannel(f) \/ isChannelEmpty(f)
           \/ LoadDefault \/ InsertChannel
           \/ \E f \in Freq, l \in Link : insertChannelIfMissing(f, l)
  BY <1>5, CreateType, EraseType, LoadType, InsertChannelType, InsertLinkType
<1>6. CASE \/ \E f \in Freq, l \in Link, e \in BOOLEAN : CHG_DOPPLER(f, l, e)
           \/ \E f \in Freq, n \in Node : removeChannel(f, n)
           \/ \E n \in Node, p \in Position \cup {NoLocation} : setLocation(n, p)
           \/ configChannels
  <2>1. /\ (\E f : Rest(f)) \/ UNCHANGED m_intermediateMap
        /\ UNCHANGED <<m_propagationDefaults, shadow_std_by_freq, rq, ctl, chosen>>
    BY <1>6, RestStep
  <2>2. CASE \E f : Rest(f)
    BY <2>1, <2>2, RestType
  <2>3. CASE UNCHANGED m_intermediateMap
    BY <2>1, <2>3, SameMap, QuietType DEF TypeInv
  <2> QED BY <2>1, <2>2, <2>3
<1>7. CASE UNCHANGED vars
  BY <1>7, SameMap, QuietType DEF TypeInv, vars
<1> QED BY <1>1, <1>2, <1>3, <1>4, <1>5, <1>6, <1>7 DEF Next, Requests, Controller

-----------------------------------------------------------------------------
(* The request comes through the steps of its frequency in order *)

\* Model and parameters of the Intermediates that stay are not touched.
MembersKept ==
    \A g \in DOMAIN m_intermediateMap \cap DOMAIN m_intermediateMap' :
        /\ m_intermediateMap'[g].model = m_intermediateMap[g].model
        /\ m_intermediateMap'[g].par = m_intermediateMap[g].par

LEMMA EffectKeeps ==
    ASSUME MapType, NEW f, NEW c, Effect(f, m_intermediateMap[f].model, m_intermediateMap[f].par, c)
    PROVE  MembersKept /\ DOMAIN m_intermediateMap' = DOMAIN m_intermediateMap
<1> DEFINE m == m_intermediateMap[f].model
           p == m_intermediateMap[f].par
<1> HIDE DEF m, p
<1>1. /\ DOMAIN m_intermediateMap' = DOMAIN m_intermediateMap
      /\ m_intermediateMap'[f] = Inter(m, p, c)
      /\ \A g \in DOMAIN m_intermediateMap :
            g # f => m_intermediateMap'[g] = m_intermediateMap[g]
  BY EffectType, SMTT(30) DEF m, p
<1>2. m_intermediateMap'[f].model = m /\ m_intermediateMap'[f].par = p
  BY <1>1, SMTT(30) DEF Inter
<1> QED BY <1>1, <1>2 DEF MembersKept, m, p

\* Only a request that applies a model touches them.
LEMMA OthersKeep ==
    ASSUME TypeInv, [Next]_vars, ~updatePathLoss, ~SetParams
    PROVE  MembersKept
<1> USE DEF TypeInv
<1>1. CASE UNCHANGED m_intermediateMap
  BY <1>1 DEF MembersKept
<1>2. ASSUME NEW f \in Freq, NEW v, UPD_SHADOW_STD_Freq(f, v)
      PROVE  MembersKept
  BY <1>1, <1>2, ShadowEffect, EffectKeeps DEF UPD_SHADOW_STD_Freq
<1>3. CASE setShadowingSTD
  BY <1>1, <1>3, ShadowEffect, EffectKeeps DEF setShadowingSTD
<1>4. ASSUME NEW f \in Freq, NEW l, insertChannelIfMissing(f, l)
      PROVE  MembersKept
  BY <1>4, InsertEffect, EffectKeeps
<1>5. CASE InsertChannel
  BY <1>5, GrowEffect DEF MembersKept
<1>6. ASSUME NEW f \in Freq, isChannelEmpty(f)
      PROVE  MembersKept
  BY <1>6, ShrinkEffect DEF MembersKept
<1>7. CASE \/ \E f \in Freq, l \in Link, e \in BOOLEAN : CHG_DOPPLER(f, l, e)
           \/ \E f \in Freq, n \in Node : removeChannel(f, n)
           \/ \E n \in Node, p \in Position \cup {NoLocation} : setLocation(n, p)
           \/ configChannels
  <2>1. (\E f : Rest(f)) \/ UNCHANGED m_intermediateMap
    BY <1>7, RestStep
  <2> QED BY <1>1, <2>1, EffectKeeps DEF Rest
<1>8. CASE \/ \E f \in Freq, s \in Setting : CHG_PL(f, s[1], s[2])
           \/ \E s \in Setting : SET_DEFAULT_PL(s[1], s[2])
           \/ StoreDefault \/ NextFrequency
           \/ \E v \in Deviation : UPD_SHADOW_STD(v)
           \/ \E f \in Freq : CreateChannel(f)
           \/ LoadDefault \/ UNCHANGED vars
  <2>1. UNCHANGED m_intermediateMap
    BY <1>8 DEF CHG_PL, SET_DEFAULT_PL, StoreDefault, NextFrequency, UPD_SHADOW_STD, CreateChannel,
                LoadDefault, vars
  <2> QED BY <1>1, <2>1
<1> QED BY <1>2, <1>3, <1>4, <1>5, <1>6, <1>7, <1>8 DEF Next, Requests, Controller

\* The steps of updatePathLoss and SetParams, in order.
LEMMA UnderwayWork ==
    ASSUME TypeInv, Underway, updatePathLoss \/ SetParams
    PROVE  Underway'
<1> USE DEF TypeInv
<1> DEFINE i == m_intermediateMap[rq.f]
<1>1. rq.at \in Work /\ UNCHANGED chosen
  BY DEF updatePathLoss, SetParams, Work, history
<1>2. /\ rq = Request(rq.at, rq.mode, rq.val, rq.f, rq.all)
      /\ i.par \in [Kind -> AnyValue] /\ rq.f \in DOMAIN m_intermediateMap
      /\ rq.at \in {"write", "written", "share"} => Uses(rq.mode) \in ChannelKind
  BY <1>1, AtWork, OneIntermediate
<1>3. UnderwayIn(rq, i, chosen[rq.f])
  BY <1>1 DEF Underway
<1>4. ASSUME NEW to, To(to), NEW m, NEW p, NEW c, Effect(rq.f, m, p, c),
             UnderwayIn(Request(to, rq.mode, rq.val, rq.f, rq.all), Inter(m, p, c),
                        chosen[rq.f])
      PROVE  Underway'
  <2>1. rq' = Request(to, rq.mode, rq.val, rq.f, rq.all) /\ rq'.f = rq.f
    BY <1>2, <1>4, Moved, SMTT(30)
  <2>2. m_intermediateMap'[rq.f] = Inter(m, p, c)
    BY <1>4, EffectType, SMTT(30)
  <2> QED BY <1>1, <1>4, <2>1, <2>2 DEF Underway
<1> HIDE DEF i
<1>5. CASE rq.at = "model" /\ updatePathLoss
  <2>1. UnderwayIn(Request("type", rq.mode, rq.val, rq.f, rq.all),
                   Inter(rq.mode, i.par, Chans(rq.f)), chosen[rq.f])
    BY <1>3, <1>5 DEF UnderwayIn, Request, Inter
  <2> QED BY <1>4, <1>5, <2>1, ModelStep DEF i
<1>6. CASE rq.at = "type" /\ updatePathLoss
  <2>1. ASSUME NEW c
        PROVE  UnderwayIn(Request("coeff", rq.mode, rq.val, rq.f, rq.all),
                          Inter(i.model, i.par, c), chosen[rq.f])
    BY <1>3, <1>6 DEF UnderwayIn, Request, Inter
  <2> QED BY <1>4, <1>6, <2>1, TypeStep DEF i
<1>7. CASE rq.at = "coeff" /\ updatePathLoss
  <2> DEFINE p == [i.par EXCEPT !["coeff"] = Param(rq.mode, rq.val)["coeff"]]
             to == IF Uses(rq.mode) \in ChannelKind THEN "write" ELSE "next"
  <2>1. p["coeff"] = Param(rq.mode, rq.val)["coeff"] /\ to \notin {"model", "share"}
    BY <1>2 DEF Kind
  <2>2. To(to) /\ Effect(rq.f, i.model, p, Chans(rq.f))
    BY <1>7, CoeffStep DEF i
  <2> HIDE DEF p, to
  <2>3. UnderwayIn(Request(to, rq.mode, rq.val, rq.f, rq.all),
                   Inter(i.model, p, Chans(rq.f)), chosen[rq.f])
    BY <1>3, <1>7, <2>1 DEF UnderwayIn, Request, Inter
  <2> QED BY <1>4, <2>2, <2>3
<1>8. CASE rq.at = "write" /\ SetParams
  <2> DEFINE p == [i.par EXCEPT ![Uses(rq.mode)] = Torn]
  <2>1. p["coeff"] = i.par["coeff"]
    BY <1>2, <1>8, KindFacts
  <2>2. To("written") /\ Effect(rq.f, i.model, p, Chans(rq.f))
    BY <1>8, WriteStep DEF i
  <2> HIDE DEF p
  <2>3. UnderwayIn(Request("written", rq.mode, rq.val, rq.f, rq.all),
                   Inter(i.model, p, Chans(rq.f)), chosen[rq.f])
    BY <1>3, <1>8, <2>1 DEF UnderwayIn, Request, Inter
  <2> QED BY <1>4, <2>2, <2>3
<1>9. CASE rq.at = "written" /\ SetParams
  <2> DEFINE p == [i.par EXCEPT ![Uses(rq.mode)] = rq.val]
  <2>1. p["coeff"] = i.par["coeff"] /\ p[Uses(rq.mode)] = rq.val
    BY <1>2, <1>9, KindFacts
  <2>2. To("share") /\ Effect(rq.f, i.model, p, Chans(rq.f))
    BY <1>9, WrittenStep DEF i
  <2> HIDE DEF p
  <2>3. UnderwayIn(Request("share", rq.mode, rq.val, rq.f, rq.all),
                   Inter(i.model, p, Chans(rq.f)), chosen[rq.f])
    BY <1>3, <1>9, <2>1 DEF UnderwayIn, Request, Inter
  <2> QED BY <1>4, <2>2, <2>3
<1>10. CASE rq.at = "share" /\ SetParams
  <2>1. rq'.at = "next"
    BY <1>2, <1>10, ShareStep, Moved
  <2> QED BY <2>1 DEF Underway, Work
<1> QED BY <1>5, <1>6, <1>7, <1>8, <1>9, <1>10 DEF updatePathLoss, SetParams

LEMMA UnderwayNext ==
    ASSUME TypeInv, Underway, [Next]_vars
    PROVE  Underway'
<1> USE DEF TypeInv
<1>1. CASE rq'.at \notin Work
  BY <1>1 DEF Underway
<1>2. ASSUME rq' = rq, rq.at \in Work => rq.f \in DOMAIN m_intermediateMap' /\ chosen'[rq.f] = chosen[rq.f],
             ~updatePathLoss, ~SetParams
      PROVE  Underway'
  <2>1. MembersKept
    BY <1>2, OthersKeep
  <2>2. rq.at \in Work => rq.f \in DOMAIN m_intermediateMap
    BY AtWork
  <2> QED BY <1>2, <2>1, <2>2 DEF Underway, UnderwayIn, MembersKept
<1>3. CASE updatePathLoss \/ SetParams
  BY <1>3, UnderwayWork
<1>4. ASSUME NEW f \in Freq, NEW s \in Setting, CHG_PL(f, s[1], s[2])
      PROVE  Underway'
  <2>1. rq' = Request("model", s[1], s[2], f, FALSE) /\ chosen' = [chosen EXCEPT ![f] = Asked(s[1], s[2])]
    BY <1>4 DEF CHG_PL
  <2>2. rq'.at = "model" /\ rq'.f = f /\ rq'.mode = s[1] /\ rq'.val = s[2]
    BY <2>1 DEF Request
  <2>3. chosen'[f] = Asked(s[1], s[2])
    BY <2>1 DEF DataType
  <2> QED BY <2>2, <2>3 DEF Underway, UnderwayIn
<1>5. CASE NextFrequency
  <2>1. CASE rq' = Idle
    BY <1>1, <2>1, IdleAt DEF Work
  <2>2. ASSUME NEW f, rq' = Request("model", rq.mode, rq.val, f, TRUE)
        PROVE  Underway'
    <3>1. rq'.at = "model" /\ rq'.all
      BY <2>2 DEF Request
    <3> QED BY <3>1 DEF Underway, UnderwayIn
  <2> QED BY <1>5, <2>1, <2>2, NextFrequencyStep
<1>6. CASE StoreDefault
  <2> DEFINE to == IF rq.at = "d_coeff" THEN "d_rest" ELSE "next"
  <2>1. rq' = Request(to, rq.mode, rq.val, 0, TRUE) /\ to \notin Work
    BY <1>6, StoreDefaultStep DEF Work
  <2> HIDE DEF to
  <2>2. rq'.at \notin Work
    BY <2>1 DEF Request
  <2> QED BY <1>1, <2>2
<1>7. ASSUME NEW m, NEW v, SET_DEFAULT_PL(m, v)
      PROVE  Underway'
  <2>1. rq'.at \notin Work
    BY <1>7 DEF SET_DEFAULT_PL, Request, Work
  <2> QED BY <1>1, <2>1
<1>8. ASSUME NEW v, UPD_SHADOW_STD(v)
      PROVE  Underway'
  <2>1. rq'.at \notin Work
    BY <1>8, IdleAt, SMTT(30) DEF UPD_SHADOW_STD, Request, Work
  <2> QED BY <1>1, <2>1
<1>9. CASE setShadowingSTD
  <2>1. rq'.at \notin Work
    BY <1>9, ShadowNextStep, IdleAt, SMTT(30) DEF Request, Work
  <2> QED BY <1>1, <2>1
<1>10. ASSUME NEW f \in Freq, isChannelEmpty(f), ~updatePathLoss, ~SetParams
       PROVE  Underway'
  <2>1. CASE rq.at \in Work /\ rq.f = f /\ To("next")
    <3>1. rq'.at = "next"
      BY <2>1, AtWork, Moved
    <3> QED BY <1>1, <3>1 DEF Work
  <2>2. CASE ~(rq.at \in Work /\ rq.f = f) /\ rq' = rq
    <3>1. rq.at \in Work => /\ rq.f \in DOMAIN m_intermediateMap' /\ rq.f \in Freq /\ rq.f # f
      BY <1>10, <2>2, AtWork, ShrinkEffect
    <3>2. rq.at \in Work => chosen'[rq.f] = chosen[rq.f]
      BY <1>10, <3>1, EraseStep DEF DataType
    <3> QED BY <1>2, <1>10, <2>2, <3>1, <3>2
  <2> QED BY <1>10, <2>1, <2>2, EraseStep
<1>11. ASSUME ~updatePathLoss, ~SetParams,
              \/ \E f \in Freq, v \in Deviation : UPD_SHADOW_STD_Freq(f, v)
              \/ \E f \in Freq, l \in Link, e \in BOOLEAN : CHG_DOPPLER(f, l, e)
              \/ \E f \in Freq : CreateChannel(f)
              \/ LoadDefault \/ InsertChannel
              \/ \E f \in Freq, l \in Link : insertChannelIfMissing(f, l)
              \/ \E f \in Freq, n \in Node : removeChannel(f, n)
              \/ \E n \in Node, p \in Position \cup {NoLocation} : setLocation(n, p)
              \/ configChannels \/ UNCHANGED vars
       PROVE  Underway'
  <2>1. UNCHANGED <<rq, chosen>>
    BY <1>11 DEF UPD_SHADOW_STD_Freq, CHG_DOPPLER, CreateChannel, LoadDefault, InsertChannel,
                 insertChannelIfMissing, removeChannel, setLocation, configChannels, history, vars
  <2>2. TypeInv'
    BY TypeNext
  <2>3. rq'.at \in Work => rq'.f \in DOMAIN m_intermediateMap'
    <3>1. rq' = Idle \/ (rq'.at \in Work => rq'.f \in DOMAIN m_intermediateMap')
      BY <2>2 DEF RequestType
    <3>2. Idle.at \notin Work
      BY IdleAt DEF Work
    <3> QED BY <3>1, <3>2
  <2> QED BY <1>2, <1>11, <2>1, <2>3
<1> QED BY <1>3, <1>4, <1>5, <1>6, <1>7, <1>8, <1>9, <1>10, <1>11 DEF Next, Requests, Controller

-----------------------------------------------------------------------------
(* The channels of a frequency agree with it *)

\* What does not concern the request's frequency, or is between no two of its
\* writes, agrees without exception.
LEMMA AgreeCalm ==
    ASSUME NEW q, NEW r, NEW g, NEW i, AgreeAt(q, g, i), q.at \notin Between \/ q.f # g
    PROVE  AgreeAt(r, g, i)
BY DEF AgreeAt, AgreeOf, Stale, Between

LEMMA AgreeInter ==
    ASSUME NEW q, NEW f, NEW m, NEW p, NEW c, AgreeOf(q, f, m, p, c)
    PROVE  AgreeAt(q, f, Inter(m, p, c))
BY InterFields, SMTT(30) DEF AgreeAt

\* Channels with the same types and parameters agree as well.
LEMMA AgreeKept ==
    ASSUME NEW q, NEW f, NEW c, AgreeAt(q, f, m_intermediateMap[f]), Kept(f, c)
    PROVE  AgreeAt(q, f, Inter(m_intermediateMap[f].model, m_intermediateMap[f].par, c))
<1>1. AgreeOf(q, f, m_intermediateMap[f].model, m_intermediateMap[f].par, c)
  BY DEF AgreeAt, AgreeOf, Kept, Chans
<1> QED BY <1>1, AgreeInter

\* One Intermediate changes.
LEMMA AgreeEffect ==
    ASSUME TypeInv, Agreeing, NEW f, NEW m, NEW p, NEW c, Effect(f, m, p, c),
           AgreeAt(rq', f, Inter(m, p, c)),
           rq' = rq \/ rq.at \notin Between \/ rq.f = f
    PROVE  Agreeing'
<1>1. /\ DOMAIN m_intermediateMap' = DOMAIN m_intermediateMap
      /\ m_intermediateMap'[f] = Inter(m, p, c)
      /\ \A g \in DOMAIN m_intermediateMap :
            g # f => m_intermediateMap'[g] = m_intermediateMap[g]
  BY EffectType, SMTT(30) DEF TypeInv
<1>2. ASSUME NEW g \in DOMAIN m_intermediateMap, g # f
      PROVE  AgreeAt(rq', g, m_intermediateMap[g])
  <2>1. AgreeAt(rq, g, m_intermediateMap[g])
    BY DEF Agreeing
  <2> QED BY <1>2, <2>1, AgreeCalm
<1>3. ASSUME NEW g \in DOMAIN m_intermediateMap'
      PROVE  AgreeAt(rq', g, m_intermediateMap'[g])
  <2>1. CASE g = f
    BY <1>1, <2>1
  <2>2. CASE g # f
    BY <1>1, <1>2, <2>2
  <2> QED BY <2>1, <2>2
<1> QED BY <1>3 DEF Agreeing

\* The map does not change.
LEMMA AgreeSame ==
    ASSUME Agreeing, UNCHANGED m_intermediateMap, rq' = rq \/ rq.at \notin Between
    PROVE  Agreeing'
<1>1. ASSUME NEW g \in DOMAIN m_intermediateMap'
      PROVE  AgreeAt(rq', g, m_intermediateMap'[g])
  <2>1. AgreeAt(rq, g, m_intermediateMap[g])
    BY DEF Agreeing
  <2> QED BY <2>1, AgreeCalm
<1> QED BY <1>1 DEF Agreeing

\* The steps of updatePathLoss and SetParams.
LEMMA AgreeWork ==
    ASSUME TypeInv, Underway, Agreeing, updatePathLoss \/ SetParams
    PROVE  Agreeing'
<1> USE DEF TypeInv
<1> DEFINE i == m_intermediateMap[rq.f]
           k == Uses(rq.mode)
<1>1. rq.at \in Work
  BY DEF updatePathLoss, SetParams, Work
<1>2. /\ rq = Request(rq.at, rq.mode, rq.val, rq.f, rq.all) /\ rq.val \in Value
      /\ i.par \in [Kind -> AnyValue] /\ rq.f \in DOMAIN m_intermediateMap
      /\ rq.at \in {"write", "written", "share"} => k \in ChannelKind
      /\ Chans(rq.f) = i.ch
      /\ \A l \in DOMAIN i.ch : i.ch[l].par \in [ChannelKind -> AnyValue]
  BY <1>1, AtWork, OneIntermediate DEF Chans, AreChannels, IsChannel
<1>3. AgreeAt(rq, rq.f, i) /\ (rq.at # "model" => i.model = rq.mode)
  BY <1>1, <1>2 DEF Agreeing, Underway, UnderwayIn
<1>4. ASSUME NEW to, To(to)
      PROVE  rq'.at = to /\ rq'.mode = rq.mode /\ rq'.f = rq.f
  BY <1>2, <1>4, Moved, SMTT(30)
<1>5. ASSUME NEW m, NEW p, NEW c, Effect(rq.f, m, p, c),
             AgreeAt(rq', rq.f, Inter(m, p, c))
      PROVE  Agreeing'
  BY <1>5, AgreeEffect
<1> HIDE DEF i, k
<1>6. CASE rq.at = "model" /\ updatePathLoss
  <2>1. Effect(rq.f, rq.mode, i.par, i.ch) /\ rq'.at = "type" /\ rq'.f = rq.f
    BY <1>2, <1>4, <1>6, ModelStep DEF i
  <2>2. AgreeAt(rq', rq.f, Inter(rq.mode, i.par, i.ch))
    <3>1. AgreeOf(rq', rq.f, rq.mode, i.par, i.ch)
      BY <1>3, <1>6, <2>1 DEF AgreeAt, AgreeOf, Stale
    <3> QED BY <3>1, AgreeInter
  <2> QED BY <1>5, <2>1, <2>2
<1>7. CASE rq.at = "type" /\ updatePathLoss
  <2>1. rq'.at = "coeff"
    BY <1>4, <1>7, TypeStep
  <2>2. PICK c : /\ Effect(rq.f, i.model, i.par, c) /\ DOMAIN c = DOMAIN i.ch
                 /\ \A l \in DOMAIN c : Like(c[l], currentPlType(rq.mode), i.ch[l].par, i.ch[l].shadow)
    BY <1>2, <1>7, TypeStep DEF i
  <2>3. AgreeAt(rq', rq.f, Inter(i.model, i.par, c))
    <3>1. AgreeOf(rq', rq.f, i.model, i.par, c)
      BY <1>3, <1>7, <2>1, <2>2 DEF AgreeAt, AgreeOf, Stale, Like
    <3> QED BY <3>1, AgreeInter
  <2> QED BY <1>5, <2>2, <2>3
<1>8. CASE rq.at = "coeff" /\ updatePathLoss
  <2> DEFINE x == Param(rq.mode, rq.val)["coeff"]
             p == [i.par EXCEPT !["coeff"] = x]
  <2>1. Effect(rq.f, i.model, p, i.ch) /\ rq'.at \in {"write", "next"}
    BY <1>2, <1>4, <1>8, CoeffStep DEF i
  <2>2. x \in Value
    BY <1>2, ParamType, SMTT(30) DEF Kind
  <2>3. p["coeff"] = x /\ \A j \in ChannelKind : p[j] = i.par[j]
    BY <1>2, KindFacts
  <2> HIDE DEF p, x
  <2>4. AgreeAt(rq', rq.f, Inter(i.model, p, i.ch))
    <3>1. AgreeOf(rq', rq.f, i.model, p, i.ch)
      BY <1>3, <1>8, <2>1, <2>2, <2>3, KindFacts DEF AgreeAt, AgreeOf, Stale
    <3> QED BY <3>1, AgreeInter
  <2> QED BY <1>5, <2>1, <2>4
<1>9. CASE rq.at = "write" /\ SetParams
  <2> DEFINE p == [i.par EXCEPT ![k] = Torn]
  <2>1. Effect(rq.f, i.model, p, i.ch) /\ rq'.at = "written" /\ rq'.f = rq.f /\ rq'.mode = rq.mode
    BY <1>2, <1>4, <1>9, WriteStep DEF i, k
  <2>2. \A j \in Kind : j # k => p[j] = i.par[j]
    BY <1>2
  <2> HIDE DEF p
  <2>3. AgreeAt(rq', rq.f, Inter(i.model, p, i.ch))
    <3>1. AgreeOf(rq', rq.f, i.model, p, i.ch)
      BY <1>3, <1>9, <2>1, <2>2, KindFacts DEF AgreeAt, AgreeOf, Stale, k
    <3> QED BY <3>1, AgreeInter
  <2> QED BY <1>5, <2>1, <2>3
<1>10. CASE rq.at = "written" /\ SetParams
  <2> DEFINE p == [i.par EXCEPT ![k] = rq.val]
  <2>1. Effect(rq.f, i.model, p, i.ch) /\ rq'.at = "share" /\ rq'.f = rq.f /\ rq'.mode = rq.mode
    BY <1>2, <1>4, <1>10, WrittenStep DEF i, k
  <2>2. (\A j \in Kind : j # k => p[j] = i.par[j]) /\ p[k] \in Value
    BY <1>2, <1>10, KindFacts
  <2> HIDE DEF p
  <2>3. AgreeAt(rq', rq.f, Inter(i.model, p, i.ch))
    <3>1. AgreeOf(rq', rq.f, i.model, p, i.ch)
      BY <1>3, <1>10, <2>1, <2>2, KindFacts DEF AgreeAt, AgreeOf, Stale, k
    <3> QED BY <3>1, AgreeInter
  <2> QED BY <1>5, <2>1, <2>3
<1>11. CASE rq.at = "share" /\ SetParams
  <2>1. rq'.at = "next"
    BY <1>4, <1>11, ShareStep
  <2>2. PICK c : /\ Effect(rq.f, i.model, i.par, c) /\ DOMAIN c = DOMAIN i.ch
                 /\ \A l \in DOMAIN c :
                        Like(c[l], i.ch[l].plType, [i.ch[l].par EXCEPT ![k] = i.par[k]], i.ch[l].shadow)
    BY <1>2, <1>11, ShareStep DEF i, k
  <2>3. \A l \in DOMAIN c : \A j \in ChannelKind :
            c[l].plType = i.ch[l].plType /\ c[l].par[j] = IF j = k THEN i.par[k] ELSE i.ch[l].par[j]
    <3>1. ASSUME NEW l \in DOMAIN c
          PROVE  /\ c[l].plType = i.ch[l].plType
                 /\ c[l].par = [i.ch[l].par EXCEPT ![k] = i.par[k]]
                 /\ i.ch[l].par \in [ChannelKind -> AnyValue]
      BY <1>2, <2>2, <3>1 DEF Like
    <3> QED BY <3>1
  <2>4. AgreeAt(rq', rq.f, Inter(i.model, i.par, c))
    <3>1. AgreeOf(rq', rq.f, i.model, i.par, c)
      BY <1>3, <1>11, <2>1, <2>2, <2>3, SMTT(30) DEF AgreeAt, AgreeOf, Stale, k, ChannelKind, Kind
    <3> QED BY <3>1, AgreeInter
  <2> QED BY <1>5, <2>2, <2>4
<1> QED BY <1>6, <1>7, <1>8, <1>9, <1>10, <1>11 DEF updatePathLoss, SetParams

LEMMA AgreeNext ==
    ASSUME TypeInv, Underway, Agreeing, [Next]_vars
    PROVE  Agreeing'
<1> USE DEF TypeInv
<1>1. CASE updatePathLoss \/ SetParams
  BY <1>1, AgreeWork
<1>2. CASE UNCHANGED m_intermediateMap /\ (rq' = rq \/ rq.at \notin Between)
  BY <1>2, AgreeSame
<1>3. CASE \/ \E f \in Freq, s \in Setting : CHG_PL(f, s[1], s[2])
           \/ \E s \in Setting : SET_DEFAULT_PL(s[1], s[2])
           \/ StoreDefault \/ NextFrequency
           \/ \E v \in Deviation : UPD_SHADOW_STD(v)
           \/ \E f \in Freq : CreateChannel(f)
           \/ LoadDefault \/ UNCHANGED vars
  <2>1. UNCHANGED m_intermediateMap
    BY <1>3 DEF CHG_PL, SET_DEFAULT_PL, StoreDefault, NextFrequency, UPD_SHADOW_STD, CreateChannel,
                LoadDefault, vars
  <2>2. rq' = rq \/ rq.at \notin Between
    BY <1>3, IdleAt DEF CHG_PL, SET_DEFAULT_PL, StoreDefault, NextFrequency, UPD_SHADOW_STD,
                        CreateChannel, LoadDefault, vars, Command, Between
  <2> QED BY <1>2, <2>1, <2>2
<1>4. ASSUME NEW f \in DOMAIN m_intermediateMap, NEW c, Kept(f, c),
             Effect(f, m_intermediateMap[f].model, m_intermediateMap[f].par, c),
             rq' = rq \/ rq.at \notin Between
      PROVE  Agreeing'
  <2>1. AgreeAt(rq, f, m_intermediateMap[f])
    BY DEF Agreeing
  <2>2. AgreeAt(rq', f, m_intermediateMap[f])
    BY <1>4, <2>1, AgreeCalm
  <2>3. AgreeAt(rq', f, Inter(m_intermediateMap[f].model, m_intermediateMap[f].par, c))
    BY <1>4, <2>2, AgreeKept
  <2> QED BY <1>4, <2>3, AgreeEffect
<1>5. ASSUME NEW f \in Freq, NEW v, UPD_SHADOW_STD_Freq(f, v)
      PROVE  Agreeing'
  <2>1. rq' = rq
    BY <1>5 DEF UPD_SHADOW_STD_Freq
  <2>2. CASE f \in DOMAIN m_intermediateMap
    BY <1>4, <1>5, <2>1, <2>2, ShadowEffect DEF UPD_SHADOW_STD_Freq
  <2>3. CASE f \notin DOMAIN m_intermediateMap
    BY <1>2, <1>5, <2>1, <2>3 DEF UPD_SHADOW_STD_Freq
  <2> QED BY <2>2, <2>3
<1>6. CASE setShadowingSTD
  <2>1. rq.at \notin Between
    BY <1>6 DEF setShadowingSTD, Between
  <2>2. CASE rq.f \in DOMAIN m_intermediateMap
    BY <1>4, <1>6, <2>1, <2>2, ShadowEffect DEF setShadowingSTD
  <2>3. CASE rq.f \notin DOMAIN m_intermediateMap
    BY <1>2, <1>6, <2>1, <2>3 DEF setShadowingSTD
  <2> QED BY <2>2, <2>3
<1>7. CASE \/ \E f \in Freq, l \in Link, e \in BOOLEAN : CHG_DOPPLER(f, l, e)
           \/ \E f \in Freq, n \in Node : removeChannel(f, n)
           \/ \E n \in Node, p \in Position \cup {NoLocation} : setLocation(n, p)
           \/ configChannels
  <2>1. ((\E f : Rest(f)) \/ UNCHANGED m_intermediateMap) /\ rq' = rq
    BY <1>7, RestStep
  <2>2. ASSUME NEW f, Rest(f)
        PROVE  Agreeing'
    BY <1>4, <2>1, <2>2, EffectType DEF Rest
  <2> QED BY <1>2, <2>1, <2>2
<1>8. ASSUME NEW f, NEW l, insertChannelIfMissing(f, l)
      PROVE  Agreeing'
  <2> DEFINE i == m_intermediateMap[f]
  <2>1. rq' = rq
    BY <1>8 DEF insertChannelIfMissing
  <2>2. PICK c : /\ Effect(f, i.model, i.par, c)
                 /\ DOMAIN c = DOMAIN i.ch \cup {l} /\ l \notin DOMAIN i.ch
                 /\ \A k \in DOMAIN i.ch : c[k] = i.ch[k]
                 /\ Like(c[l], currentPlType(i.model), [k \in ChannelKind |-> i.par[k]], 0)
    BY <1>8, InsertEffect DEF Chans
  <2>3. AgreeAt(rq, f, i)
    BY <2>2, EffectType DEF Agreeing
  <2>4. c[l].plType = currentPlType(i.model) /\ \A k \in ChannelKind : c[l].par[k] = i.par[k]
    BY <2>2 DEF Like
  <2> HIDE DEF i
  <2>5. AgreeAt(rq', f, Inter(i.model, i.par, c))
    <3>1. AgreeOf(rq', f, i.model, i.par, c)
      BY <2>1, <2>2, <2>3, <2>4 DEF AgreeAt, AgreeOf
    <3> QED BY <3>1, AgreeInter
  <2> QED BY <2>1, <2>2, <2>5, AgreeEffect
<1>9. CASE InsertChannel
  <2>1. rq' = rq
    BY <1>9 DEF InsertChannel
  <2>2. AgreeAt(rq', ctl.f, NewIntermediate(ctl.model, ctl.coeff, ctl.scenario))
    <3> DEFINE i == NewIntermediate(ctl.model, ctl.coeff, ctl.scenario)
    <3>1. DOMAIN i.ch = {} /\ \A k \in Kind : i.par[k] \in Value
      BY <1>9, GrowEffect, CoordinatorAssumption, SMTT(30) DEF NewIntermediate
    <3> HIDE DEF i
    <3>2. AgreeAt(rq', ctl.f, i)
      BY <3>1 DEF AgreeAt, AgreeOf
    <3> QED BY <3>2 DEF i
  <2>3. ASSUME NEW g \in DOMAIN m_intermediateMap'
        PROVE  AgreeAt(rq', g, m_intermediateMap'[g])
    BY <1>9, <2>1, <2>2, GrowEffect DEF Agreeing
  <2> QED BY <2>3 DEF Agreeing
<1>10. ASSUME NEW f \in Freq, isChannelEmpty(f)
       PROVE  Agreeing'
  <2>1. ASSUME NEW g \in DOMAIN m_intermediateMap'
        PROVE  AgreeAt(rq', g, m_intermediateMap'[g])
    <3>1. /\ g \in DOMAIN m_intermediateMap /\ g # f /\ m_intermediateMap'[g] = m_intermediateMap[g]
          /\ AgreeAt(rq, g, m_intermediateMap[g])
      BY <1>10, ShrinkEffect DEF Agreeing
    <3>2. rq' = rq \/ rq.f # g
      BY <1>10, <3>1, EraseStep
    <3> QED BY <3>1, <3>2, AgreeCalm
  <2> QED BY <2>1 DEF Agreeing
<1> QED BY <1>1, <1>3, <1>5, <1>6, <1>7, <1>8, <1>9, <1>10 DEF Next, Requests, Controller

-----------------------------------------------------------------------------
(* The shadowing of channels is known *)

LEMMA ShadowCalm ==
    ASSUME NEW q, NEW r, NEW f, NEW i, NEW known, ShadowAt(q, f, i, known), q.at # "shadow"
    PROVE  ShadowAt(r, f, i, known)
BY DEF ShadowAt

\* One Intermediate changes, and its channels keep their shadowing or are new.
LEMMA ShadowKept ==
    ASSUME TypeInv, Shadowing, NEW f, NEW m, NEW p, NEW c, Effect(f, m, p, c),
           \A l \in DOMAIN c : \/ l \in DOMAIN Chans(f) /\ c[l].shadow = Chans(f)[l].shadow
                               \/ c[l].shadow = 0,
           rq' = rq \/ rq.at # "shadow",
           UNCHANGED <<shadow_std, shadow_std_by_freq>>
    PROVE  Shadowing'
<1>1. /\ DOMAIN m_intermediateMap' = DOMAIN m_intermediateMap
      /\ m_intermediateMap'[f] = Inter(m, p, c)
      /\ \A g \in DOMAIN m_intermediateMap :
            g # f => m_intermediateMap'[g] = m_intermediateMap[g]
  BY EffectType, SMTT(30) DEF TypeInv
<1>2. ASSUME NEW g \in DOMAIN m_intermediateMap
      PROVE  ShadowAt(rq', g, m_intermediateMap[g], Known(g)) /\ Known(g)' = Known(g) /\ 0 \in Known(g)
  <2>1. ShadowAt(rq, g, m_intermediateMap[g], Known(g))
    BY DEF Shadowing
  <2> QED BY <2>1, ShadowCalm DEF Known
<1>3. ASSUME NEW g \in DOMAIN m_intermediateMap'
      PROVE  ShadowAt(rq', g, m_intermediateMap'[g], Known(g)')
  <2>1. CASE g = f
    <3>1. ShadowAt(rq', f, Inter(m, p, c), Known(f))
      BY <1>1, <1>2, <2>1, InterFields, SMTT(30) DEF ShadowAt, Chans
    <3> QED BY <1>1, <1>2, <2>1, <3>1
  <2>2. CASE g # f
    BY <1>1, <1>2, <2>2
  <2> QED BY <2>1, <2>2
<1> QED BY <1>3 DEF Shadowing

\* Intermediates are not changed, only their set may shrink.
LEMMA ShadowSame ==
    ASSUME TypeInv, Shadowing, DOMAIN m_intermediateMap' \subseteq DOMAIN m_intermediateMap,
           \A g \in DOMAIN m_intermediateMap' : m_intermediateMap'[g] = m_intermediateMap[g],
           rq' = rq \/ rq.at # "shadow",
           UNCHANGED <<shadow_std, shadow_std_by_freq>>
    PROVE  Shadowing'
<1>1. ASSUME NEW g \in DOMAIN m_intermediateMap'
      PROVE  ShadowAt(rq', g, m_intermediateMap'[g], Known(g)')
  <2>1. ShadowAt(rq, g, m_intermediateMap[g], Known(g)) /\ Known(g)' = Known(g)
    BY DEF Shadowing, Known
  <2> QED BY <2>1, ShadowCalm
<1> QED BY <1>1 DEF Shadowing

\* The steps of updatePathLoss and SetParams.
LEMMA ShadowWork ==
    ASSUME TypeInv, Shadowing, updatePathLoss \/ SetParams
    PROVE  Shadowing'
<1> USE DEF TypeInv
<1>1. rq.at # "shadow" /\ UNCHANGED <<shadow_std, shadow_std_by_freq>>
  BY DEF updatePathLoss, SetParams, shadows
<1>2. ASSUME NEW m, NEW p, Effect(rq.f, m, p, Chans(rq.f))
      PROVE  Shadowing'
  BY <1>1, <1>2, ShadowKept
<1>3. CASE rq.at = "type" /\ updatePathLoss
  <2>1. PICK c : /\ Effect(rq.f, m_intermediateMap[rq.f].model, m_intermediateMap[rq.f].par, c)
                 /\ DOMAIN c = DOMAIN Chans(rq.f)
                 /\ \A l \in DOMAIN c : c[l].shadow = Chans(rq.f)[l].shadow
    BY <1>3, TypeStep DEF Like
  <2> QED BY <1>1, <2>1, ShadowKept
<1>4. CASE rq.at = "share" /\ SetParams
  <2>1. PICK c : /\ Effect(rq.f, m_intermediateMap[rq.f].model, m_intermediateMap[rq.f].par, c)
                 /\ DOMAIN c = DOMAIN Chans(rq.f)
                 /\ \A l \in DOMAIN c : c[l].shadow = Chans(rq.f)[l].shadow
    BY <1>4, ShareStep DEF Like
  <2> QED BY <1>1, <2>1, ShadowKept
<1>5. CASE rq.at \in {"model", "coeff"} /\ updatePathLoss
  BY <1>2, <1>5, ModelStep, CoeffStep
<1>6. CASE rq.at \in {"write", "written"} /\ SetParams
  BY <1>2, <1>6, WriteStep, WrittenStep
<1> QED BY <1>3, <1>4, <1>5, <1>6 DEF updatePathLoss, SetParams

\* setShadowingSTD: below the frequency it goes on with every channel is done.
LEMMA ShadowVisit ==
    ASSUME TypeInv, Shadowing, setShadowingSTD
    PROVE  Shadowing'
<1> USE DEF TypeInv
<1>1. /\ DOMAIN m_intermediateMap' = DOMAIN m_intermediateMap
      /\ \A g \in DOMAIN m_intermediateMap : g # rq.f => m_intermediateMap'[g] = m_intermediateMap[g]
      /\ rq.f \in DOMAIN m_intermediateMap =>
            \A l \in DOMAIN m_intermediateMap'[rq.f].ch : m_intermediateMap'[rq.f].ch[l].shadow = shadow_std
  <2>1. CASE rq.f \in DOMAIN m_intermediateMap
    <3>1. PICK c : /\ Effect(rq.f, m_intermediateMap[rq.f].model, m_intermediateMap[rq.f].par, c)
                   /\ \A l \in DOMAIN c : c[l].shadow = shadow_std
      BY <2>1, ShadowNextStep, ShadowEffect, SMTT(30)
    <3> DEFINE m == m_intermediateMap[rq.f].model
               p == m_intermediateMap[rq.f].par
    <3> HIDE DEF m, p
    <3>2. /\ DOMAIN m_intermediateMap' = DOMAIN m_intermediateMap
          /\ m_intermediateMap'[rq.f] = Inter(m, p, c)
          /\ \A g \in DOMAIN m_intermediateMap :
                g # rq.f => m_intermediateMap'[g] = m_intermediateMap[g]
      BY <3>1, EffectType, SMTT(30) DEF m, p
    <3>3. m_intermediateMap'[rq.f].ch = c
      BY <3>2, SMTT(30) DEF Inter
    <3> QED BY <3>1, <3>2, <3>3
  <2>2. CASE rq.f \notin DOMAIN m_intermediateMap
    BY <2>2, ShadowNextStep
  <2> QED BY <2>1, <2>2
<1>2. /\ rq.at = "shadow" /\ rq.f \in Nat
      /\ \A g \in DOMAIN m_intermediateMap : g > rq.f => rq'.at = "shadow" /\ rq'.f <= g
      /\ UNCHANGED <<shadow_std, shadow_std_by_freq>>
  <2>1. CASE rq' = Idle /\ \A g \in DOMAIN m_intermediateMap : g <= rq.f
    <3>1. \A g \in DOMAIN m_intermediateMap : g \in Nat
      BY OneIntermediate, FreqNat
    <3> QED BY <2>1, <3>1, ShadowNextStep, SMTT(30)
  <2>2. ASSUME NEW n \in Freq, rq' = Request("shadow", rq.mode, rq.val, n, FALSE),
               \A g \in DOMAIN m_intermediateMap : g > rq.f => n <= g
        PROVE  \A g \in DOMAIN m_intermediateMap : g > rq.f => rq'.at = "shadow" /\ rq'.f <= g
    BY <2>2 DEF Request
  <2> QED BY <2>1, <2>2, ShadowNextStep
<1>3. ASSUME NEW g \in DOMAIN m_intermediateMap'
      PROVE  ShadowAt(rq', g, m_intermediateMap'[g], Known(g)')
  <2>1. /\ g \in DOMAIN m_intermediateMap /\ g \in Nat
        /\ ShadowAt(rq, g, m_intermediateMap[g], Known(g)) /\ Known(g)' = Known(g)
    BY <1>1, <1>2, OneIntermediate, FreqNat DEF Shadowing, Known
  <2>2. CASE g = rq.f
    BY <1>1, <2>1, <2>2 DEF ShadowAt, Known
  <2>3. CASE g < rq.f
    BY <1>1, <1>2, <2>1, <2>3, SMTT(30) DEF ShadowAt
  <2>4. CASE g > rq.f
    <3>1. rq'.at = "shadow" /\ rq'.f <= g
      BY <1>2, <2>1, <2>4
    <3> QED BY <3>1 DEF ShadowAt
  <2> QED BY <1>2, <2>1, <2>2, <2>3, <2>4, SMTT(30)
<1> QED BY <1>3 DEF Shadowing

LEMMA ShadowNext ==
    ASSUME TypeInv, Shadowing, [Next]_vars
    PROVE  Shadowing'
<1> USE DEF TypeInv
<1>1. CASE updatePathLoss \/ SetParams \/ setShadowingSTD
  BY <1>1, ShadowWork, ShadowVisit
<1>2. CASE \/ \E f \in Freq, s \in Setting : CHG_PL(f, s[1], s[2])
           \/ \E s \in Setting : SET_DEFAULT_PL(s[1], s[2])
           \/ StoreDefault \/ NextFrequency
           \/ \E f \in Freq : CreateChannel(f)
           \/ LoadDefault \/ UNCHANGED vars
  <2>1. UNCHANGED <<m_intermediateMap, shadow_std, shadow_std_by_freq>>
    BY <1>2 DEF CHG_PL, SET_DEFAULT_PL, StoreDefault, NextFrequency, CreateChannel, LoadDefault,
                shadows, vars
  <2>2. rq' = rq \/ rq.at # "shadow"
    BY <1>2, IdleAt DEF CHG_PL, SET_DEFAULT_PL, StoreDefault, NextFrequency, CreateChannel,
                        LoadDefault, vars, Command
  <2> QED BY <2>1, <2>2, ShadowSame
<1>3. ASSUME NEW v, UPD_SHADOW_STD(v)
      PROVE  Shadowing'
  <2>1. /\ UNCHANGED m_intermediateMap
        /\ \/ rq' = Idle /\ \A g \in DOMAIN m_intermediateMap : g <= 0
           \/ \E n \in Freq : /\ rq' = Request("shadow", "NONE", v, n, FALSE)
                              /\ \A g \in DOMAIN m_intermediateMap : g > 0 => n <= g
    BY <1>3, ShadowAllStep
  <2>2. ASSUME NEW g \in DOMAIN m_intermediateMap
        PROVE  rq'.at = "shadow" /\ rq'.f <= g
    <3>1. g \in Nat /\ g > 0
      <4>1. g \in Freq
        BY OneIntermediate
      <4>2. g \in Nat /\ g # 0
        BY <4>1, FreqNat
      <4> QED BY <4>2, SMTT(30)
    <3>2. ~(g <= 0)
      BY <3>1, SMTT(30)
    <3>3. PICK n \in Freq : /\ rq' = Request("shadow", "NONE", v, n, FALSE)
                            /\ \A h \in DOMAIN m_intermediateMap : h > 0 => n <= h
      BY <2>1, <2>2, <3>2
    <3>4. n <= g
      BY <2>2, <3>1, <3>3
    <3> QED BY <3>3, <3>4 DEF Request
  <2> QED BY <2>1, <2>2 DEF Shadowing, ShadowAt
<1>4. ASSUME NEW f \in Freq, NEW v, UPD_SHADOW_STD_Freq(f, v)
      PROVE  Shadowing'
  <2>1. /\ rq = Idle /\ rq' = rq /\ shadow_std' = shadow_std
        /\ shadow_std_by_freq' = [shadow_std_by_freq EXCEPT ![f] = {v}]
        /\ IF f \in DOMAIN m_intermediateMap THEN Shadowed(f, v) ELSE UNCHANGED m_intermediateMap
    BY <1>4 DEF UPD_SHADOW_STD_Freq, Command
  <2>2. ASSUME NEW g \in DOMAIN m_intermediateMap, g # f
        PROVE  ShadowAt(rq', g, m_intermediateMap[g], Known(g)')
    <3>1. Known(g)' = Known(g)
      BY <2>1, <2>2, OneIntermediate DEF Known, DataType
    <3> QED BY <2>1, <3>1 DEF Shadowing
  <2>3. CASE f \in DOMAIN m_intermediateMap
    <3> DEFINE m == m_intermediateMap[f].model
               p == m_intermediateMap[f].par
    <3>1. PICK c : Effect(f, m, p, c) /\ \A l \in DOMAIN c : c[l].shadow = v
      BY <2>1, <2>3, ShadowEffect, SMTT(30)
    <3> HIDE DEF m, p
    <3>2. /\ DOMAIN m_intermediateMap' = DOMAIN m_intermediateMap
          /\ m_intermediateMap'[f] = Inter(m, p, c)
          /\ \A g \in DOMAIN m_intermediateMap :
                g # f => m_intermediateMap'[g] = m_intermediateMap[g]
      BY <3>1, EffectType, SMTT(30)
    <3>3. v \in Known(f)'
      BY <2>1 DEF Known, DataType
    <3>4. m_intermediateMap'[f].ch = c
      BY <3>2, SMTT(30) DEF Inter
    <3>5. ShadowAt(rq', f, m_intermediateMap'[f], Known(f)')
      BY <3>1, <3>3, <3>4 DEF ShadowAt
    <3> QED BY <2>2, <3>2, <3>5 DEF Shadowing
  <2>4. CASE f \notin DOMAIN m_intermediateMap
    BY <2>1, <2>2, <2>4 DEF Shadowing
  <2> QED BY <2>3, <2>4
<1>5. CASE \/ \E f \in Freq, l \in Link, e \in BOOLEAN : CHG_DOPPLER(f, l, e)
           \/ \E f \in Freq, n \in Node : removeChannel(f, n)
           \/ \E n \in Node, p \in Position \cup {NoLocation} : setLocation(n, p)
           \/ configChannels
  <2>1. /\ (\E f : Rest(f)) \/ UNCHANGED m_intermediateMap
        /\ rq' = rq /\ UNCHANGED <<shadow_std, shadow_std_by_freq>>
    BY <1>5, RestStep
  <2>2. ASSUME NEW f, Rest(f)
        PROVE  Shadowing'
    BY <2>1, <2>2, ShadowKept DEF Rest, Kept
  <2> QED BY <2>1, <2>2, ShadowSame
<1>6. ASSUME NEW f, NEW l, insertChannelIfMissing(f, l)
      PROVE  Shadowing'
  <2>1. rq' = rq /\ UNCHANGED <<shadow_std, shadow_std_by_freq>>
    BY <1>6 DEF insertChannelIfMissing, shadows
  <2>2. PICK c : /\ Effect(f, m_intermediateMap[f].model, m_intermediateMap[f].par, c)
                 /\ DOMAIN c = DOMAIN Chans(f) \cup {l}
                 /\ \A k \in DOMAIN Chans(f) : c[k] = Chans(f)[k]
                 /\ \E t, p : Like(c[l], t, p, 0)
    BY <1>6, InsertEffect
  <2>3. c[l].shadow = 0
    BY <2>2 DEF Like
  <2> QED BY <2>1, <2>2, <2>3, ShadowKept
<1>7. CASE InsertChannel
  <2>1. rq' = rq /\ UNCHANGED <<shadow_std, shadow_std_by_freq>>
    BY <1>7 DEF InsertChannel, shadows
  <2>2. DOMAIN m_intermediateMap'[ctl.f].ch = {}
    BY <1>7, GrowEffect, SMTT(30) DEF NewIntermediate
  <2>3. ASSUME NEW g \in DOMAIN m_intermediateMap
        PROVE  ShadowAt(rq', g, m_intermediateMap'[g], Known(g)')
    <3>1. ShadowAt(rq, g, m_intermediateMap[g], Known(g)) /\ Known(g)' = Known(g)
      BY <2>1 DEF Shadowing, Known
    <3>2. m_intermediateMap'[g] = m_intermediateMap[g]
      BY <1>7, GrowEffect
    <3> QED BY <2>1, <3>1, <3>2
  <2> QED BY <1>7, <2>2, <2>3, GrowEffect DEF Shadowing, ShadowAt
<1>8. ASSUME NEW f \in Freq, isChannelEmpty(f)
      PROVE  Shadowing'
  <2>1. rq' = rq \/ rq.at # "shadow"
    BY <1>8, EraseStep DEF Work
  <2>2. UNCHANGED <<shadow_std, shadow_std_by_freq>>
    BY <1>8, EraseStep
  <2> QED BY <1>8, <2>1, <2>2, ShrinkEffect, ShadowSame
<1> QED BY <1>1, <1>2, <1>3, <1>4, <1>5, <1>6, <1>7, <1>8 DEF Next, Requests, Controller

\* Initially there is nothing to agree with.
LEMMA FirstState == Init => TypeInv /\ Underway /\ Agreeing /\ Shadowing
<1> SUFFICES ASSUME Init PROVE TypeInv /\ Underway /\ Agreeing /\ Shadowing
  OBVIOUS
<1>1. m_intermediateMap = << >> /\ DOMAIN m_intermediateMap = {}
  BY SMTT(30) DEF Init
<1>2. MapType /\ RequestType /\ ControllerType
  BY <1>1, SMTT(30) DEF Init, MapType, RequestType, ControllerType
<1>3. DataType
  BY CoordinatorAssumption DEF Init, DataType, Model
<1>4. Underway /\ Agreeing /\ Shadowing
  BY <1>1, IdleAt DEF Init, Underway, Agreeing, Shadowing, Work
<1> QED BY <1>2, <1>3, <1>4 DEF TypeInv

\* What the inductive invariants say of the channels in a state.
LEMMA AgreeingLinks ==
    ASSUME TypeInv, Agreeing, Shadowing
    PROVE  LinksAgree
<1> SUFFICES ASSUME NEW f \in DOMAIN m_intermediateMap, rq = Idle \/ rq.f # f,
                    NEW l \in DOMAIN Chans(f)
             PROVE  /\ Chans(f)[l].plType = currentPlType(m_intermediateMap[f].model)
                    /\ \A k \in ChannelKind :
                        Chans(f)[l].par[k] = m_intermediateMap[f].par[k] /\ Chans(f)[l].par[k] # Torn
                    /\ rq = Idle => Chans(f)[l].shadow \in {0, shadow_std} \cup shadow_std_by_freq[f]
  BY DEF LinksAgree
<1>1. rq.at \notin Between \/ rq.f # f
  BY IdleAt DEF Between
<1>2. AgreeAt(rq, f, m_intermediateMap[f]) /\ ShadowAt(rq, f, m_intermediateMap[f], Known(f))
  BY DEF Agreeing, Shadowing
<1>3. /\ Chans(f)[l].plType = currentPlType(m_intermediateMap[f].model)
      /\ \A k \in ChannelKind : Chans(f)[l].par[k] = m_intermediateMap[f].par[k]
      /\ \A k \in Kind : m_intermediateMap[f].par[k] \in Value
  BY <1>1, <1>2 DEF AgreeAt, AgreeOf, Stale, Chans, Between
<1>4. \A k \in ChannelKind : Chans(f)[l].par[k] # Torn
  BY <1>3, KindFacts, CoordinatorAssumption
<1>5. rq = Idle => Chans(f)[l].shadow \in {0, shadow_std} \cup shadow_std_by_freq[f]
  BY <1>2, IdleAt DEF ShadowAt, Chans, Known
<1> QED BY <1>3, <1>4, <1>5

\* Whatever requests, creations and removals of channels and the update thread do
\* between the unlocked writes of setPathLossMode and of the setters of parameters and
\* their visits to the channels: a frequency no request is at work on has channels
\* that agree with it and nothing torn, and shadowing that can be reported.
THEOREM LinksAgreeAlways == Spec => []LinksAgree
<1>1. Init => TypeInv /\ Underway /\ Agreeing /\ Shadowing
  BY FirstState
<1>2. TypeInv /\ Underway /\ Agreeing /\ Shadowing /\ [Next]_vars
        => (TypeInv /\ Underway /\ Agreeing /\ Shadowing)'
  BY TypeNext, UnderwayNext, AgreeNext, ShadowNext
<1>3. TypeInv /\ Underway /\ Agreeing /\ Shadowing => LinksAgree
  BY AgreeingLinks
<1> QED BY <1>1, <1>2, <1>3, PTL DEF Spec

-----------------------------------------------------------------------------
(* The defaults are stored, and read as they are *)

\* A request that goes on with the same model and value, nothing stored meanwhile.
LEMMA StoringKept ==
    ASSUME Storing, UNCHANGED m_propagationDefaults,
           \A f \in Freq : chosen[f] = << >> => chosen'[f] = << >>,
           \/ rq' = Idle \/ rq'.all = FALSE \/ rq' = rq
           \/ /\ rq.at \notin {"idle", "d_coeff", "d_rest"}
              /\ rq'.mode = rq.mode /\ rq'.val = rq.val /\ rq'.all = rq.all
    PROVE  Storing'
<1>1. CASE rq' = Idle \/ rq'.all = FALSE
  BY <1>1, IdleAt DEF Storing, InDefault
<1>2. CASE rq' = rq
  BY <1>2 DEF Storing, InDefault, StoringIn
<1>3. CASE /\ rq.at \notin {"idle", "d_coeff", "d_rest"}
           /\ rq'.mode = rq.mode /\ rq'.val = rq.val /\ rq'.all = rq.all
  <2> SUFFICES ASSUME InDefault'
               PROVE  StoringIn(rq', m_propagationDefaults') /\ \A f \in Freq : chosen'[f] = << >>
    BY DEF Storing
  <2>1. InDefault
    BY <1>3 DEF InDefault
  <2>2. StoringIn(rq, m_propagationDefaults) /\ \A f \in Freq : chosen[f] = << >>
    BY <2>1 DEF Storing
  <2> QED BY <1>3, <2>2 DEF StoringIn
<1> QED BY <1>1, <1>2, <1>3

LEMMA StoringStore ==
    ASSUME TypeInv, Storing, StoreDefault
    PROVE  Storing'
<1> DEFINE to == IF rq.at = "d_coeff" THEN "d_rest" ELSE "next"
<1>1. /\ rq.at \in {"d_coeff", "d_rest"} /\ rq.all
      /\ rq' = Request(to, rq.mode, rq.val, 0, TRUE) /\ UNCHANGED chosen
  BY StoreDefaultStep, AtStore DEF StoreDefault, TypeInv
<1>2. StoringIn(rq, m_propagationDefaults) /\ \A f \in Freq : chosen[f] = << >>
  BY <1>1 DEF Storing, InDefault
<1>3. /\ m_propagationDefaults'.model = m_propagationDefaults.model
      /\ \A k \in Kind : m_propagationDefaults'.par[k] =
            IF (k = "coeff") = (rq.at = "d_coeff") THEN Param(rq.mode, rq.val)[k]
            ELSE m_propagationDefaults.par[k]
  BY StoreDefaultStep, SMTT(30)
<1>4. rq'.at = to /\ rq'.mode = rq.mode /\ rq'.val = rq.val
  <2> HIDE DEF to
  <2> QED BY <1>1 DEF Request
<1>5. StoringIn(rq', m_propagationDefaults')
  <2>1. CASE rq.at = "d_coeff"
    <3>1. m_propagationDefaults'.par["coeff"] = Param(rq.mode, rq.val)["coeff"]
      BY <1>3, <2>1 DEF Kind
    <3> QED BY <1>2, <1>3, <1>4, <2>1, <3>1 DEF StoringIn
  <2>2. CASE rq.at = "d_rest"
    <3>1. \A k \in Kind : m_propagationDefaults'.par[k] = Param(rq.mode, rq.val)[k]
      BY <1>2, <1>3, <2>2 DEF StoringIn
    <3>2. rq'.at = "next" /\ "coeff" \in Kind
      BY <1>4, <2>2 DEF Kind
    <3> QED BY <1>2, <1>3, <1>4, <3>1, <3>2 DEF StoringIn
  <2> QED BY <1>1, <2>1, <2>2
<1> QED BY <1>1, <1>2, <1>5 DEF Storing

LEMMA StoringNext ==
    ASSUME TypeInv, Storing, [Next]_vars
    PROVE  Storing'
<1> USE DEF TypeInv
<1>1. CASE StoreDefault
  BY <1>1, StoringStore
<1>2. ASSUME NEW m, NEW v, SET_DEFAULT_PL(m, v)
      PROVE  Storing'
  <2>1. /\ rq' = Request("d_coeff", m, v, 0, TRUE) /\ chosen' = [f \in Freq |-> << >>]
        /\ m_propagationDefaults' = [m_propagationDefaults EXCEPT !.model = m]
    BY <1>2 DEF SET_DEFAULT_PL
  <2>2. rq'.at = "d_coeff" /\ rq'.mode = m
    BY <2>1 DEF Request
  <2>3. m_propagationDefaults'.model = m
    BY <2>1 DEF DataType
  <2> QED BY <2>1, <2>2, <2>3 DEF Storing, StoringIn
<1>3. ASSUME NEW f \in Freq, NEW s \in Setting, CHG_PL(f, s[1], s[2])
      PROVE  Storing'
  <2>1. rq' = Request("model", s[1], s[2], f, FALSE)
    BY <1>3 DEF CHG_PL
  <2>2. rq'.all = FALSE
    BY <2>1 DEF Request
  <2> QED BY <2>2 DEF Storing, InDefault
<1>4. CASE updatePathLoss \/ SetParams
  <2>1. rq.at \in Work /\ UNCHANGED <<m_propagationDefaults, chosen>> /\ \E to : To(to)
    BY <1>4 DEF updatePathLoss, SetParams, Work, history
  <2>2. rq'.mode = rq.mode /\ rq'.val = rq.val /\ rq'.all = rq.all
    BY <2>1, AtWork, Moved, SMTT(30)
  <2> QED BY <2>1, <2>2, StoringKept DEF Work
<1>5. CASE NextFrequency
  <2>1. UNCHANGED <<m_propagationDefaults, chosen>> /\ rq.at = "next"
    BY <1>5, NextFrequencyStep DEF NextFrequency
  <2>2. ASSUME NEW f, rq.all, rq' = Request("model", rq.mode, rq.val, f, TRUE)
        PROVE  rq'.mode = rq.mode /\ rq'.val = rq.val /\ rq'.all = rq.all
    <3>1. rq.all = TRUE
      BY <2>1, <2>2, AtNext
    <3> QED BY <2>2, <3>1 DEF Request
  <2> QED BY <1>5, <2>1, <2>2, NextFrequencyStep, StoringKept
<1>6. ASSUME NEW v, UPD_SHADOW_STD(v)
      PROVE  Storing'
  <2>1. /\ rq' = Idle \/ \E n : rq' = Request("shadow", "NONE", v, n, FALSE)
        /\ UNCHANGED <<m_propagationDefaults, chosen>>
    BY <1>6, ShadowAllStep
  <2>2. rq' = Idle \/ rq'.all = FALSE
    BY <2>1, SMTT(30) DEF Request
  <2> QED BY <2>1, <2>2, StoringKept
<1>7. CASE setShadowingSTD
  <2>1. /\ rq' = Idle \/ \E n : rq' = Request("shadow", rq.mode, rq.val, n, FALSE)
        /\ UNCHANGED <<m_propagationDefaults, chosen>>
    BY <1>7, ShadowNextStep
  <2>2. rq' = Idle \/ rq'.all = FALSE
    BY <2>1, SMTT(30) DEF Request
  <2> QED BY <2>1, <2>2, StoringKept
<1>8. ASSUME NEW f \in Freq, isChannelEmpty(f)
      PROVE  Storing'
  <2>1. UNCHANGED m_propagationDefaults /\ chosen' = [chosen EXCEPT ![f] = << >>]
    BY <1>8, EraseStep
  <2>2. \A g \in Freq : chosen[g] = << >> => chosen'[g] = << >>
    BY <2>1 DEF DataType
  <2>3. CASE rq.at \in Work /\ To("next")
    <3>1. rq'.mode = rq.mode /\ rq'.val = rq.val /\ rq'.all = rq.all
      BY <2>3, AtWork, Moved, SMTT(30)
    <3> QED BY <2>1, <2>2, <2>3, <3>1, StoringKept DEF Work
  <2>4. CASE rq' = rq
    BY <2>1, <2>2, <2>4, StoringKept
  <2> QED BY <1>8, <2>3, <2>4, EraseStep
<1>9. CASE \/ \E f \in Freq, v \in Deviation : UPD_SHADOW_STD_Freq(f, v)
           \/ \E f \in Freq, l \in Link, e \in BOOLEAN : CHG_DOPPLER(f, l, e)
           \/ \E f \in Freq : CreateChannel(f)
           \/ LoadDefault \/ InsertChannel
           \/ \E f \in Freq, l \in Link : insertChannelIfMissing(f, l)
           \/ \E f \in Freq, n \in Node : removeChannel(f, n)
           \/ \E n \in Node, p \in Position \cup {NoLocation} : setLocation(n, p)
           \/ configChannels \/ UNCHANGED vars
  <2>1. UNCHANGED <<m_propagationDefaults, rq, chosen>>
    BY <1>9 DEF UPD_SHADOW_STD_Freq, CHG_DOPPLER, CreateChannel, LoadDefault, InsertChannel,
                insertChannelIfMissing, removeChannel, setLocation, configChannels, history, vars
  <2> QED BY <2>1, StoringKept
<1> QED BY <1>1, <1>2, <1>3, <1>4, <1>5, <1>6, <1>7, <1>8, <1>9 DEF Next, Requests, Controller

\* CreateChannel reads the defaults between two SET_DEFAULT_PL.
LEMMA CreatingNext ==
    ASSUME TypeInv, ~overlap => Creating, [Next]_vars
    PROVE  ~overlap' => Creating'
<1> USE DEF TypeInv
<1>1. CASE ctl' = Idle
  BY <1>1 DEF Creating
<1>2. CASE UNCHANGED <<ctl, m_propagationDefaults, overlap>> /\ (InDefault' => InDefault)
  BY <1>2 DEF Creating
<1>3. CASE StoreDefault
  <2>1. InDefault /\ UNCHANGED <<ctl, overlap>>
    BY <1>3, AtStore, StoreDefaultStep DEF StoreDefault, InDefault
  <2> QED BY <2>1 DEF Creating
<1>4. ASSUME NEW m, NEW v, SET_DEFAULT_PL(m, v)
      PROVE  ~overlap' => Creating'
  BY <1>4 DEF SET_DEFAULT_PL, Creating
<1>5. ASSUME NEW f, CreateChannel(f)
      PROVE  ~overlap' => Creating'
  <2>1. /\ ctl' = [at |-> "coeff", f |-> f, model |-> m_propagationDefaults.model]
        /\ overlap' = (overlap \/ InDefault) /\ UNCHANGED <<m_propagationDefaults, rq>>
    BY <1>5 DEF CreateChannel
  <2>2. ctl'.at = "coeff" /\ ctl'.model = m_propagationDefaults.model
    BY <2>1
  <2>3. InDefault' = InDefault
    BY <2>1 DEF InDefault
  <2> QED BY <2>1, <2>2, <2>3 DEF Creating
<1>6. CASE LoadDefault
  <2>1. UNCHANGED <<m_propagationDefaults, rq, overlap>> /\ ctl # Idle
    BY <1>6, LoadStep
  <2>2. InDefault' = InDefault
    BY <2>1 DEF InDefault
  <2>3. CASE ctl.at = "coeff"
    <3>1. /\ ctl'.at = "scenario" /\ ctl'.model = ctl.model
          /\ ctl'.coeff = m_propagationDefaults.par["coeff"]
      BY <1>6, <2>3, LoadStep, SMTT(30)
    <3> QED BY <2>1, <2>2, <3>1 DEF Creating
  <2>4. CASE ctl.at = "scenario"
    <3>1. /\ ctl'.at = "insert" /\ ctl'.model = ctl.model /\ ctl'.coeff = ctl.coeff
          /\ ctl'.scenario = m_propagationDefaults.par["scenario"]
      BY <1>6, <2>4, LoadStep, SMTT(30)
    <3> QED BY <2>1, <2>2, <2>4, <3>1 DEF Creating
  <2> QED BY <1>6, <2>3, <2>4, LoadStep
<1>7. CASE InsertChannel \/ \E f \in Freq : isChannelEmpty(f)
  <2>1. ctl' = Idle
    BY <1>7, EraseStep DEF InsertChannel
  <2> QED BY <1>1, <2>1
<1>8. ASSUME NEW f \in Freq, NEW s \in Setting, CHG_PL(f, s[1], s[2])
      PROVE  ~overlap' => Creating'
  <2>1. /\ rq' = Request("model", s[1], s[2], f, FALSE)
        /\ UNCHANGED <<ctl, m_propagationDefaults, overlap>>
    BY <1>8 DEF CHG_PL
  <2>2. rq'.all = FALSE
    BY <2>1 DEF Request
  <2> QED BY <1>2, <2>1, <2>2 DEF InDefault
<1>9. CASE updatePathLoss \/ SetParams
  <2>1. rq.at \in Work /\ UNCHANGED <<ctl, m_propagationDefaults, overlap>> /\ \E to : To(to)
    BY <1>9 DEF updatePathLoss, SetParams, Work, history
  <2>2. rq'.all = rq.all
    BY <2>1, AtWork, Moved, SMTT(30)
  <2> QED BY <1>2, <2>1, <2>2 DEF InDefault, Work
<1>10. CASE NextFrequency
  <2>1. UNCHANGED <<ctl, m_propagationDefaults, overlap>> /\ rq.at = "next" /\ (rq' = Idle \/ rq.all)
    BY <1>10, NextFrequencyStep DEF NextFrequency
  <2> QED BY <1>2, <2>1, IdleAt DEF InDefault
<1>11. ASSUME NEW v, UPD_SHADOW_STD(v)
       PROVE  ~overlap' => Creating'
  <2>1. /\ rq' = Idle \/ \E n : rq' = Request("shadow", "NONE", v, n, FALSE)
        /\ UNCHANGED <<ctl, m_propagationDefaults, overlap>>
    BY <1>11, ShadowAllStep
  <2>2. rq' = Idle \/ rq'.all = FALSE
    BY <2>1, SMTT(30) DEF Request
  <2> QED BY <1>2, <2>1, <2>2, IdleAt DEF InDefault
<1>12. CASE setShadowingSTD
  <2>1. /\ rq' = Idle \/ \E n : rq' = Request("shadow", rq.mode, rq.val, n, FALSE)
        /\ UNCHANGED <<ctl, m_propagationDefaults, overlap>>
    BY <1>12, ShadowNextStep
  <2>2. rq' = Idle \/ rq'.all = FALSE
    BY <2>1, SMTT(30) DEF Request
  <2> QED BY <1>2, <2>1, <2>2, IdleAt DEF InDefault
<1>13. CASE \/ \E f \in Freq, v \in Deviation : UPD_SHADOW_STD_Freq(f, v)
            \/ \E f \in Freq, l \in Link, e \in BOOLEAN : CHG_DOPPLER(f, l, e)
            \/ \E f \in Freq, l \in Link : insertChannelIfMissing(f, l)
            \/ \E f \in Freq, n \in Node : removeChannel(f, n)
            \/ \E n \in Node, p \in Position \cup {NoLocation} : setLocation(n, p)
            \/ configChannels \/ UNCHANGED vars
  <2>1. UNCHANGED <<ctl, m_propagationDefaults, overlap, rq>>
    BY <1>13 DEF UPD_SHADOW_STD_Freq, CHG_DOPPLER, insertChannelIfMissing, removeChannel, setLocation,
                 configChannels, history, vars
  <2> QED BY <1>2, <2>1 DEF InDefault
<1> QED BY <1>3, <1>4, <1>5, <1>6, <1>7, <1>8, <1>9, <1>10, <1>11, <1>12, <1>13
        DEF Next, Requests, Controller

-----------------------------------------------------------------------------
(* The loss of a link is as was asked *)

LEMMA IdleNotAhead == \A f : ~Ahead(Idle, f)
BY DEF Ahead

LEMMA ModelUses ==
    ASSUME NEW m
    PROVE  Uses(m) = "none" \/ Uses(m) = "coeff" \/ Uses(m) \in ChannelKind
BY DEF Uses, ChannelKind, Kind

\* Nothing was asked meanwhile, and the request has still to come where it had to.
LEMMA AskedKept ==
    ASSUME TypeInv, AsAsked, MembersKept, UNCHANGED m_propagationDefaults,
           DOMAIN m_intermediateMap' \subseteq DOMAIN m_intermediateMap,
           \A g \in DOMAIN m_intermediateMap' :
                chosen'[g] = chosen[g] /\ (Ahead(rq, g) => Ahead(rq', g))
    PROVE  AsAsked'
<1>1. ASSUME NEW g \in DOMAIN m_intermediateMap'
      PROVE  AskedAt(rq', g, m_intermediateMap'[g], chosen'[g], m_propagationDefaults')
  <2>1. AskedAt(rq, g, m_intermediateMap[g], chosen[g], m_propagationDefaults)
    BY DEF AsAsked
  <2>2. Set(m_intermediateMap'[g]) = Set(m_intermediateMap[g])
    BY DEF MembersKept, Set
  <2> QED BY <2>1, <2>2 DEF AskedAt
<1> QED BY <1>1 DEF AsAsked

\* An Intermediate with the model of a request and its parameter computes what it asked.
LEMMA SetAsked ==
    ASSUME NEW i, NEW m, NEW v, i.model = m, Uses(m) # "none" => i.par[Uses(m)] = v
    PROVE  Set(i) = Asked(m, v)
BY DEF Set, Asked

\* What a request has asked for its frequency is expected of it.
LEMMA AskedExpected ==
    ASSUME TypeInv, Underway, Storing, rq.at \in Work
    PROVE  ExpectedOf(chosen[rq.f], m_propagationDefaults) = Asked(rq.mode, rq.val)
<1>1. rq.mode \in Model /\ rq.val \in Value /\ rq.f \in Freq /\ rq.all \in BOOLEAN
  BY AtWork DEF TypeInv
<1>2. CASE ~rq.all
  <2>1. chosen[rq.f] = Asked(rq.mode, rq.val)
    BY <1>2 DEF Underway, UnderwayIn
  <2> QED BY <1>1, <2>1, AskedType DEF ExpectedOf
<1>3. CASE rq.all
  <2>1. /\ chosen[rq.f] = << >> /\ m_propagationDefaults.model = rq.mode
        /\ \A k \in Kind : m_propagationDefaults.par[k] = Param(rq.mode, rq.val)[k]
    BY <1>1, <1>3 DEF Storing, InDefault, StoringIn, Work
  <2>2. Uses(rq.mode) # "none" => m_propagationDefaults.par[Uses(rq.mode)] = rq.val
    BY <2>1, ModelUses, KindFacts DEF Param
  <2> QED BY <2>1, <2>2 DEF ExpectedOf, Asked
<1> QED BY <1>2, <1>3

\* The steps of updatePathLoss and SetParams: the last one leaves what was asked.
LEMMA AskedWork ==
    ASSUME TypeInv, Underway, Storing, AsAsked, updatePathLoss \/ SetParams
    PROVE  AsAsked'
<1> USE DEF TypeInv
<1> DEFINE i == m_intermediateMap[rq.f]
<1>1. rq.at \in Work /\ UNCHANGED <<chosen, m_propagationDefaults>>
  BY DEF updatePathLoss, SetParams, Work, history
<1>2. /\ rq = Request(rq.at, rq.mode, rq.val, rq.f, rq.all) /\ rq # Idle
      /\ i.par \in [Kind -> AnyValue] /\ rq.f \in DOMAIN m_intermediateMap
      /\ rq.at \in {"write", "written", "share"} => Uses(rq.mode) \in ChannelKind
      /\ Chans(rq.f) = i.ch
  BY <1>1, AtWork, OneIntermediate DEF Chans
<1>3. UnderwayIn(rq, i, chosen[rq.f])
  BY <1>1 DEF Underway
<1>4. ASSUME NEW to \in Work \cup {"next"}, To(to)
      PROVE  rq'.at = to /\ rq'.mode = rq.mode /\ rq'.f = rq.f /\ rq'.all = rq.all /\ rq' # Idle
  BY <1>2, <1>4, Moved, IdleAt, SMTT(30) DEF Work
<1>5. ASSUME NEW to \in Work \cup {"next"}, To(to), NEW m, NEW p, NEW c, Effect(rq.f, m, p, c),
             to \in Work \/ Set(Inter(m, p, c)) = Asked(rq.mode, rq.val)
      PROVE  AsAsked'
  <2>1. /\ DOMAIN m_intermediateMap' = DOMAIN m_intermediateMap
        /\ m_intermediateMap'[rq.f] = Inter(m, p, c)
        /\ \A g \in DOMAIN m_intermediateMap :
                g # rq.f => m_intermediateMap'[g] = m_intermediateMap[g]
    BY <1>5, EffectType, SMTT(30)
  <2>2. ASSUME NEW g \in DOMAIN m_intermediateMap, g # rq.f
        PROVE  AskedAt(rq', g, m_intermediateMap'[g], chosen'[g], m_propagationDefaults')
    <3>1. AskedAt(rq, g, m_intermediateMap[g], chosen[g], m_propagationDefaults)
      BY DEF AsAsked
    <3>2. Ahead(rq, g) => Ahead(rq', g)
      BY <1>4, <1>5, <2>2 DEF Ahead
    <3> QED BY <1>1, <2>1, <2>2, <3>1, <3>2 DEF AskedAt
  <2>3. AskedAt(rq', rq.f, m_intermediateMap'[rq.f], chosen'[rq.f], m_propagationDefaults')
    <3>1. CASE to \in Work
      BY <1>4, <1>5, <3>1 DEF AskedAt, Ahead
    <3>2. CASE Set(m_intermediateMap'[rq.f]) = Asked(rq.mode, rq.val)
      BY <1>1, <3>2, AskedExpected DEF AskedAt
    <3> QED BY <1>5, <2>1, <3>1, <3>2
  <2> QED BY <2>1, <2>2, <2>3 DEF AsAsked
<1> HIDE DEF i
<1>6. CASE rq.at \in {"model", "type"} /\ updatePathLoss
  <2>1. \E to \in Work : \E m, p, c : To(to) /\ Effect(rq.f, m, p, c)
    BY <1>6, ModelStep, TypeStep DEF Work
  <2> QED BY <1>5, <2>1
<1>7. CASE rq.at = "coeff" /\ updatePathLoss
  <2> DEFINE p == [i.par EXCEPT !["coeff"] = Param(rq.mode, rq.val)["coeff"]]
             to == IF Uses(rq.mode) \in ChannelKind THEN "write" ELSE "next"
  <2>1. To(to) /\ Effect(rq.f, i.model, p, i.ch) /\ to \in Work \cup {"next"}
    BY <1>2, <1>7, CoeffStep DEF i, Work
  <2>2. to \in Work \/ Uses(rq.mode) = "none" \/ Uses(rq.mode) = "coeff"
    BY ModelUses DEF Work
  <2>3. Uses(rq.mode) = "coeff" => p["coeff"] = rq.val
    BY <1>2 DEF Param, Kind
  <2> HIDE DEF p, to
  <2>4. i.model = rq.mode
    BY <1>3, <1>7 DEF UnderwayIn
  <2>5. to \in Work \/ Set(Inter(i.model, p, i.ch)) = Asked(rq.mode, rq.val)
    BY <2>2, <2>3, <2>4, SetAsked, InterFields, SMTT(30)
  <2> QED BY <1>5, <2>1, <2>5
<1>8. CASE rq.at \in {"write", "written"} /\ SetParams
  <2>1. \E to \in Work : \E m, p, c : To(to) /\ Effect(rq.f, m, p, c)
    BY <1>8, WriteStep, WrittenStep DEF Work
  <2> QED BY <1>5, <2>1
<1>9. CASE rq.at = "share" /\ SetParams
  <2>1. PICK c : Effect(rq.f, i.model, i.par, c) /\ To("next")
    BY <1>9, ShareStep DEF i
  <2>2. i.model = rq.mode /\ i.par[Uses(rq.mode)] = rq.val
    BY <1>3, <1>9 DEF UnderwayIn
  <2>3. Set(Inter(i.model, i.par, c)) = Asked(rq.mode, rq.val)
    BY <2>2, SetAsked, InterFields, SMTT(30)
  <2> QED BY <1>5, <2>1, <2>3
<1> QED BY <1>6, <1>7, <1>8, <1>9 DEF updatePathLoss, SetParams

\* InsertChannel: a new Intermediate is as the defaults say, apart from Hata and ITM.
LEMMA AskedNew ==
    ASSUME TypeInv, Creating, AsAsked, InsertChannel
    PROVE  AsAsked'
<1> USE DEF TypeInv
<1> DEFINE d == m_propagationDefaults
           i == NewIntermediate(ctl.model, ctl.coeff, ctl.scenario)
<1>1. UNCHANGED <<m_propagationDefaults, chosen, rq>>
  BY DEF InsertChannel, history
<1>2. /\ ctl.model = d.model /\ ctl.coeff = d.par["coeff"] /\ ctl.scenario = d.par["scenario"]
  BY IdleAt DEF Creating, InsertChannel
<1>3. /\ DOMAIN m_intermediateMap' = DOMAIN m_intermediateMap \cup {ctl.f}
      /\ m_intermediateMap'[ctl.f] = i /\ chosen[ctl.f] = << >>
      /\ \A f \in DOMAIN m_intermediateMap : m_intermediateMap'[f] = m_intermediateMap[f]
  BY GrowEffect DEF DataType
<1>4. d.model \in Model \ {"UNKNOWN"} /\ i.par \in [Kind -> Value]
  BY GrowEffect, CoordinatorAssumption DEF DataType, NewIntermediate
<1>5. ASSUME d.model \notin {"HATA", "ITM"}
      PROVE  Set(i) = ExpectedOf(<< >>, d)
  <2>1. i.model = d.model
    BY <1>2, <1>4 DEF NewIntermediate
  <2>2. Uses(d.model) # "none" => i.par[Uses(d.model)] = d.par[Uses(d.model)]
    <3>1. CASE d.model = "TWO_RAY"
      BY <1>2, <3>1 DEF NewIntermediate, Uses, Kind
    <3>2. CASE d.model = "3GPP"
      BY <1>2, <3>2 DEF NewIntermediate, Uses, Kind
    <3>3. CASE d.model \in {"FREE_SPACE", "NONE"}
      BY <3>3 DEF Uses
    <3> QED BY <1>4, <1>5, <3>1, <3>2, <3>3 DEF Model
  <2> HIDE DEF i
  <2> QED BY <2>1, <2>2 DEF Set, ExpectedOf, Asked
<1> HIDE DEF i, d
<1>6. ASSUME NEW g \in DOMAIN m_intermediateMap'
      PROVE  AskedAt(rq', g, m_intermediateMap'[g], chosen'[g], m_propagationDefaults')
  <2>1. CASE g = ctl.f
    BY <1>1, <1>3, <1>5, <2>1 DEF AskedAt, d
  <2>2. CASE g \in DOMAIN m_intermediateMap
    BY <1>1, <1>3, <2>2 DEF AsAsked
  <2> QED BY <1>3, <2>1, <2>2
<1> QED BY <1>6 DEF AsAsked

LEMMA AskedNext ==
    ASSUME TypeInv, Underway, Storing, Creating, AsAsked, [Next]_vars
    PROVE  AsAsked'
<1> USE DEF TypeInv
<1>1. CASE updatePathLoss \/ SetParams
  BY <1>1, AskedWork
<1>2. CASE InsertChannel
  BY <1>2, AskedNew
<1>3. ASSUME ~updatePathLoss, ~SetParams,
             UNCHANGED <<m_propagationDefaults, chosen>>,
             DOMAIN m_intermediateMap' = DOMAIN m_intermediateMap,
             \A g \in DOMAIN m_intermediateMap : Ahead(rq, g) => Ahead(rq', g)
      PROVE  AsAsked'
  BY <1>3, OthersKeep, AskedKept
<1>4. ASSUME NEW f \in Freq, NEW s \in Setting, CHG_PL(f, s[1], s[2])
      PROVE  AsAsked'
  <2>1. /\ rq = Idle /\ rq' = Request("model", s[1], s[2], f, FALSE)
        /\ UNCHANGED <<m_propagationDefaults, m_intermediateMap>>
        /\ chosen' = [chosen EXCEPT ![f] = Asked(s[1], s[2])]
    BY <1>4 DEF CHG_PL, Command
  <2>2. rq'.at = "model" /\ rq'.f = f /\ rq' # Idle
    BY <2>1, IdleAt, SMTT(30) DEF Request
  <2>3. ASSUME NEW g \in DOMAIN m_intermediateMap
        PROVE  AskedAt(rq', g, m_intermediateMap[g], chosen'[g], m_propagationDefaults)
    <3>1. CASE g = f
      BY <2>2, <3>1 DEF AskedAt, Ahead, Work
    <3>2. CASE g # f
      <4>1. chosen'[g] = chosen[g]
        BY <2>1, <3>2, OneIntermediate DEF DataType
      <4>2. AskedAt(Idle, g, m_intermediateMap[g], chosen[g], m_propagationDefaults)
        BY <2>1 DEF AsAsked
      <4> QED BY <4>1, <4>2, IdleNotAhead DEF AskedAt
    <3> QED BY <3>1, <3>2
  <2> QED BY <2>1, <2>3 DEF AsAsked
<1>5. ASSUME rq'.all, rq'.f = 0, rq' # Idle, DOMAIN m_intermediateMap' = DOMAIN m_intermediateMap
      PROVE  AsAsked'
  <2>1. ASSUME NEW g \in DOMAIN m_intermediateMap
        PROVE  Ahead(rq', g)
    <3>1. g \in Freq
      BY OneIntermediate
    <3>2. g \in Nat /\ g # 0
      BY <3>1, FreqNat
    <3> QED BY <1>5, <3>2, SMTT(30) DEF Ahead
  <2> QED BY <1>5, <2>1 DEF AsAsked, AskedAt
<1>6. ASSUME NEW m, NEW v, SET_DEFAULT_PL(m, v)
      PROVE  AsAsked'
  <2>1. rq' = Request("d_coeff", m, v, 0, TRUE) /\ UNCHANGED m_intermediateMap
    BY <1>6 DEF SET_DEFAULT_PL
  <2>2. rq'.all /\ rq'.f = 0 /\ rq' # Idle
    BY <2>1, IdleAt, SMTT(30) DEF Request
  <2> QED BY <1>5, <2>1, <2>2
<1>7. CASE StoreDefault
  <2> DEFINE to == IF rq.at = "d_coeff" THEN "d_rest" ELSE "next"
  <2>1. rq' = Request(to, rq.mode, rq.val, 0, TRUE) /\ UNCHANGED m_intermediateMap /\ to # "idle"
    BY <1>7, StoreDefaultStep
  <2> HIDE DEF to
  <2>2. rq'.all /\ rq'.f = 0 /\ rq' # Idle
    BY <2>1, IdleAt, SMTT(30) DEF Request
  <2> QED BY <1>5, <2>1, <2>2
<1>8. ASSUME NextFrequency, ~updatePathLoss, ~SetParams
      PROVE  AsAsked'
  <2>1. /\ UNCHANGED <<m_propagationDefaults, m_intermediateMap, chosen>>
        /\ rq.at = "next" /\ rq.f \in Nat
    BY <1>8, NextFrequencyStep, AtNext DEF NextFrequency
  <2>2. ASSUME NEW g \in DOMAIN m_intermediateMap, Ahead(rq, g)
        PROVE  Ahead(rq', g)
    <3>1. rq.all /\ rq.f < g /\ g \in Nat
      BY <2>1, <2>2, OneIntermediate, FreqNat DEF Ahead, Work
    <3>2. ~(g <= rq.f) /\ g > rq.f
      BY <2>1, <3>1, SMTT(30)
    <3>3. PICK n \in Freq : rq' = Request("model", rq.mode, rq.val, n, TRUE) /\ n <= g
      BY <1>8, <3>1, <3>2, NextFrequencyStep
    <3>4. rq' # Idle /\ rq'.at = "model" /\ rq'.f = n /\ rq'.all
      BY <3>3, IdleAt, SMTT(30) DEF Request
    <3>5. rq'.f = g \/ rq'.f < g
      <4>1. n \in Nat /\ n <= g /\ g \in Nat
        BY <3>1, <3>3, FreqNat
      <4>2. n = g \/ n < g
        BY <4>1, SMTT(30)
      <4> QED BY <3>4, <4>2
    <3> QED BY <3>4, <3>5 DEF Ahead, Work
  <2> QED BY <1>3, <1>8, <2>1, <2>2
<1>9. ASSUME NEW f \in Freq, isChannelEmpty(f), ~updatePathLoss, ~SetParams
      PROVE  AsAsked'
  <2>1. /\ DOMAIN m_intermediateMap' = DOMAIN m_intermediateMap \ {f} /\ MembersKept
        /\ UNCHANGED m_propagationDefaults /\ chosen' = [chosen EXCEPT ![f] = << >>]
    BY <1>9, ShrinkEffect, EraseStep, OthersKeep
  <2>2. ASSUME NEW g \in DOMAIN m_intermediateMap'
        PROVE  chosen'[g] = chosen[g] /\ (Ahead(rq, g) => Ahead(rq', g))
    <3>1. g \in Freq /\ g # f
      BY <2>1, OneIntermediate
    <3>2. chosen'[g] = chosen[g]
      BY <2>1, <3>1 DEF DataType
    <3>3. CASE rq.at \in Work /\ rq.f = f /\ To("next")
      <4>1. rq'.at = "next" /\ rq'.f = rq.f /\ rq'.all = rq.all
        BY <3>3, AtWork, Moved, SMTT(30)
      <4> QED BY <3>1, <3>2, <3>3, <4>1, IdleAt DEF Ahead
    <3> QED BY <1>9, <3>2, <3>3, EraseStep
  <2> QED BY <2>1, <2>2, AskedKept
<1>10. ASSUME ~updatePathLoss, ~SetParams,
              (\E v \in Deviation : UPD_SHADOW_STD(v)) \/ setShadowingSTD
       PROVE  AsAsked'
  <2>1. \A g : ~Ahead(rq, g)
    BY <1>10, AtShadow, IdleNotAhead DEF UPD_SHADOW_STD, setShadowingSTD, Command, Ahead, Work
  <2>2. UNCHANGED <<m_propagationDefaults, chosen>>
    BY <1>10 DEF UPD_SHADOW_STD, setShadowingSTD, history
  <2>3. DOMAIN m_intermediateMap' = DOMAIN m_intermediateMap
    BY <1>10, ShadowNextStep, ShadowEffect, EffectType DEF UPD_SHADOW_STD
  <2> QED BY <1>3, <1>10, <2>1, <2>2, <2>3
<1>11. ASSUME ~updatePathLoss, ~SetParams,
              \/ \E f \in Freq, v \in Deviation : UPD_SHADOW_STD_Freq(f, v)
              \/ \E f \in Freq, l \in Link, e \in BOOLEAN : CHG_DOPPLER(f, l, e)
              \/ \E f \in Freq : CreateChannel(f)
              \/ LoadDefault
              \/ \E f \in Freq, l \in Link : insertChannelIfMissing(f, l)
              \/ \E f \in Freq, n \in Node : removeChannel(f, n)
              \/ \E n \in Node, p \in Position \cup {NoLocation} : setLocation(n, p)
              \/ configChannels \/ UNCHANGED vars
       PROVE  AsAsked'
  <2>1. UNCHANGED <<m_propagationDefaults, rq, chosen>>
    BY <1>11 DEF UPD_SHADOW_STD_Freq, CHG_DOPPLER, CreateChannel, LoadDefault,
                 insertChannelIfMissing, removeChannel, setLocation, configChannels, history, vars
  <2>2. DOMAIN m_intermediateMap' = DOMAIN m_intermediateMap
    <3>1. CASE \/ \E f \in Freq, l \in Link, e \in BOOLEAN : CHG_DOPPLER(f, l, e)
               \/ \E f \in Freq, n \in Node : removeChannel(f, n)
               \/ \E n \in Node, p \in Position \cup {NoLocation} : setLocation(n, p)
               \/ configChannels
      BY <3>1, RestStep, EffectType DEF Rest
    <3>2. CASE \E f \in Freq, v \in Deviation : UPD_SHADOW_STD_Freq(f, v)
      BY <3>2, ShadowEffect, EffectType DEF UPD_SHADOW_STD_Freq
    <3>3. CASE \E f \in Freq, l \in Link : insertChannelIfMissing(f, l)
      BY <3>3, InsertEffect, EffectType
    <3>4. CASE (\E f \in Freq : CreateChannel(f)) \/ LoadDefault \/ UNCHANGED vars
      BY <3>4 DEF CreateChannel, LoadDefault, vars
    <3> QED BY <1>11, <3>1, <3>2, <3>3, <3>4
  <2> QED BY <1>3, <1>11, <2>1, <2>2
<1> QED BY <1>1, <1>2, <1>4, <1>6, <1>7, <1>8, <1>9, <1>10, <1>11 DEF Next, Requests, Controller

\* An overlap is not forgotten.
LEMMA OverlapStays ==
    ASSUME [Next]_vars, ~overlap'
    PROVE  ~overlap
BY DEF Next, Requests, Controller, vars, history, CHG_PL, SET_DEFAULT_PL, StoreDefault, updatePathLoss,
       SetParams, NextFrequency, UPD_SHADOW_STD_Freq, UPD_SHADOW_STD, setShadowingSTD, CHG_DOPPLER,
       CreateChannel, isChannelEmpty, LoadDefault, InsertChannel, insertChannelIfMissing, removeChannel,
       setLocation, configChannels

LEMMA AskingNext ==
    ASSUME TypeInv, Underway, Asking, [Next]_vars
    PROVE  Asking'
<1>1. Storing'
  BY StoringNext DEF Asking
<1>2. ~overlap' => Creating'
  BY CreatingNext DEF Asking
<1>3. ~overlap' => AsAsked'
  BY OverlapStays, AskedNext DEF Asking
<1> QED BY <1>1, <1>2, <1>3 DEF Asking

\* What the inductive invariants say of the loss, in a state.
LEMMA AskedLoss ==
    ASSUME TypeInv, Agreeing, Asking
    PROVE  LossAsAsked
<1> SUFFICES ASSUME rq = Idle, ~overlap, NEW f \in DOMAIN m_intermediateMap,
                    chosen[f] # << >> \/ m_propagationDefaults.model \notin {"HATA", "ITM"},
                    NEW l \in DOMAIN Chans(f)
             PROVE  computePathLoss(f, l) = Expected(f)
  BY DEF LossAsAsked
<1> DEFINE i == m_intermediateMap[f]
<1>1. Set(i) = ExpectedOf(chosen[f], m_propagationDefaults)
  BY IdleNotAhead DEF Asking, AsAsked, AskedAt
<1>2. Expected(f) = ExpectedOf(chosen[f], m_propagationDefaults)
  BY DEF Expected, ExpectedOf
<1>3. \A k \in ChannelKind : i.ch[l].par[k] = i.par[k]
  BY IdleAt DEF Agreeing, AgreeAt, AgreeOf, Stale, Chans
<1>4. computePathLoss(f, l) = Set(i)
  <2> HIDE DEF i
  <2> QED BY <1>3, ModelUses DEF computePathLoss, Set, i
<1> QED BY <1>1, <1>2, <1>4

\* For any sequence and interleaving of CHG_PL and SET_DEFAULT_PL with creations and
\* erasures of frequencies and their links: once the request is done, the loss of every
\* link is computed with the model and parameter that were asked, save for the overlap
\* and the Hata and ITM defaults that LossAsAsked excepts.
THEOREM LossAsAskedAlways == Spec => []LossAsAsked
<1> DEFINE Inv == TypeInv /\ Underway /\ Agreeing /\ Asking
<1>1. Init => Inv
  <2>1. Init => Asking
    BY IdleAt, SMTT(30) DEF Init, Asking, Storing, InDefault, Creating, AsAsked
  <2> QED BY <2>1, FirstState
<1>2. Inv /\ [Next]_vars => Inv'
  BY TypeNext, UnderwayNext, AgreeNext, AskingNext
<1>3. Inv => LossAsAsked
  BY AskedLoss
<1> QED BY <1>1, <1>2, <1>3, PTL DEF Spec

=============================================================================
