------------------------------ MODULE RtspProofs ------------------------------
(***************************************************************************)
(* Theorems about the RTSP engines of a source and a sink, for any number  *)
(* of connections and of messages on their way.                            *)
(*                                                                         *)
(* The heart of the inductive invariant, TalkInv, is the protocol itself:  *)
(* while both ends hold a channel that they opened with one cipher state,  *)
(* what is on its way in both directions, what the source awaits and how   *)
(* far each end has switched its cipher are in one of the rows of          *)
(* Conversation, and every step leads from a row to itself or to the next. *)
(* Two other situations are reachable, and must be known to be harmless:   *)
(* the source reads on when the sink has stopped (Monologue), and ends     *)
(* that opened with different ciphers understand nothing (Misheard).       *)
(***************************************************************************)
EXTENDS Rtsp, TLAPS

-----------------------------------------------------------------------------
(* The inductive invariant                                                   *)

\* TypeOK in parts; that net is a function has to be said.
EngineTypes ==
  /\ active \in [Ends -> BOOLEAN] /\ open \in [Ends -> BOOLEAN]
  /\ algorithmId \in [Ends -> BOOLEAN]
  /\ switching \in [Ends -> BOOLEAN] /\ readying \in [Ends -> BOOLEAN]
  /\ waitRsp \in [Ends -> WaitResponse]
  /\ mode \in [Ends -> Modes] /\ param \in [Ends -> Modes]
  /\ told \in [Ends -> SUBSET Callbacks]

NetTypes == net = [e \in Ends |-> net[e]] /\ \A e \in Ends : net[e] \in Seq(MessageTo(e))

LinkTypes ==
  /\ link \subseteq Ends /\ paired \in BOOLEAN
  /\ connections \in 0 .. MaxConnections
  /\ linkType \in {"TCP", "SOFT_BUS"} /\ ownMode \in [Ends -> Modes]

TypeInv == EngineTypes /\ NetTypes /\ LinkTypes

\* An end that is not on the channel has nothing to read, and is not yet
\* connected; only a sink prepares its side (OnPeerReady) and switches late.
LinkInv ==
  /\ \A e \in Ends : e \notin link => net[e] = <<>> /\ ~open[e]
  /\ \A e \in Ends :
       active[e] /\ e \notin link => {"ProcessStreamMode", "OnPlayerReady"} \cap told[e] = {}
  /\ readying["SINK"] => open["SINK"]
  /\ ~readying["SOURCE"] /\ ~switching["SOURCE"]

\* Over SoftBus no cipher is agreed.
BusInv ==
  linkType = "SOFT_BUS" =>
    /\ paired /\ ~switching["SINK"]
    /\ \A e \in Ends :
         /\ ~algorithmId[e] /\ waitRsp[e] # "ANNOUNCE"
         /\ \A i \in DOMAIN net[e] :
              /\ ~net[e][i].sealed
              /\ net[e][i].type = "REQUEST" => net[e][i].what # "ANNOUNCE"

\* The responses by which the source goes on with the negotiation.
Negotiates == {"GET_PARAM_M3", "SET_PARAM_M4"}
\* What each end ever awaits; only a running source waits in a negotiation.
WaitInv ==
  /\ waitRsp["SOURCE"] \in {"NONE", "OPT_M1", "SET_PARAM_M5", "ANNOUNCE"} \cup Negotiates
  /\ waitRsp["SINK"] \in {"NONE", "OPT_M2", "SETUP_M6", "PLAY_M7", "TEARDOWN_M8", "PAUSE_M9",
                          "ANNOUNCE"}
  /\ waitRsp["SOURCE"] \in Negotiates => active["SOURCE"] /\ "SOURCE" \in link

\* The source's mode is its session's; the sink learns it before the trigger.
ModeInv ==
  /\ mode["SOURCE"] = ownMode["SOURCE"] /\ param["SOURCE"] = ownMode["SOURCE"]
  /\ \A i \in DOMAIN net["SINK"] :
       /\ net["SINK"][i].mode = ownMode["SOURCE"]
       /\ (net["SINK"][i].type = "REQUEST" /\ net["SINK"][i].what = "TRIGGER_SETUP")
            => mode["SINK"] = ownMode["SOURCE"]
  /\ ModesAgree

\* The shapes that the messages to an end take in a row.
Says(m, type, what, sealed) == m.type = type /\ m.what = what /\ m.sealed = sealed
Nothing(e) == net[e] = <<>>
One(e, type, what, sealed) ==
  net[e] # <<>> /\ Says(Head(net[e]), type, what, sealed) /\ Tail(net[e]) = <<>>
Two(e, type1, what1, type2, what2, sealed) ==
  /\ net[e] # <<>> /\ Says(Head(net[e]), type1, what1, sealed)
  /\ Tail(net[e]) # <<>> /\ Says(Head(Tail(net[e])), type2, what2, sealed)
  /\ Tail(Tail(net[e])) = <<>>

\* Both ends read and write with (or without) the cipher.
Agreed(b) == algorithmId["SOURCE"] = b /\ algorithmId["SINK"] = b /\ ~switching["SINK"]
Unconnected == \A e \in Ends : {"ProcessStreamMode", "OnPlayerReady"} \cap told[e] = {}
Tcp == linkType = "TCP"

\* The sink has not been told of the channel yet.
Unopened ==
  /\ ~open["SINK"] /\ ~readying["SINK"]
  /\ Nothing("SOURCE") /\ Nothing("SINK") /\ Agreed(algorithmId["SOURCE"])
  /\ waitRsp["SOURCE"] \notin Negotiates

\* Over TCP the sink announces, and the source answers and announces.
SinkAnnounces == readying["SINK"] \/ waitRsp["SINK"] = "ANNOUNCE"

AnnouncedToSource ==
  /\ Tcp /\ SinkAnnounces /\ Agreed(algorithmId["SOURCE"]) /\ waitRsp["SOURCE"] \notin Negotiates
  /\ One("SOURCE", "REQUEST", "ANNOUNCE", algorithmId["SOURCE"]) /\ Nothing("SINK")

AnnounceAnswered ==
  /\ Tcp /\ SinkAnnounces /\ Agreed(algorithmId["SOURCE"]) /\ waitRsp["SOURCE"] = "ANNOUNCE"
  /\ Nothing("SOURCE")
  /\ Two("SINK", "RESPONSE", "ANNOUNCE", "REQUEST", "ANNOUNCE", algorithmId["SOURCE"])

AnnouncedToSink ==
  /\ Tcp /\ ~readying["SINK"] /\ Agreed(algorithmId["SOURCE"]) /\ waitRsp["SOURCE"] = "ANNOUNCE"
  /\ Nothing("SOURCE") /\ One("SINK", "REQUEST", "ANNOUNCE", algorithmId["SOURCE"])

\* The sink has acknowledged the cipher, and may not have switched to it yet.
CipherAnswered ==
  /\ Tcp /\ ~readying["SINK"] /\ waitRsp["SOURCE"] = "ANNOUNCE"
  /\ algorithmId["SINK"] \/ switching["SINK"]
  /\ One("SOURCE", "RESPONSE", "ANNOUNCE", algorithmId["SOURCE"]) /\ Nothing("SINK")

\* The source has switched, and sends its OPTIONS under the new cipher.
OfferedToSink ==
  /\ Tcp /\ ~readying["SINK"] /\ waitRsp["SOURCE"] = "OPT_M1"
  /\ algorithmId["SOURCE"] /\ (algorithmId["SINK"] \/ switching["SINK"])
  /\ Nothing("SOURCE") /\ One("SINK", "REQUEST", "OPTIONS", TRUE)

\* The cipher is agreed; what remains are capabilities and parameters.
Settled == Agreed(Tcp) /\ waitRsp["SINK"] # "ANNOUNCE" /\ (Tcp => ~readying["SINK"])

OptionsAnswered ==
  /\ Settled /\ waitRsp["SOURCE"] = "OPT_M1"
  /\ Two("SOURCE", "RESPONSE", "OPTIONS", "REQUEST", "OPTIONS", Tcp) /\ Nothing("SINK")

OfferedToSource ==
  /\ Settled /\ waitRsp["SOURCE"] \notin Negotiates
  /\ One("SOURCE", "REQUEST", "OPTIONS", Tcp) /\ Nothing("SINK")

OfferAnswered ==
  /\ Settled /\ waitRsp["SOURCE"] = "GET_PARAM_M3" /\ Nothing("SOURCE")
  /\ Two("SINK", "RESPONSE", "OPTIONS", "REQUEST", "GET_PARAM", Tcp)

ParametersAsked ==
  /\ Settled /\ waitRsp["SOURCE"] = "GET_PARAM_M3" /\ Nothing("SOURCE")
  /\ One("SINK", "REQUEST", "GET_PARAM", Tcp)

ParametersAnswered ==
  /\ Settled /\ waitRsp["SOURCE"] = "GET_PARAM_M3"
  /\ One("SOURCE", "RESPONSE", "GET_PARAM", Tcp) /\ Nothing("SINK")

ParametersSet ==
  /\ Settled /\ waitRsp["SOURCE"] = "SET_PARAM_M4" /\ Nothing("SOURCE")
  /\ One("SINK", "REQUEST", "SET_PARAM", Tcp)

SettingAnswered ==
  /\ Settled /\ waitRsp["SOURCE"] = "SET_PARAM_M4" /\ mode["SINK"] = ownMode["SOURCE"]
  /\ One("SOURCE", "RESPONSE", "SET_PARAM", Tcp) /\ Nothing("SINK")

\* Requests an end can no longer get, once the source has triggered SETUP.
OverWith(e) == IF e = "SOURCE" THEN {"ANNOUNCE", "OPTIONS"}
               ELSE {"ANNOUNCE", "OPTIONS", "GET_PARAM", "SET_PARAM"}

Negotiated ==
  /\ Settled /\ waitRsp["SOURCE"] \in {"NONE", "SET_PARAM_M5"}
  /\ \A e \in Ends : \A i \in DOMAIN net[e] :
       /\ net[e][i].sealed = Tcp
       /\ net[e][i].type = "REQUEST" => net[e][i].what \notin OverWith(e)

Negotiation ==
  \/ AnnouncedToSource \/ AnnounceAnswered \/ AnnouncedToSink \/ CipherAnswered
  \/ OfferedToSink \/ OptionsAnswered \/ OfferedToSource \/ OfferAnswered
  \/ ParametersAsked \/ ParametersAnswered \/ ParametersSet \/ SettingAnswered

Conversation ==
  \/ Unconnected /\ Unopened
  \/ open["SINK"] /\ Unconnected /\ Negotiation
  \/ open["SINK"] /\ Negotiated

IsResponse(m) == m.type = "RESPONSE"
\* The sink has stopped; what it said is still read.
Monologue ==
  /\ \A i, j \in DOMAIN net["SOURCE"] :
       i < j /\ net["SOURCE"][i].type = "REQUEST" /\ net["SOURCE"][i].what = "OPTIONS"
         => ~IsResponse(net["SOURCE"][j])
  /\ waitRsp["SOURCE"] \in Negotiates =>
       \A i, j \in DOMAIN net["SOURCE"] :
         IsResponse(net["SOURCE"][i]) /\ IsResponse(net["SOURCE"][j]) => i = j
  /\ waitRsp["SOURCE"] = "SET_PARAM_M4" =>
       \A i \in DOMAIN net["SOURCE"] : IsResponse(net["SOURCE"][i]) => mode["SINK"] = ownMode["SOURCE"]

\* The ends opened with different ciphers: nothing the source gets is readable.
Misheard ==
  /\ \A i \in DOMAIN net["SOURCE"] : net["SOURCE"][i].sealed # algorithmId["SOURCE"]
  /\ \A i \in DOMAIN net["SINK"] : IsResponse(net["SINK"][i])
  /\ active["SINK"] => algorithmId["SINK"] # algorithmId["SOURCE"]
  /\ ~switching["SINK"]
  /\ {"ProcessStreamMode", "OnPlayerReady"} \cap told["SOURCE"] = {}
  /\ waitRsp["SOURCE"] \notin Negotiates

TalkInv ==
  link = Ends /\ active["SOURCE"] =>
    /\ paired /\ active["SINK"] => Conversation
    /\ paired /\ ~active["SINK"] => Monologue
    /\ ~paired => Misheard

IInv == TypeInv /\ LinkInv /\ BusInv /\ WaitInv /\ ModeInv /\ TalkInv

-----------------------------------------------------------------------------
(* Messages                                                                  *)

FromBoth == {"ANNOUNCE", "OPTIONS", "EVENT"}
FromSource ==
  FromBoth \cup {"GET_PARAM", "SET_PARAM", "TRIGGER_SETUP", "TRIGGER_PLAY", "TRIGGER_PAUSE",
                 "TRIGGER_TEARDOWN"}
FromSink == FromBoth \cup {"SETUP", "PLAY", "PAUSE", "TEARDOWN", "RENDER_READY"}

LEMMA RequestsAre ==
  /\ Requests("SOURCE") = FromSource
  /\ Requests("SINK") = FromSink
  BY DEF Requests, Methods, OnlyFrom, Triggers, Other, FromSource, FromSink, FromBoth

LEMMA OtherEnd ==
  ASSUME NEW e \in Ends
  PROVE  /\ Other(e) \in Ends /\ Other(e) # e /\ Other(Other(e)) = e
         /\ Ends = {e, Other(e)}
         /\ "SOURCE" \in Ends /\ "SINK" \in Ends
         /\ Other("SOURCE") = "SINK" /\ Other("SINK") = "SOURCE"
  BY DEF Other, Ends

\* What e may send.
LEMMA PacketTypes ==
  ASSUME TypeInv, NEW e \in Ends
  PROVE  /\ \A what \in Requests(e) :
              /\ Request(e, what) \in MessageTo(Other(e))
              /\ Request(e, what).type = "REQUEST" /\ Request(e, what).what = what
              /\ Request(e, what).mode = mode[e]
              /\ Request(e, what).sealed = (linkType = "TCP" /\ Sealing(e))
         /\ \A what \in Requests(Other(e)) \cup {"405"} :
              /\ Response(e, what) \in MessageTo(Other(e))
              /\ Response(e, what).type = "RESPONSE" /\ Response(e, what).what = what
              /\ Response(e, what).mode = mode[e]
              /\ Response(e, what).sealed = (linkType = "TCP" /\ Sealing(e))
<1>1. mode[e] \in Modes /\ (linkType = "TCP" /\ Sealing(e)) \in BOOLEAN
  BY DEF TypeInv, EngineTypes, Sealing
<1>2. Other(Other(e)) = e
  BY OtherEnd
<1> QED
  BY <1>1, <1>2 DEF Request, Response, Packet, MessageTo

LEMMA HeadFacts ==
  ASSUME TypeInv, NEW e \in Ends, net[e] # <<>>
  PROVE  /\ Head(net[e]) \in MessageTo(e) /\ Tail(net[e]) \in Seq(MessageTo(e))
         /\ 1 \in DOMAIN net[e] /\ net[e][1] = Head(net[e])
         /\ \A i \in DOMAIN Tail(net[e]) : i + 1 \in DOMAIN net[e] /\ Tail(net[e])[i] = net[e][i + 1]
         /\ DOMAIN Tail(net[e]) \subseteq Nat
  BY DEF TypeInv, NetTypes

LEMMA HeadType ==
  ASSUME TypeInv, NEW e \in Ends, net[e] # <<>>
  PROVE  /\ Head(net[e]).type \in {"REQUEST", "RESPONSE"}
         /\ Head(net[e]).type = "REQUEST" => Head(net[e]).what \in Requests(Other(e))
         /\ Head(net[e]).type = "RESPONSE" => Head(net[e]).what \in Requests(e) \cup {"405"}
         /\ Head(net[e]).mode \in Modes /\ Head(net[e]).sealed \in BOOLEAN
  BY HeadFacts DEF MessageTo

LEMMA DeliveredTypes ==
  ASSUME NEW e \in Ends, NEW p \in Seq(MessageTo(Other(e)))
  PROVE  Delivered(e, p) \in Seq(MessageTo(Other(e)))
  BY DEF Delivered

LEMMA Joined ==
  ASSUME NEW S, NEW a \in Seq(S), NEW b \in Seq(S)
  PROVE  /\ a \o b \in Seq(S)
         /\ \A i \in DOMAIN (a \o b) :
              \/ i \in DOMAIN a /\ (a \o b)[i] = a[i]
              \/ i \notin DOMAIN a /\ i - Len(a) \in DOMAIN b /\ (a \o b)[i] = b[i - Len(a)]
         /\ \A i \in DOMAIN a : \A j \in DOMAIN (a \o b) : j \notin DOMAIN a => i < j
         /\ DOMAIN a \subseteq DOMAIN (a \o b) /\ DOMAIN (a \o b) \subseteq Nat
         /\ a \o <<>> = a /\ <<>> \o b = b
  OBVIOUS

\* What the ends still have to read after a handler, and after a send.
LEMMA HandleNet ==
  ASSUME TypeInv, NEW e \in Ends, net[e] # <<>>, NEW p \in Seq(MessageTo(Other(e))), Handle(e, p)
  PROVE  /\ NetTypes'
         /\ net'[e] = Tail(net[e]) /\ net'[Other(e)] = net[Other(e)] \o Delivered(e, p)
<1>1. net'[e] = Tail(net[e]) /\ net'[Other(e)] = net[Other(e)] \o Delivered(e, p)
      /\ net' = [d \in Ends |-> net'[d]]
  BY OtherEnd DEF Handle, TypeInv, NetTypes
<1>2. net'[e] \in Seq(MessageTo(e)) /\ net'[Other(e)] \in Seq(MessageTo(Other(e)))
  BY <1>1, HeadFacts, DeliveredTypes, OtherEnd, Joined DEF TypeInv, NetTypes
<1> QED
  BY <1>1, <1>2, OtherEnd DEF NetTypes

LEMMA SendNet ==
  ASSUME TypeInv, NEW e \in Ends, NEW p \in Seq(MessageTo(Other(e))), Send(e, p)
  PROVE  /\ NetTypes'
         /\ net'[e] = net[e] /\ net'[Other(e)] = net[Other(e)] \o Delivered(e, p)
<1>1. net'[e] = net[e] /\ net'[Other(e)] = net[Other(e)] \o Delivered(e, p)
      /\ net' = [d \in Ends |-> net'[d]]
  BY OtherEnd DEF Send, TypeInv, NetTypes
<1>2. net'[e] \in Seq(MessageTo(e)) /\ net'[Other(e)] \in Seq(MessageTo(Other(e)))
  BY <1>1, DeliveredTypes, OtherEnd, Joined DEF TypeInv, NetTypes
<1> QED
  BY <1>1, <1>2, OtherEnd DEF NetTypes

-----------------------------------------------------------------------------
(* What a handler does                                                       *)

\* A message that e's handler sends.
Utterance(e, m) ==
  /\ m \in MessageTo(Other(e)) /\ m.mode = mode[e]
  /\ \/ m.sealed = (Tcp /\ Sealing(e))
     \/ e = "SOURCE" /\ ReadsResponse(e, "ANNOUNCE")
  /\ m.type = "REQUEST" =>
       \/ m.what = "ANNOUNCE" /\ ReadsRequest(e, "ANNOUNCE")
       \/ /\ m.what \in {"OPTIONS", "GET_PARAM"}
          /\ ReadsRequest(e, "OPTIONS") \/ ReadsResponse(e, "ANNOUNCE")
       \/ m.what = "SET_PARAM" /\ ReadsResponse(e, "GET_PARAM_M3")
       \/ m.what = "TRIGGER_SETUP" /\ ReadsResponse(e, "SET_PARAM_M4") /\ ~IsRefusal(e)
       \/ m.what = "SETUP" /\ ReadsRequest(e, "TRIGGER_SETUP")

Said(e, p) == p \in Seq(MessageTo(Other(e))) /\ \A i \in DOMAIN p : Utterance(e, p[i])

\* What e awaits after a handler, and why.
Awaits(e, response) ==
  \/ response \in {waitRsp[e], "NONE"}
  \/ e = "SOURCE" /\ response = "ANNOUNCE" /\ ReadsRequest(e, "ANNOUNCE")
  \/ e = "SOURCE" /\ response = "OPT_M1" /\ ReadsResponse(e, "ANNOUNCE")
  \/ e = "SOURCE" /\ response = "GET_PARAM_M3" /\ ReadsRequest(e, "OPTIONS") /\ CanSend(e)
  \/ e = "SOURCE" /\ response = "SET_PARAM_M4" /\ ReadsResponse(e, "GET_PARAM_M3")
  \/ e = "SOURCE" /\ response = "SET_PARAM_M5" /\ ReadsResponse(e, "SET_PARAM_M4")
  \/ e = "SINK" /\ response = "OPT_M2" /\ ReadsRequest(e, "OPTIONS")
  \/ e = "SINK" /\ response = "SETUP_M6" /\ ReadsRequest(e, "TRIGGER_SETUP")

EngineStep(e) ==
  /\ UNCHANGED <<active, open, readying, linkVars>>
  /\ EngineTypes'
  /\ \A d \in Ends : d # e =>
       /\ algorithmId'[d] = algorithmId[d] /\ switching'[d] = switching[d]
       /\ waitRsp'[d] = waitRsp[d] /\ mode'[d] = mode[d] /\ param'[d] = param[d]
       /\ told'[d] = told[d]
  /\ \/ algorithmId'[e] = algorithmId[e]
     \/ e = "SOURCE" /\ ReadsResponse(e, "ANNOUNCE")
  /\ \/ switching'[e] = switching[e]
     \/ e = "SINK" /\ ReadsRequest(e, "ANNOUNCE")
  /\ Awaits(e, waitRsp'[e])
  /\ \/ mode'[e] = mode[e]
     \/ e = "SINK" /\ mode'[e] = Head(net[e]).mode
  /\ param'[e] \in {param[e], mode[e]}
  /\ "ProcessStreamMode" \in told'[e] =>
       \/ "ProcessStreamMode" \in told[e]
       \/ e = "SINK" /\ ReadsRequest(e, "TRIGGER_SETUP") /\ mode[e] = "STREAM"

Hearing(e, p) == Reading(e) /\ Handle(e, p) /\ Said(e, p) /\ EngineStep(e)

LEMMA ResponseUttered ==
  ASSUME TypeInv, NEW e \in Ends, NEW what \in Requests(Other(e)) \cup {"405"}
  PROVE  Utterance(e, Response(e, what))
  BY PacketTypes DEF Utterance, Tcp

LEMMA SaidNothing ==
  ASSUME NEW e \in Ends
  PROVE  Said(e, <<>>)
  BY DEF Said

LEMMA SaidOne ==
  ASSUME NEW e \in Ends, NEW m, Utterance(e, m)
  PROVE  Said(e, <<m>>)
<1>1. m \in MessageTo(Other(e))
  BY DEF Utterance
<1>2. <<m>> \in Seq(MessageTo(Other(e))) /\ \A i \in DOMAIN <<m>> : <<m>>[i] = m
  BY <1>1
<1> QED
  BY <1>2 DEF Said

LEMMA SaidTwo ==
  ASSUME NEW e \in Ends, NEW m, NEW n, Utterance(e, m), Utterance(e, n)
  PROVE  Said(e, <<m, n>>)
<1>1. m \in MessageTo(Other(e)) /\ n \in MessageTo(Other(e))
  BY DEF Utterance
<1>2. /\ <<m, n>> \in Seq(MessageTo(Other(e)))
      /\ \A i \in DOMAIN <<m, n>> : <<m, n>>[i] = m \/ <<m, n>>[i] = n
  BY <1>1
<1> QED
  BY <1>2 DEF Said

\* The request that a handler has read is one its peer may send.
LEMMA RequestRead ==
  ASSUME TypeInv, NEW e \in Ends, NEW what, ReadsRequest(e, what)
  PROVE  what \in Requests(Other(e)) /\ Reading(e)
  BY HeadType DEF ReadsRequest, Reading

\* A handler that changes no more than what it has told the listener.
LEMMA OnlyTells ==
  ASSUME TypeInv, NEW e \in Ends, NEW callbacks \in SUBSET Callbacks,
         "ProcessStreamMode" \notin callbacks, Tell(e, callbacks),
         UNCHANGED <<active, open, algorithmId, switching, readying, waitRsp, mode, param, linkVars>>
  PROVE  EngineStep(e)
  BY DEF TypeInv, EngineTypes, Tell, EngineStep, Awaits

LEMMA OnlyAwaits ==
  ASSUME TypeInv, NEW e \in Ends, NEW response \in WaitResponse, Await(e, response),
         Awaits(e, response), told' = told,
         UNCHANGED <<active, open, algorithmId, switching, readying, mode, param, linkVars>>
  PROVE  EngineStep(e)
  BY DEF TypeInv, EngineTypes, Await, EngineStep

LEMMA AwaitsAndTells ==
  ASSUME TypeInv, NEW e \in Ends, NEW response \in WaitResponse, Await(e, response),
         Awaits(e, response), NEW callbacks \in SUBSET Callbacks,
         "ProcessStreamMode" \notin callbacks, Tell(e, callbacks),
         UNCHANGED <<active, open, algorithmId, switching, readying, mode, param, linkVars>>
  PROVE  EngineStep(e)
  BY DEF TypeInv, EngineTypes, Await, Tell, EngineStep

LEMMA ErrorsTold ==
  ASSUME NEW e \in Ends
  PROVE  /\ ErrorUnlessSent(e) \in SUBSET Callbacks
         /\ "ProcessStreamMode" \notin ErrorUnlessSent(e)
  BY DEF ErrorUnlessSent, Callbacks

LEMMA OptionRequest ==
  ASSUME IInv, NEW e \in Ends, ProcessOptionRequest(e)
  PROVE  \E p : Hearing(e, p)
<1> USE DEF IInv
<1>1. Reading(e) /\ ReadsRequest(e, "OPTIONS") /\ "OPTIONS" \in Requests(Other(e))
  BY RequestRead DEF ProcessOptionRequest
<1>2. AfterOptions(e).what \in Requests(e) \cap {"OPTIONS", "GET_PARAM"}
  BY RequestsAre DEF Ends, AfterOptions, FromSource, FromSink, FromBoth
<1>3. Utterance(e, Request(e, AfterOptions(e).what))
  BY <1>1, <1>2, PacketTypes DEF Utterance, Tcp
<1>4. Said(e, <<Response(e, "OPTIONS"), Request(e, AfterOptions(e).what)>>)
  BY <1>1, <1>3, ResponseUttered, SaidTwo
<1>5. EngineStep(e)
  <2>1. CASE CanSend(e)
    <3>1. /\ AfterOptions(e).response \in WaitResponse
          /\ Awaits(e, AfterOptions(e).response)
      BY <1>1, <2>1 DEF Ends, AfterOptions, WaitResponse, Awaits
    <3>2. Await(e, AfterOptions(e).response)
      BY <2>1 DEF ProcessOptionRequest
    <3> QED
      BY <3>1, <3>2, ErrorsTold, AwaitsAndTells DEF ProcessOptionRequest
  <2>2. CASE ~CanSend(e)
    BY <2>2, ErrorsTold, OnlyTells DEF ProcessOptionRequest
  <2> QED
    BY <2>1, <2>2
<1> QED
  BY <1>1, <1>4, <1>5 DEF ProcessOptionRequest, Hearing

LEMMA GetParameterRequest ==
  ASSUME IInv, NEW e \in Ends, ProcessGetParameterRequestM3(e)
  PROVE  \E p : Hearing(e, p)
<1> USE DEF IInv
<1>1. Reading(e) /\ "GET_PARAM" \in Requests(Other(e))
  BY RequestRead DEF ProcessGetParameterRequestM3
<1>2. Said(e, <<Response(e, "GET_PARAM")>>)
  BY <1>1, ResponseUttered, SaidOne
<1>3. EngineStep(e)
  BY ErrorsTold, OnlyTells DEF ProcessGetParameterRequestM3
<1> QED
  BY <1>1, <1>2, <1>3 DEF ProcessGetParameterRequestM3, Hearing

LEMMA SetParamRequest ==
  ASSUME IInv, NEW e \in Ends, ProcessSetParamRequestM4(e)
  PROVE  \E p : Hearing(e, p)
<1> USE DEF IInv
<1>1. Reading(e) /\ "SET_PARAM" \in Requests(Other(e))
  BY RequestRead DEF ProcessSetParamRequestM4
<1>2. Said(e, <<Response(e, "SET_PARAM")>>)
  BY <1>1, ResponseUttered, SaidOne
<1>3. e = "SINK"
  BY <1>1, RequestsAre, OtherEnd DEF Ends, FromSink, FromBoth
<1>4. Head(net[e]).mode \in Modes
  BY <1>1, HeadType DEF Reading
<1>5. EngineStep(e)
  BY <1>3, <1>4, ErrorsTold
     DEF ProcessSetParamRequestM4, TypeInv, EngineTypes, Tell, EngineStep, Awaits
<1> QED
  BY <1>1, <1>2, <1>5 DEF ProcessSetParamRequestM4, Hearing

LEMMA TriggerSetupRequest ==
  ASSUME IInv, NEW e \in Ends, TriggerSetup(e)
  PROVE  \E p : Hearing(e, p)
<1> USE DEF IInv
<1>1. /\ Reading(e) /\ ReadsRequest(e, "TRIGGER_SETUP")
      /\ "TRIGGER_SETUP" \in Requests(Other(e))
  BY RequestRead DEF TriggerSetup
<1>2. e = "SINK" /\ "SETUP" \in Requests(e)
  BY <1>1, RequestsAre, OtherEnd DEF Ends, FromSink, FromBoth
<1>3. Utterance(e, Response(e, "TRIGGER_SETUP")) /\ Utterance(e, Request(e, "SETUP"))
  BY <1>1, <1>2, ResponseUttered, PacketTypes DEF Utterance, Tcp
<1>4. Said(e, <<Response(e, "TRIGGER_SETUP")>>)
  BY <1>3, SaidOne
<1>5. Said(e, <<Response(e, "TRIGGER_SETUP"), Request(e, "SETUP")>>)
  BY <1>3, SaidTwo
<1>6. CASE mode[e] = "STREAM"
  <2>1. /\ Tell(e, {"ProcessStreamMode"}) /\ param' = [param EXCEPT ![e] = mode[e]]
        /\ Handle(e, <<Response(e, "TRIGGER_SETUP")>>) /\ waitRsp' = waitRsp
        /\ UNCHANGED <<active, open, algorithmId, switching, readying, mode, linkVars>>
    BY <1>6 DEF TriggerSetup
  <2>2. EngineStep(e)
    BY <1>1, <1>2, <1>6, <2>1
       DEF TypeInv, EngineTypes, Tell, EngineStep, Awaits, Callbacks
  <2> QED
    BY <1>1, <1>4, <2>1, <2>2 DEF Hearing
<1>7. CASE mode[e] = "MIRROR"
  <2>1. /\ Await(e, "SETUP_M6") /\ param' = param /\ told' = told
        /\ Handle(e, <<Response(e, "TRIGGER_SETUP"), Request(e, "SETUP")>>)
        /\ UNCHANGED <<active, open, algorithmId, switching, readying, mode, linkVars>>
    BY <1>7 DEF TriggerSetup
  <2>2. EngineStep(e)
    BY <1>1, <1>2, <2>1, OnlyAwaits DEF Awaits, WaitResponse
  <2> QED
    BY <1>1, <1>5, <2>1, <2>2 DEF Hearing
<1> QED
  BY <1>6, <1>7 DEF TriggerSetup

LEMMA TriggerRequest ==
  ASSUME IInv, NEW e \in Ends, ProcessTriggerMethod(e)
  PROVE  \E p : Hearing(e, p)
<1> USE DEF IInv
<1>1. PICK what \in DOMAIN TriggerCallback :
        /\ ReadsRequest(e, what)
        /\ Handle(e, <<Response(e, what)>>)
        /\ Tell(e, TriggerCallback[what])
  BY DEF ProcessTriggerMethod
<1>2. Reading(e) /\ Said(e, <<Response(e, what)>>)
  BY <1>1, RequestRead, ResponseUttered, SaidOne
<1>3. TriggerCallback[what] \in SUBSET Callbacks
      /\ "ProcessStreamMode" \notin TriggerCallback[what]
  BY <1>1 DEF TriggerCallback, Callbacks
<1>4. EngineStep(e)
  BY <1>1, <1>3, OnlyTells DEF ProcessTriggerMethod
<1> QED
  BY <1>1, <1>2, <1>4 DEF Hearing

LEMMA PlayRequest ==
  ASSUME IInv, NEW e \in Ends, ProcessPlayRequest(e)
  PROVE  \E p : Hearing(e, p)
<1> USE DEF IInv
<1>1. PICK what \in {"PLAY", "PAUSE"} :
        /\ ReadsRequest(e, what)
        /\ Handle(e, <<Response(e, what)>>)
        /\ Tell(e, ErrorUnlessSent(e) \cup {IF what = "PLAY" THEN "OnPlay" ELSE "OnPause"})
  BY DEF ProcessPlayRequest
<1>2. Reading(e) /\ Said(e, <<Response(e, what)>>)
  BY <1>1, RequestRead, ResponseUttered, SaidOne
<1> DEFINE callbacks == ErrorUnlessSent(e) \cup {IF what = "PLAY" THEN "OnPlay" ELSE "OnPause"}
<1>3. callbacks \in SUBSET Callbacks /\ "ProcessStreamMode" \notin callbacks
  BY <1>1, ErrorsTold DEF Callbacks
<1>4. EngineStep(e)
  BY <1>1, <1>3, OnlyTells DEF ProcessPlayRequest
<1> QED
  BY <1>1, <1>2, <1>4 DEF Hearing

LEMMA SetupRequest ==
  ASSUME IInv, NEW e \in Ends, ProcessSetupRequest(e)
  PROVE  \E p : Hearing(e, p)
<1> USE DEF IInv
<1>1. Reading(e)
  BY RequestRead DEF ProcessSetupRequest
<1>2. EngineStep(e)
  BY DEF ProcessSetupRequest, TypeInv, EngineTypes, Tell, EngineStep, Awaits, Callbacks
<1> QED
  BY <1>1, <1>2, SaidNothing DEF ProcessSetupRequest, Hearing

LEMMA TearDownRequest ==
  ASSUME IInv, NEW e \in Ends, ProcessTearDownRequest(e)
  PROVE  \E p : Hearing(e, p)
<1> USE DEF IInv
<1>1. Reading(e)
  BY RequestRead DEF ProcessTearDownRequest
<1>2. EngineStep(e)
  BY OnlyTells DEF ProcessTearDownRequest, Callbacks
<1> QED
  BY <1>1, <1>2, SaidNothing DEF ProcessTearDownRequest, Hearing

LEMMA RenderReadyRequest ==
  ASSUME IInv, NEW e \in Ends, ProcessRenderReadyRequest(e)
  PROVE  \E p : Hearing(e, p)
<1> USE DEF IInv
<1>1. Reading(e) /\ "RENDER_READY" \in Requests(Other(e))
  BY RequestRead DEF ProcessRenderReadyRequest
<1>2. Said(e, <<Response(e, "RENDER_READY")>>)
  BY <1>1, ResponseUttered, SaidOne
<1> DEFINE callbacks == IF CanSend(e) THEN {"OnPlayerReady"} ELSE {"OnError"}
<1>3. callbacks \in SUBSET Callbacks /\ "ProcessStreamMode" \notin callbacks
  BY DEF Callbacks
<1>4. EngineStep(e)
  BY <1>3, OnlyTells DEF ProcessRenderReadyRequest
<1> QED
  BY <1>1, <1>2, <1>4 DEF ProcessRenderReadyRequest, Hearing

LEMMA GarbledMessage ==
  ASSUME IInv, NEW e \in Ends, Garbled(e)
  PROVE  \E p : Hearing(e, p)
<1> USE DEF IInv
<1>1. Said(e, <<Response(e, "405")>>)
  BY ResponseUttered, SaidOne
<1>2. EngineStep(e)
  BY ErrorsTold, OnlyTells DEF Garbled
<1> QED
  BY <1>1, <1>2 DEF Garbled, Hearing

Announces(e) ==
  \/ e = "SOURCE" /\ AnnounceToSource
  \/ e = "SINK" /\ AnnounceToSink

LEMMA AnnounceRequests ==
  ASSUME IInv, NEW e \in Ends, Announces(e)
  PROVE  \E p : Hearing(e, p)
<1> USE DEF IInv
<1>1. Reading(e) /\ ReadsRequest(e, "ANNOUNCE") /\ "ANNOUNCE" \in Requests(Other(e))
  BY RequestRead DEF Announces, AnnounceToSource, AnnounceToSink
<1>2. Utterance(e, Response(e, "ANNOUNCE"))
  BY <1>1, ResponseUttered
<1>3. ASSUME e = "SOURCE", AnnounceToSource
      PROVE  \E p : Hearing(e, p)
  <2>1. "ANNOUNCE" \in Requests(e)
    BY <1>3, RequestsAre DEF FromSource, FromBoth
  <2>2. Utterance(e, Request(e, "ANNOUNCE"))
    BY <1>1, <2>1, PacketTypes DEF Utterance, Tcp
  <2>3. Said(e, <<Response(e, "ANNOUNCE"), Request(e, "ANNOUNCE")>>)
    BY <1>2, <2>2, SaidTwo
  <2>4. EngineStep(e)
    BY <1>1, <1>3, OnlyAwaits DEF AnnounceToSource, Awaits, WaitResponse
  <2> QED
    BY <1>1, <1>3, <2>3, <2>4 DEF AnnounceToSource, Hearing
<1>4. ASSUME e = "SINK", AnnounceToSink
      PROVE  \E p : Hearing(e, p)
  <2>1. Said(e, <<Response(e, "ANNOUNCE")>>)
    BY <1>2, SaidOne
  <2>2. EngineStep(e)
    BY <1>1, <1>4 DEF AnnounceToSink, TypeInv, EngineTypes, EngineStep, Awaits
  <2> QED
    BY <1>1, <1>4, <2>1, <2>2 DEF AnnounceToSink, Hearing
<1> QED
  BY <1>3, <1>4 DEF Announces

LEMMA CommonResponse ==
  ASSUME IInv, NEW e \in Ends, ProcessCommonResponse(e)
  PROVE  \E p : Hearing(e, p)
<1> USE DEF IInv
<1>1. Reading(e)
  BY DEF ProcessCommonResponse, ReadsResponse
<1> DEFINE callbacks == IF IsRefusal(e) THEN {"OnError"} ELSE {}
<1>2. callbacks \in SUBSET Callbacks /\ "ProcessStreamMode" \notin callbacks
  BY DEF Callbacks
<1>3. EngineStep(e)
  BY <1>2, OnlyTells DEF ProcessCommonResponse
<1> QED
  BY <1>1, <1>3, SaidNothing DEF ProcessCommonResponse, Hearing

LEMMA GetParamM3Response ==
  ASSUME IInv, NEW e \in Ends, ProcessGetParamM3Response(e)
  PROVE  \E p : Hearing(e, p)
<1> USE DEF IInv
<1>1. Reading(e) /\ ReadsResponse(e, "GET_PARAM_M3")
  BY DEF ProcessGetParamM3Response, ReadsResponse
<1>2. e = "SOURCE"
  BY <1>1 DEF Ends, ReadsResponse, WaitInv
<1>3. CASE Head(net[e]).what = "GET_PARAM"
  <2>1. "SET_PARAM" \in Requests(e)
    BY <1>2, RequestsAre DEF FromSource
  <2>2. Utterance(e, Request(e, "SET_PARAM"))
    BY <1>1, <2>1, PacketTypes DEF Utterance, Tcp
  <2>3. EngineStep(e)
    BY <1>1, <1>2, <1>3, OnlyAwaits DEF ProcessGetParamM3Response, Awaits, WaitResponse
  <2> QED
    BY <1>1, <1>3, <2>2, <2>3, SaidOne DEF ProcessGetParamM3Response, Hearing
<1>4. CASE Head(net[e]).what # "GET_PARAM"
  <2>1. EngineStep(e)
    BY <1>4, OnlyTells DEF ProcessGetParamM3Response, Callbacks
  <2> QED
    BY <1>1, <1>4, <2>1, SaidNothing DEF ProcessGetParamM3Response, Hearing
<1> QED
  BY <1>3, <1>4

LEMMA SetParamM4Response ==
  ASSUME IInv, NEW e \in Ends, ProcessSetParamM4Response(e)
  PROVE  \E p : Hearing(e, p)
<1> USE DEF IInv
<1>1. Reading(e) /\ ReadsResponse(e, "SET_PARAM_M4")
  BY DEF ProcessSetParamM4Response, ReadsResponse
<1>2. e = "SOURCE"
  BY <1>1 DEF Ends, ReadsResponse, WaitInv
<1>3. CASE ~IsRefusal(e)
  <2>1. "TRIGGER_SETUP" \in Requests(e)
    BY <1>2, RequestsAre DEF FromSource
  <2>2. Utterance(e, Request(e, "TRIGGER_SETUP"))
    BY <1>1, <1>3, <2>1, PacketTypes DEF Utterance, Tcp
  <2>3. Awaits(e, "SET_PARAM_M5") /\ "SET_PARAM_M5" \in WaitResponse
    BY <1>1, <1>2 DEF Awaits, WaitResponse
  <2>4. EngineStep(e)
    BY <1>3, <2>3, ErrorsTold, AwaitsAndTells DEF ProcessSetParamM4Response
  <2> QED
    BY <1>1, <1>3, <2>2, <2>4, SaidOne DEF ProcessSetParamM4Response, Hearing
<1>4. CASE IsRefusal(e)
  <2>1. EngineStep(e)
    BY <1>4, OnlyTells DEF ProcessSetParamM4Response, Callbacks
  <2> QED
    BY <1>1, <1>4, <2>1, SaidNothing DEF ProcessSetParamM4Response, Hearing
<1> QED
  BY <1>3, <1>4

LEMMA SetParamM5Response ==
  ASSUME IInv, NEW e \in Ends, ProcessSetParamM5Response(e)
  PROVE  \E p : Hearing(e, p)
<1> USE DEF IInv
<1>1. Reading(e)
  BY DEF ProcessSetParamM5Response, ReadsResponse
<1> DEFINE callbacks == IF IsRefusal(e) THEN {"OnError"} ELSE {}
<1>2. callbacks \in SUBSET Callbacks /\ "ProcessStreamMode" \notin callbacks
  BY DEF Callbacks
<1>3. EngineStep(e)
  BY <1>2, AwaitsAndTells DEF ProcessSetParamM5Response, Awaits, WaitResponse
<1> QED
  BY <1>1, <1>3, SaidNothing DEF ProcessSetParamM5Response, Hearing

LEMMA SetupM6Response ==
  ASSUME IInv, NEW e \in Ends, ProcessSetupM6Response(e)
  PROVE  \E p : Hearing(e, p)
<1> USE DEF IInv
<1>1. Reading(e)
  BY DEF ProcessSetupM6Response, ReadsResponse
<1> DEFINE callbacks == IF Head(net[e]).what = "SETUP" THEN {"OnSetup"} ELSE {"OnError"}
<1>2. callbacks \in SUBSET Callbacks /\ "ProcessStreamMode" \notin callbacks
  BY DEF Callbacks
<1>3. EngineStep(e)
  BY <1>2, OnlyTells DEF ProcessSetupM6Response
<1> QED
  BY <1>1, <1>3, SaidNothing DEF ProcessSetupM6Response, Hearing

LEMMA PlayM7Response ==
  ASSUME IInv, NEW e \in Ends, ProcessPlayM7Response(e)
  PROVE  \E p : Hearing(e, p)
<1> USE DEF IInv
<1>1. Reading(e)
  BY DEF ProcessPlayM7Response, ReadsResponse
<1>2. EngineStep(e)
  BY OnlyAwaits DEF ProcessPlayM7Response, Awaits, WaitResponse
<1> QED
  BY <1>1, <1>2, SaidNothing DEF ProcessPlayM7Response, Hearing

LEMMA PauseM9Response ==
  ASSUME IInv, NEW e \in Ends, ProcessPauseM9Response(e)
  PROVE  \E p : Hearing(e, p)
<1> USE DEF IInv
<1>1. Reading(e)
  BY DEF ProcessPauseM9Response, ReadsResponse
<1>2. EngineStep(e)
  BY OnlyTells DEF ProcessPauseM9Response, Callbacks
<1> QED
  BY <1>1, <1>2, SaidNothing DEF ProcessPauseM9Response, Hearing

LEMMA AnnounceResponse ==
  ASSUME IInv, NEW e \in Ends, DealAnnounceRequest(e)
  PROVE  \E p : Hearing(e, p)
<1> USE DEF IInv
<1>1. Reading(e) /\ ReadsResponse(e, "ANNOUNCE")
  BY DEF DealAnnounceRequest, ReadsResponse
<1>2. CASE e = "SOURCE"
  <2> DEFINE offer == [Request(e, "OPTIONS") EXCEPT !.sealed = active[e]]
  <2>1. /\ Handle(e, <<offer>>) /\ Await(e, "OPT_M1")
        /\ algorithmId' = [algorithmId EXCEPT ![e] = TRUE]
    BY <1>2 DEF DealAnnounceRequest
  <2>2. "OPTIONS" \in Requests(e)
    BY <1>2, RequestsAre DEF FromSource, FromBoth
  <2>3. active[e] \in BOOLEAN
    BY DEF TypeInv, EngineTypes
  <2>4. Request(e, "OPTIONS") \in [type : {"REQUEST"}, what : Requests(e), mode : Modes, sealed : BOOLEAN]
    BY <2>2, PacketTypes DEF TypeInv, EngineTypes, Request, Packet, Sealing
  <2>5. /\ offer \in [type : {"REQUEST"}, what : Requests(e), mode : Modes, sealed : BOOLEAN]
        /\ offer.mode = Request(e, "OPTIONS").mode
        /\ offer.type = "REQUEST" /\ offer.what = Request(e, "OPTIONS").what
    BY <2>3, <2>4
  <2>6. Utterance(e, offer)
    BY <1>1, <1>2, <2>2, <2>5, PacketTypes, OtherEnd DEF Utterance, MessageTo
  <2>7. EngineStep(e)
    BY <1>1, <1>2, <2>1
       DEF DealAnnounceRequest, TypeInv, EngineTypes, Await, EngineStep, Awaits,
           WaitResponse
  <2> QED
    BY <1>1, <2>1, <2>6, <2>7, SaidOne DEF Hearing
<1>3. CASE e = "SINK"
  <2>1. EngineStep(e)
    BY <1>3 DEF DealAnnounceRequest, TypeInv, EngineTypes, EngineStep, Awaits
  <2> QED
    BY <1>1, <1>3, <2>1, SaidNothing DEF DealAnnounceRequest, Hearing
<1> QED
  BY <1>2, <1>3 DEF Ends

LEMMA NobodyAwaits ==
  ASSUME IInv, NEW e \in Ends, UnexpectedResponse(e)
  PROVE  \E p : Hearing(e, p)
<1> USE DEF IInv
<1>1. Reading(e)
  BY DEF UnexpectedResponse, ReadsResponse
<1>2. EngineStep(e)
  BY DEF UnexpectedResponse, engineVars, TypeInv, EngineTypes, EngineStep, Awaits
<1> QED
  BY <1>1, <1>2, SaidNothing DEF UnexpectedResponse, Hearing

Handler(e) == OnRequest(e) \/ OnResponse(e) \/ Announces(e)

LEMMA HandlersHear ==
  ASSUME IInv, NEW e \in Ends, Handler(e)
  PROVE  \E p : Hearing(e, p)
<1>1. CASE OnRequest(e)
  BY <1>1, OptionRequest, GetParameterRequest, SetParamRequest, TriggerSetupRequest,
     TriggerRequest,
     PlayRequest, SetupRequest, TearDownRequest, RenderReadyRequest, GarbledMessage DEF OnRequest
<1>2. CASE OnResponse(e)
  BY <1>2, CommonResponse, GetParamM3Response, SetParamM4Response, SetParamM5Response,
     SetupM6Response, PlayM7Response, PauseM9Response, AnnounceResponse, NobodyAwaits DEF OnResponse
<1>3. CASE Announces(e)
  BY <1>3, AnnounceRequests
<1> QED
  BY <1>1, <1>2, <1>3 DEF Handler

LEMMA HearingNet ==
  ASSUME IInv, NEW e \in Ends, NEW p, Hearing(e, p)
  PROVE  /\ NetTypes' /\ net[e] # <<>> /\ e \in link /\ open[e] /\ ~switching[e]
         /\ net'[e] = Tail(net[e]) /\ net'[Other(e)] = net[Other(e)] \o Delivered(e, p)
         /\ \A i \in DOMAIN net'[e] :
              i \in Nat /\ i + 1 \in DOMAIN net[e] /\ net'[e][i] = net[e][i + 1]
         /\ \A i \in DOMAIN net'[Other(e)] :
              \/ i \in DOMAIN net[Other(e)] /\ net'[Other(e)][i] = net[Other(e)][i]
              \/ /\ CanSend(e) /\ Other(e) \in link
                 /\ i \notin DOMAIN net[Other(e)] /\ Utterance(e, net'[Other(e)][i])
<1> USE DEF IInv
<1>1. net[e] # <<>> /\ e \in link /\ open[e] /\ ~switching[e]
  BY DEF Hearing, Reading, LinkInv
<1>2. p \in Seq(MessageTo(Other(e))) /\ Handle(e, p) /\ \A i \in DOMAIN p : Utterance(e, p[i])
  BY DEF Hearing, Said
<1>3. /\ NetTypes'
      /\ net'[e] = Tail(net[e]) /\ net'[Other(e)] = net[Other(e)] \o Delivered(e, p)
  BY <1>1, <1>2, HandleNet
<1>4. \A i \in DOMAIN net'[e] :
        i \in Nat /\ i + 1 \in DOMAIN net[e] /\ net'[e][i] = net[e][i + 1]
  BY <1>1, <1>3, HeadFacts
<1>5. ASSUME NEW i \in DOMAIN net'[Other(e)]
      PROVE  \/ i \in DOMAIN net[Other(e)] /\ net'[Other(e)][i] = net[Other(e)][i]
             \/ /\ CanSend(e) /\ Other(e) \in link
                /\ i \notin DOMAIN net[Other(e)] /\ Utterance(e, net'[Other(e)][i])
  <2> DEFINE old == net[Other(e)]
             new == Delivered(e, p)
  <2>1. old \in Seq(MessageTo(Other(e))) /\ new \in Seq(MessageTo(Other(e)))
    BY <1>2, DeliveredTypes, OtherEnd DEF TypeInv, NetTypes
  <2>2. \A k \in DOMAIN new : CanSend(e) /\ Other(e) \in link /\ Utterance(e, new[k])
    BY <1>2 DEF Delivered
  <2> HIDE DEF new, old
  <2>3. \/ i \in DOMAIN old /\ (old \o new)[i] = old[i]
        \/ i \notin DOMAIN old /\ i - Len(old) \in DOMAIN new /\ (old \o new)[i] = new[i - Len(old)]
    <3>1. i \in DOMAIN (old \o new)
      BY <1>3 DEF old, new
    <3> QED
      BY <2>1, <3>1, Joined
  <2>4. net'[Other(e)] = old \o new
    BY <1>3 DEF old, new
  <2>5. CASE i \in DOMAIN old /\ (old \o new)[i] = old[i]
    BY <2>4, <2>5 DEF old
  <2>6. CASE /\ i \notin DOMAIN old /\ i - Len(old) \in DOMAIN new
             /\ (old \o new)[i] = new[i - Len(old)]
    BY <2>2, <2>4, <2>6 DEF old
  <2> QED
    BY <2>3, <2>5, <2>6
<1> QED
  BY <1>1, <1>3, <1>4, <1>5

-----------------------------------------------------------------------------
(* Handlers and the simpler invariants                                       *)

LEMMA HearingTypes ==
  ASSUME IInv, NEW e \in Ends, NEW p, Hearing(e, p)
  PROVE  TypeInv'
  BY HearingNet DEF IInv, TypeInv, LinkTypes, linkVars, Hearing, EngineStep

LEMMA HearingLink ==
  ASSUME IInv, NEW e \in Ends, NEW p, Hearing(e, p)
  PROVE  LinkInv'
<1> USE DEF IInv
<1>1. e \in link /\ link' = link /\ active' = active /\ open' = open /\ readying' = readying
  BY HearingNet DEF Hearing, EngineStep, linkVars
<1>2. ASSUME NEW d \in Ends, d \notin link'
      PROVE  net'[d] = <<>> /\ ~open'[d] /\ told'[d] = told[d]
  <2>1. d = Other(e) /\ d # e
    BY <1>1, <1>2, OtherEnd
  <2>2. net'[d] = net[d] \o <<>> /\ net[d] = <<>> /\ ~open[d]
    BY <1>1, <1>2, <2>1, HearingNet DEF Delivered, LinkInv
  <2> QED
    BY <1>1, <2>1, <2>2 DEF Hearing, EngineStep
<1>3. ~switching'["SOURCE"]
  BY OtherEnd DEF Hearing, EngineStep, LinkInv
<1> QED
  BY <1>1, <1>2, <1>3, OtherEnd DEF LinkInv

LEMMA HearingBus ==
  ASSUME IInv, NEW e \in Ends, NEW p, Hearing(e, p)
  PROVE  BusInv'
<1> USE DEF IInv
<1> SUFFICES ASSUME linkType' = "SOFT_BUS"
             PROVE  BusInv'
  BY DEF BusInv
<1>1. linkType = "SOFT_BUS" /\ paired' = paired /\ ~Tcp
  BY DEF Hearing, EngineStep, linkVars, Tcp
<1>2. net[e] # <<>> /\ Head(net[e]) = net[e][1] /\ 1 \in DOMAIN net[e]
  BY HearingNet, HeadFacts
<1>3. ~ReadsRequest(e, "ANNOUNCE") /\ ~ReadsResponse(e, "ANNOUNCE")
  BY <1>1, <1>2 DEF BusInv, ReadsRequest, ReadsResponse
<1>4. /\ paired' /\ ~switching'["SINK"]
      /\ \A d \in Ends : ~algorithmId'[d] /\ waitRsp'[d] # "ANNOUNCE"
  BY <1>1, <1>3, OtherEnd DEF BusInv, Hearing, EngineStep, Awaits
<1>5. ASSUME NEW i \in DOMAIN net'[e]
      PROVE  ~net'[e][i].sealed /\ (net'[e][i].type = "REQUEST" => net'[e][i].what # "ANNOUNCE")
  BY <1>1, HearingNet DEF BusInv
<1>6. ASSUME NEW i \in DOMAIN net'[Other(e)]
      PROVE  /\ ~net'[Other(e)][i].sealed
             /\ net'[Other(e)][i].type = "REQUEST" => net'[Other(e)][i].what # "ANNOUNCE"
  <2>1. CASE i \in DOMAIN net[Other(e)] /\ net'[Other(e)][i] = net[Other(e)][i]
    BY <1>1, <2>1, OtherEnd DEF BusInv
  <2>2. CASE Utterance(e, net'[Other(e)][i])
    BY <1>1, <1>3, <2>2 DEF Utterance
  <2> QED
    BY <2>1, <2>2, HearingNet
<1> QED
  BY <1>4, <1>5, <1>6, OtherEnd DEF BusInv

LEMMA HearingWait ==
  ASSUME IInv, NEW e \in Ends, NEW p, Hearing(e, p)
  PROVE  WaitInv'
<1> USE DEF IInv
<1>1. link' = link /\ active' = active /\ e \in link
  BY HearingNet DEF Hearing, EngineStep, linkVars
<1>2. Awaits(e, waitRsp'[e]) /\ \A d \in Ends : d # e => waitRsp'[d] = waitRsp[d]
  BY DEF Hearing, EngineStep
<1>3. CASE e = "SOURCE"
  BY <1>1, <1>2, <1>3, OtherEnd DEF WaitInv, Awaits, Negotiates, ReadsResponse, CanSend
<1>4. CASE e = "SINK"
  BY <1>1, <1>2, <1>4, OtherEnd DEF WaitInv, Awaits, Negotiates
<1> QED
  BY <1>3, <1>4 DEF Ends

\* When the trigger is sent, the sink has taken the source's mode over.
LEMMA TriggerIsTimely ==
  ASSUME IInv, ReadsResponse("SOURCE", "SET_PARAM_M4"), "SINK" \in link
  PROVE  mode["SINK"] = ownMode["SOURCE"]
<1> USE DEF IInv
<1>1. waitRsp["SOURCE"] = "SET_PARAM_M4" /\ net["SOURCE"] # <<>> /\ IsResponse(Head(net["SOURCE"]))
  BY DEF ReadsResponse, Reading, IsResponse
<1>2. link = Ends /\ active["SOURCE"]
  BY <1>1 DEF WaitInv, Negotiates, LinkTypes, TypeInv, Ends
<1>3. CASE paired /\ active["SINK"]
  BY <1>1, <1>2, <1>3
     DEF TalkInv, Conversation, Unopened, Negotiation, Negotiated, Negotiates,
         AnnouncedToSource,
         AnnounceAnswered, AnnouncedToSink, CipherAnswered, OfferedToSink, OptionsAnswered,
         OfferedToSource, OfferAnswered, ParametersAsked, ParametersAnswered, ParametersSet,
         SettingAnswered, Nothing
<1>4. CASE paired /\ ~active["SINK"]
  <2>1. 1 \in DOMAIN net["SOURCE"] /\ net["SOURCE"][1] = Head(net["SOURCE"])
    BY <1>1, HeadFacts DEF Ends
  <2> QED
    BY <1>1, <1>2, <1>4, <2>1 DEF TalkInv, Monologue
<1>5. CASE ~paired
  BY <1>1, <1>2, <1>5 DEF TalkInv, Misheard, Negotiates
<1> QED
  BY <1>3, <1>4, <1>5

LEMMA HearingMode ==
  ASSUME IInv, NEW e \in Ends, NEW p, Hearing(e, p)
  PROVE  ModeInv'
<1> USE DEF IInv
<1>1. ownMode' = ownMode /\ link' = link
  BY DEF Hearing, EngineStep, linkVars
<1>2. Head(net[e]) = net[e][1] /\ 1 \in DOMAIN net[e]
  BY HearingNet, HeadFacts
<1>3. mode'["SOURCE"] = ownMode["SOURCE"] /\ param'["SOURCE"] = ownMode["SOURCE"]
  BY OtherEnd DEF Hearing, EngineStep, ModeInv
<1>4. mode'["SINK"] = mode["SINK"] \/ mode'["SINK"] = ownMode["SOURCE"]
  BY <1>2, OtherEnd DEF Hearing, EngineStep, ModeInv
<1>5. ASSUME "ProcessStreamMode" \in told'["SINK"]
      PROVE  ownMode["SOURCE"] = "STREAM"
  <2>1. CASE "ProcessStreamMode" \in told["SINK"]
    BY <2>1 DEF ModeInv, ModesAgree
  <2>2. CASE e = "SINK" /\ ReadsRequest(e, "TRIGGER_SETUP") /\ mode[e] = "STREAM"
    BY <1>2, <2>2 DEF ReadsRequest, ModeInv
  <2> QED
    BY <1>5, <2>1, <2>2, OtherEnd DEF Hearing, EngineStep
<1>6. ASSUME NEW i \in DOMAIN net'["SINK"]
      PROVE  /\ net'["SINK"][i].mode = ownMode["SOURCE"]
             /\ (net'["SINK"][i].type = "REQUEST" /\ net'["SINK"][i].what = "TRIGGER_SETUP")
                  => mode'["SINK"] = ownMode["SOURCE"]
  <2>1. CASE \E j \in DOMAIN net["SINK"] : net'["SINK"][i] = net["SINK"][j]
    BY <1>4, <2>1 DEF ModeInv
  <2>2. CASE e = "SOURCE" /\ "SINK" \in link /\ Utterance(e, net'["SINK"][i])
    <3>1. net'["SINK"][i].mode = ownMode["SOURCE"]
      BY <2>2 DEF Utterance, ModeInv
    <3>2. ASSUME net'["SINK"][i].type = "REQUEST", net'["SINK"][i].what = "TRIGGER_SETUP"
          PROVE  mode["SINK"] = ownMode["SOURCE"]
      <4>1. ReadsResponse("SOURCE", "SET_PARAM_M4")
        BY <2>2, <3>2 DEF Utterance
      <4> QED
        BY <2>2, <4>1, TriggerIsTimely
    <3> QED
      BY <1>4, <3>1, <3>2
  <2>3. CASE e = "SOURCE"
    BY <2>1, <2>2, <2>3, HearingNet, OtherEnd
  <2>4. CASE e = "SINK"
    BY <2>1, <2>4, HearingNet
  <2> QED
    BY <2>3, <2>4 DEF Ends
<1> QED
  BY <1>1, <1>3, <1>5, <1>6 DEF ModeInv, ModesAgree

-----------------------------------------------------------------------------
(* What a session sends                                                      *)

Speaking(e, m) ==
  /\ Send(e, <<m>>)
  /\ m \in MessageTo(Other(e)) /\ m.type = "REQUEST" /\ m.mode = mode[e]
  /\ m.what \notin {"ANNOUNCE", "OPTIONS", "GET_PARAM", "SET_PARAM", "TRIGGER_SETUP"}
  /\ m.sealed = (Tcp /\ Sealing(e))
  /\ UNCHANGED <<open, algorithmId, switching, readying, mode, param, linkVars>>
  /\ EngineTypes'
  /\ \A d \in Ends : d # e =>
       active'[d] = active[d] /\ waitRsp'[d] = waitRsp[d] /\ told'[d] = told[d]
  /\ \/ waitRsp'[e] \in {waitRsp[e], "NONE"}
     \/ e = "SOURCE" /\ waitRsp'[e] = "SET_PARAM_M5"
     \/ e = "SINK" /\ waitRsp'[e] \in {"PLAY_M7", "PAUSE_M9", "TEARDOWN_M8"}
  /\ \/ IsConnected(e) /\ active'[e] = active[e] /\ told'[e] = told[e]
     \/ /\ active[e] /\ ~active'[e] /\ told'[e] = told[e] \cup {"OnError"}
        /\ waitRsp'[e] \notin Negotiates

LEMMA Requested ==
  ASSUME TypeInv, NEW e \in Ends, NEW what \in Requests(e),
         what \notin {"ANNOUNCE", "OPTIONS", "GET_PARAM", "SET_PARAM", "TRIGGER_SETUP"}
  PROVE  /\ Request(e, what) \in MessageTo(Other(e)) /\ Request(e, what).type = "REQUEST"
         /\ Request(e, what).mode = mode[e]
         /\ Request(e, what).what
              \notin {"ANNOUNCE", "OPTIONS", "GET_PARAM", "SET_PARAM", "TRIGGER_SETUP"}
         /\ Request(e, what).sealed = (Tcp /\ Sealing(e))
  BY PacketTypes DEF Tcp

LEMMA ActionRequestFacts ==
  ASSUME NEW action \in ActionRequests
  PROVE  /\ action.what \in Requests(action.end)
         /\ action.what \notin {"ANNOUNCE", "OPTIONS", "GET_PARAM", "SET_PARAM", "TRIGGER_SETUP"}
         /\ action.response \in WaitResponse
         /\ action.end \in Ends
         /\ action.end = "SOURCE" => action.response = "SET_PARAM_M5"
         /\ action.end = "SINK" => action.response \in {"PLAY_M7", "PAUSE_M9", "TEARDOWN_M8"}
  BY RequestsAre DEF ActionRequests, FromSource, FromSink, WaitResponse, Ends

LEMMA EventSpoken ==
  ASSUME TypeInv, NEW e \in Ends, SendEventChange(e)
  PROVE  \E m : Speaking(e, m)
<1>1. "EVENT" \in Requests(e)
  BY RequestsAre DEF Ends, FromSource, FromSink, FromBoth
<1> DEFINE m == Request(e, "EVENT")
<1>2. /\ m \in MessageTo(Other(e)) /\ m.type = "REQUEST" /\ m.mode = mode[e]
      /\ m.what \notin {"ANNOUNCE", "OPTIONS", "GET_PARAM", "SET_PARAM", "TRIGGER_SETUP"}
      /\ m.sealed = (Tcp /\ Sealing(e))
  BY <1>1, Requested
<1>3. Send(e, <<m>>) /\ UNCHANGED <<engineVars, linkVars>> /\ IsConnected(e)
  BY DEF SendEventChange, MaySend
<1> HIDE DEF m
<1> QED
  BY <1>2, <1>3 DEF Speaking, engineVars, TypeInv, EngineTypes

LEMMA RenderReadySpoken ==
  ASSUME TypeInv, SendCastRenderReadyOption
  PROVE  \E m : Speaking("SINK", m)
<1>1. "RENDER_READY" \in Requests("SINK") /\ "SINK" \in Ends
  BY RequestsAre DEF Ends, FromSink
<1> DEFINE m == Request("SINK", "RENDER_READY")
<1>2. /\ m \in MessageTo(Other("SINK")) /\ m.type = "REQUEST" /\ m.mode = mode["SINK"]
      /\ m.what \notin {"ANNOUNCE", "OPTIONS", "GET_PARAM", "SET_PARAM", "TRIGGER_SETUP"}
      /\ m.sealed = (Tcp /\ Sealing("SINK"))
  BY <1>1, Requested
<1>3. /\ Send("SINK", <<m>>) /\ IsConnected("SINK") /\ Await("SINK", "NONE")
      /\ UNCHANGED <<active, open, algorithmId, switching, readying, mode, param, told, linkVars>>
  BY DEF SendCastRenderReadyOption, MaySend
<1> HIDE DEF m
<1> QED
  BY <1>1, <1>2, <1>3 DEF Speaking, TypeInv, EngineTypes, Await, WaitResponse

LEMMA ActionSpoken ==
  ASSUME TypeInv, NEW e \in Ends, Action(e)
  PROVE  \E m : Speaking(e, m)
<1>1. PICK action \in ActionRequests :
        /\ action.end = e /\ MaySend(e)
        /\ Await(e, action.response) /\ Send(e, <<Request(e, action.what)>>)
        /\ UNCHANGED <<active, open, algorithmId, switching, readying, mode, param, told, linkVars>>
  BY DEF Action
<1> DEFINE m == Request(e, action.what)
<1>2. /\ m \in MessageTo(Other(e)) /\ m.type = "REQUEST" /\ m.mode = mode[e]
      /\ m.what \notin {"ANNOUNCE", "OPTIONS", "GET_PARAM", "SET_PARAM", "TRIGGER_SETUP"}
      /\ m.sealed = (Tcp /\ Sealing(e))
  BY <1>1, ActionRequestFacts, Requested
<1>3. /\ action.response \in WaitResponse
      /\ e = "SOURCE" => action.response = "SET_PARAM_M5"
      /\ e = "SINK" => action.response \in {"PLAY_M7", "PAUSE_M9", "TEARDOWN_M8"}
      /\ IsConnected(e) /\ Send(e, <<m>>)
  BY <1>1, ActionRequestFacts DEF MaySend
<1> HIDE DEF m
<1>4. EngineTypes' /\ waitRsp'[e] = action.response
  BY <1>1, <1>3 DEF TypeInv, EngineTypes, Await
<1>5. \/ e = "SOURCE" /\ waitRsp'[e] = "SET_PARAM_M5"
      \/ e = "SINK" /\ waitRsp'[e] \in {"PLAY_M7", "PAUSE_M9", "TEARDOWN_M8"}
  BY <1>3, <1>4 DEF Ends
<1>6. \A d \in Ends : d # e =>
        active'[d] = active[d] /\ waitRsp'[d] = waitRsp[d] /\ told'[d] = told[d]
  BY <1>1 DEF Await, TypeInv, EngineTypes
<1> QED
  BY <1>1, <1>2, <1>3, <1>4, <1>5, <1>6 DEF Speaking

LEMMA TearDownSpoken ==
  ASSUME TypeInv, NEW e \in Ends, ActionTearDown(e)
  PROVE  \E m : Speaking(e, m)
<1>1. PICK action \in ActionRequests :
        /\ action.end = e /\ active[e]
        /\ Await(e, action.response) /\ Send(e, <<Request(e, action.what)>>)
        /\ active' = [active EXCEPT ![e] = FALSE] /\ Tell(e, {"OnError"})
        /\ UNCHANGED <<open, algorithmId, switching, readying, mode, param, linkVars>>
  BY DEF ActionTearDown
<1> DEFINE m == Request(e, action.what)
<1>2. /\ m \in MessageTo(Other(e)) /\ m.type = "REQUEST" /\ m.mode = mode[e]
      /\ m.what \notin {"ANNOUNCE", "OPTIONS", "GET_PARAM", "SET_PARAM", "TRIGGER_SETUP"}
      /\ m.sealed = (Tcp /\ Sealing(e))
  BY <1>1, ActionRequestFacts, Requested
<1>3. /\ action.response \in WaitResponse
      /\ e = "SOURCE" => action.response = "SET_PARAM_M5"
      /\ e = "SINK" => action.response \in {"PLAY_M7", "PAUSE_M9", "TEARDOWN_M8"}
      /\ Send(e, <<m>>)
  BY <1>1, ActionRequestFacts
<1> HIDE DEF m
<1>4. EngineTypes' /\ waitRsp'[e] = action.response
  BY <1>1, <1>3 DEF TypeInv, EngineTypes, Await, Tell, Callbacks
<1>5. \/ e = "SOURCE" /\ waitRsp'[e] = "SET_PARAM_M5"
      \/ e = "SINK" /\ waitRsp'[e] \in {"PLAY_M7", "PAUSE_M9", "TEARDOWN_M8"}
  BY <1>3, <1>4 DEF Ends
<1>6. /\ \A d \in Ends : d # e =>
           active'[d] = active[d] /\ waitRsp'[d] = waitRsp[d] /\ told'[d] = told[d]
      /\ ~active'[e] /\ told'[e] = told[e] \cup {"OnError"}
  BY <1>1 DEF Await, Tell, TypeInv, EngineTypes
<1>7. waitRsp'[e] \notin Negotiates
  BY <1>5 DEF Negotiates
<1> QED
  BY <1>1, <1>2, <1>3, <1>4, <1>5, <1>6, <1>7 DEF Speaking

LEMMA SpeakingNet ==
  ASSUME IInv, NEW e \in Ends, NEW m, Speaking(e, m)
  PROVE  /\ NetTypes' /\ net'[e] = net[e]
         /\ net'[Other(e)] = net[Other(e)] \o Delivered(e, <<m>>)
         /\ \A i \in DOMAIN net'[Other(e)] :
              \/ i \in DOMAIN net[Other(e)] /\ net'[Other(e)][i] = net[Other(e)][i]
              \/ /\ CanSend(e) /\ Other(e) \in link
                 /\ i \notin DOMAIN net[Other(e)] /\ net'[Other(e)][i] = m
<1> USE DEF IInv
<1>1. m \in MessageTo(Other(e)) /\ Send(e, <<m>>)
  BY DEF Speaking
<1>2. <<m>> \in Seq(MessageTo(Other(e))) /\ \A k \in DOMAIN <<m>> : <<m>>[k] = m
  BY <1>1
<1>3. /\ NetTypes' /\ net'[e] = net[e]
      /\ net'[Other(e)] = net[Other(e)] \o Delivered(e, <<m>>)
  BY <1>1, <1>2, SendNet
<1>4. ASSUME NEW i \in DOMAIN net'[Other(e)]
      PROVE  \/ i \in DOMAIN net[Other(e)] /\ net'[Other(e)][i] = net[Other(e)][i]
             \/ /\ CanSend(e) /\ Other(e) \in link
                /\ i \notin DOMAIN net[Other(e)] /\ net'[Other(e)][i] = m
  <2> DEFINE old == net[Other(e)]
             new == Delivered(e, <<m>>)
  <2>1. old \in Seq(MessageTo(Other(e))) /\ new \in Seq(MessageTo(Other(e)))
    BY <1>2, DeliveredTypes, OtherEnd DEF TypeInv, NetTypes
  <2>2. \A k \in DOMAIN new : CanSend(e) /\ Other(e) \in link /\ new[k] = m
    BY <1>2 DEF Delivered
  <2> HIDE DEF new, old
  <2>3. \/ i \in DOMAIN old /\ (old \o new)[i] = old[i]
        \/ i \notin DOMAIN old /\ i - Len(old) \in DOMAIN new /\ (old \o new)[i] = new[i - Len(old)]
    <3>1. i \in DOMAIN (old \o new)
      BY <1>3 DEF old, new
    <3> QED
      BY <2>1, <3>1, Joined
  <2>4. net'[Other(e)] = old \o new
    BY <1>3 DEF old, new
  <2>5. CASE i \in DOMAIN old /\ (old \o new)[i] = old[i]
    BY <2>4, <2>5 DEF old
  <2>6. CASE /\ i \notin DOMAIN old /\ i - Len(old) \in DOMAIN new
             /\ (old \o new)[i] = new[i - Len(old)]
    BY <2>2, <2>4, <2>6 DEF old
  <2> QED
    BY <2>3, <2>5, <2>6
<1> QED
  BY <1>3, <1>4

LEMMA SpokenMessages ==
  ASSUME IInv, NEW e \in Ends, NEW m, Speaking(e, m), NEW d \in Ends, NEW i \in DOMAIN net'[d]
  PROVE  \/ i \in DOMAIN net[d] /\ net'[d][i] = net[d][i]
         \/ d = Other(e) /\ net'[d][i] = m
<1>1. CASE d = e
  <2>1. net'[e] = net[e]
    BY SpeakingNet
  <2> QED
    BY <1>1, <2>1
<1>2. CASE d = Other(e)
  <2>1. \A j \in DOMAIN net'[Other(e)] :
          \/ j \in DOMAIN net[Other(e)] /\ net'[Other(e)][j] = net[Other(e)][j]
          \/ /\ CanSend(e) /\ Other(e) \in link
             /\ j \notin DOMAIN net[Other(e)] /\ net'[Other(e)][j] = m
    BY SpeakingNet
  <2> QED
    BY <1>2, <2>1
<1> QED
  BY <1>1, <1>2, OtherEnd

LEMMA SpeakingKeeps ==
  ASSUME IInv, NEW e \in Ends, NEW m, Speaking(e, m)
  PROVE  TypeInv' /\ LinkInv' /\ BusInv' /\ WaitInv' /\ ModeInv'
<1> USE DEF IInv
<1>1. /\ UNCHANGED <<open, algorithmId, switching, readying, mode, param>>
      /\ link' = link /\ paired' = paired /\ linkType' = linkType /\ ownMode' = ownMode
      /\ connections' = connections
      /\ \A d \in Ends : d # e =>
           active'[d] = active[d] /\ waitRsp'[d] = waitRsp[d] /\ told'[d] = told[d]
      /\ \A d \in Ends : active'[d] => active[d]
      /\ \A d \in Ends : told'[d] \subseteq told[d] \cup {"OnError"}
  BY DEF Speaking, linkVars
<1>2. TypeInv'
  BY SpeakingNet DEF TypeInv, LinkTypes, linkVars, Speaking
<1>3. LinkInv'
  <2>1. ASSUME NEW d \in Ends, d \notin link
        PROVE  net'[d] = <<>>
    <3>1. CASE d = e
      BY <2>1, <3>1, SpeakingNet DEF LinkInv
    <3>2. CASE d = Other(e)
      <4>1. net'[d] = net[d] \o <<>> /\ net[d] = <<>>
        BY <2>1, <3>2, SpeakingNet DEF LinkInv, Delivered
      <4> QED
        BY <4>1
    <3> QED
      BY <3>1, <3>2, OtherEnd
  <2> QED
    BY <1>1, <2>1 DEF LinkInv
<1>4. BusInv'
  <2> SUFFICES ASSUME linkType = "SOFT_BUS"
               PROVE  BusInv'
    BY <1>1 DEF BusInv
  <2>1. ASSUME NEW d \in Ends, NEW i \in DOMAIN net'[d]
        PROVE  /\ ~net'[d][i].sealed
               /\ net'[d][i].type = "REQUEST" => net'[d][i].what # "ANNOUNCE"
    <3>1. ~m.sealed /\ m.what # "ANNOUNCE"
      BY DEF Speaking, Tcp
    <3>2. CASE i \in DOMAIN net[d] /\ net'[d][i] = net[d][i]
      BY <3>2 DEF BusInv
    <3>3. CASE net'[d][i] = m
      BY <3>1, <3>3
    <3> QED
      BY <3>2, <3>3, SpokenMessages
  <2>2. \A d \in Ends : waitRsp'[d] # "ANNOUNCE"
    BY DEF Speaking, BusInv
  <2> QED
    BY <1>1, <2>1, <2>2 DEF BusInv
<1>5. WaitInv'
  <2>1. waitRsp'[e] \in {waitRsp[e], "NONE"} \/ waitRsp'[e] \notin Negotiates
    BY DEF Speaking, Negotiates
  <2>2. CASE e = "SOURCE"
    BY <1>1, <2>2, OtherEnd DEF WaitInv, Speaking, Negotiates
  <2>3. CASE e = "SINK"
    BY <1>1, <2>3, OtherEnd DEF WaitInv, Speaking, Negotiates
  <2> QED
    BY <2>2, <2>3 DEF Ends
<1>6. ModeInv'
  <2>1. ASSUME NEW i \in DOMAIN net'["SINK"]
        PROVE  /\ net'["SINK"][i].mode = ownMode["SOURCE"]
               /\ (net'["SINK"][i].type = "REQUEST" /\ net'["SINK"][i].what = "TRIGGER_SETUP")
                    => mode["SINK"] = ownMode["SOURCE"]
    <3>1. CASE i \in DOMAIN net["SINK"] /\ net'["SINK"][i] = net["SINK"][i]
      BY <3>1 DEF ModeInv
    <3>2. CASE "SINK" = Other(e) /\ net'["SINK"][i] = m
      <4>1. e = "SOURCE"
        BY <3>2 DEF Other, Ends
      <4> QED
        BY <3>2, <4>1 DEF Speaking, ModeInv
    <3> QED
      BY <3>1, <3>2, SpokenMessages DEF Ends
  <2>2. ModesAgree'
    BY <1>1 DEF ModeInv, ModesAgree, Ends
  <2> QED
    BY <1>1, <2>1, <2>2 DEF ModeInv
<1> QED
  BY <1>2, <1>3, <1>4, <1>5, <1>6

-----------------------------------------------------------------------------
(* The session's other steps, and the channel's                              *)

LEMMA StartKeeps ==
  ASSUME IInv, NEW e \in Ends, Start(e)
  PROVE  TypeInv' /\ LinkInv' /\ BusInv' /\ WaitInv' /\ ModeInv'
<1> USE DEF IInv, Start, linkVars
<1>1. TypeInv'
  BY DEF TypeInv, EngineTypes, NetTypes, LinkTypes
<1>2. LinkInv'
  BY DEF LinkInv, TypeInv, EngineTypes
<1>3. BusInv' /\ WaitInv'
  BY DEF BusInv, WaitInv, TypeInv, EngineTypes
<1>4. ModeInv'
  BY DEF ModeInv, ModesAgree, LinkInv, TypeInv, EngineTypes, Ends
<1> QED
  BY <1>1, <1>2, <1>3, <1>4

LEMMA NewSessionKeeps ==
  ASSUME IInv, NEW e \in Ends, NewSession(e)
  PROVE  TypeInv' /\ LinkInv' /\ BusInv' /\ WaitInv' /\ ModeInv'
<1> USE DEF IInv, NewSession, linkVars
<1>1. TypeInv'
  BY DEF TypeInv, EngineTypes, NetTypes, LinkTypes, WaitResponse
<1>2. LinkInv'
  BY DEF LinkInv, TypeInv, EngineTypes
<1>3. BusInv'
  BY DEF BusInv, TypeInv, EngineTypes
<1>4. WaitInv'
  BY DEF WaitInv, TypeInv, EngineTypes, Ends, Negotiates
<1>5. ModeInv'
  BY DEF ModeInv, ModesAgree, LinkInv, TypeInv, EngineTypes, Ends
<1> QED
  BY <1>1, <1>2, <1>3, <1>4, <1>5

LEMMA ConnectKeeps ==
  ASSUME IInv, Connect
  PROVE  TypeInv' /\ LinkInv' /\ BusInv' /\ WaitInv' /\ ModeInv'
<1> USE DEF IInv, Connect, engineVars
<1>1. TypeInv'
  BY RtspBoundsAssumption DEF TypeInv, EngineTypes, NetTypes, LinkTypes
<1>2. LinkInv'
  BY DEF LinkInv
<1>3. BusInv'
  BY DEF BusInv, TypeInv, EngineTypes, Ends
<1>4. WaitInv' /\ ModeInv'
  BY DEF WaitInv, ModeInv, ModesAgree, Ends
<1> QED
  BY <1>1, <1>2, <1>3, <1>4

\* The first request of the sink.
OpeningRequest == Request("SINK", Opening.what)

LEMMA OpeningFacts ==
  ASSUME IInv
  PROVE  /\ OpeningRequest \in MessageTo("SOURCE") /\ OpeningRequest.type = "REQUEST"
         /\ OpeningRequest.what = IF linkType = "SOFT_BUS" THEN "OPTIONS" ELSE "ANNOUNCE"
         /\ OpeningRequest.sealed = (Tcp /\ Sealing("SINK"))
<1>1. Opening.what \in Requests("SINK") /\ "SINK" \in Ends /\ Other("SINK") = "SOURCE"
  BY RequestsAre DEF Opening, FromSink, FromBoth, Ends, Other
<1>2. Opening.what = IF linkType = "SOFT_BUS" THEN "OPTIONS" ELSE "ANNOUNCE"
  BY DEF Opening
<1> QED
  BY <1>1, <1>2, PacketTypes DEF OpeningRequest, Tcp, IInv

LEMMA AddChannelNet ==
  ASSUME IInv, NEW e \in Ends, AddChannel(e)
  PROVE  /\ NetTypes' /\ net'["SINK"] = net["SINK"]
         /\ net'["SOURCE"] = IF e = "SINK" /\ active[e] /\ "SOURCE" \in link
                             THEN Append(net["SOURCE"], OpeningRequest) ELSE net["SOURCE"]
         /\ \A i \in DOMAIN net'["SOURCE"] :
              \/ i \in DOMAIN net["SOURCE"] /\ net'["SOURCE"][i] = net["SOURCE"][i]
              \/ /\ e = "SINK" /\ active[e]
                 /\ i = Len(net["SOURCE"]) + 1 /\ net'["SOURCE"][i] = OpeningRequest
<1>1. "SINK" \in Ends /\ "SOURCE" \in Ends /\ Ends = {"SOURCE", "SINK"}
  BY DEF Ends
<1>2. /\ net' = [d \in Ends |-> net'[d]] /\ net'["SINK"] = net["SINK"]
      /\ net'["SOURCE"] = IF e = "SINK" /\ active[e] /\ "SOURCE" \in link
                          THEN Append(net["SOURCE"], OpeningRequest) ELSE net["SOURCE"]
  BY <1>1 DEF AddChannel, OpeningRequest, IInv, TypeInv, NetTypes
<1>3. OpeningRequest \in MessageTo("SOURCE") /\ net["SOURCE"] \in Seq(MessageTo("SOURCE"))
      /\ net["SINK"] \in Seq(MessageTo("SINK"))
  BY <1>1, OpeningFacts DEF IInv, TypeInv, NetTypes
<1>4. /\ Append(net["SOURCE"], OpeningRequest) \in Seq(MessageTo("SOURCE"))
      /\ \A i \in DOMAIN Append(net["SOURCE"], OpeningRequest) :
           \/ /\ i \in DOMAIN net["SOURCE"]
              /\ Append(net["SOURCE"], OpeningRequest)[i] = net["SOURCE"][i]
           \/ /\ i = Len(net["SOURCE"]) + 1
              /\ Append(net["SOURCE"], OpeningRequest)[i] = OpeningRequest
  BY <1>3
<1>5. net'["SOURCE"] \in Seq(MessageTo("SOURCE")) /\ net'["SINK"] \in Seq(MessageTo("SINK"))
  BY <1>2, <1>3, <1>4
<1>6. NetTypes'
  BY <1>1, <1>2, <1>5 DEF NetTypes
<1> QED
  BY <1>2, <1>4, <1>6

LEMMA AddChannelKeeps ==
  ASSUME IInv, NEW e \in Ends, AddChannel(e)
  PROVE  TypeInv' /\ LinkInv' /\ BusInv' /\ WaitInv' /\ ModeInv'
<1> USE DEF IInv, linkVars
<1>1. /\ UNCHANGED <<active, algorithmId, switching, waitRsp, mode, param, linkVars>>
      /\ e \in link /\ open' = [open EXCEPT ![e] = TRUE]
      /\ \/ e = "SOURCE" /\ readying' = readying /\ told' = told
         \/ /\ e = "SINK" /\ readying' = [readying EXCEPT ![e] = TRUE]
            /\ Tell(e, IF active[e] THEN {} ELSE {"OnError"})
  BY DEF AddChannel
<1>2. \A d \in Ends : told'[d] \subseteq told[d] \cup {"OnError"}
      /\ (d # e => told'[d] = told[d])
  BY <1>1 DEF Tell, TypeInv, EngineTypes
<1>3. EngineTypes'
  <2>1. told' \in [Ends -> SUBSET Callbacks]
    BY <1>1 DEF TypeInv, EngineTypes, Tell, Callbacks
  <2>2. open' \in [Ends -> BOOLEAN] /\ readying' \in [Ends -> BOOLEAN]
    BY <1>1 DEF TypeInv, EngineTypes
  <2> QED
    BY <1>1, <2>1, <2>2 DEF TypeInv, EngineTypes
<1>4. TypeInv'
  BY <1>1, <1>3, AddChannelNet DEF TypeInv, LinkTypes
<1>5. LinkInv'
  <2>1. ASSUME NEW d \in Ends, d \notin link
        PROVE  net'[d] = <<>> /\ ~open'[d]
    BY <1>1, <2>1, AddChannelNet DEF LinkInv, TypeInv, EngineTypes, Ends
  <2>2. (readying'["SINK"] => open'["SINK"]) /\ ~readying'["SOURCE"]
    BY <1>1 DEF LinkInv, TypeInv, EngineTypes, Ends
  <2> QED
    BY <1>1, <1>2, <2>1, <2>2 DEF LinkInv
<1>6. BusInv'
  <2> SUFFICES ASSUME linkType = "SOFT_BUS"
               PROVE  BusInv'
    BY <1>1 DEF BusInv
  <2>1. ~OpeningRequest.sealed /\ OpeningRequest.what # "ANNOUNCE"
    BY OpeningFacts DEF Tcp
  <2>2. ASSUME NEW i \in DOMAIN net'["SOURCE"]
        PROVE  /\ ~net'["SOURCE"][i].sealed
               /\ net'["SOURCE"][i].type = "REQUEST" => net'["SOURCE"][i].what # "ANNOUNCE"
    <3>1. CASE i \in DOMAIN net["SOURCE"] /\ net'["SOURCE"][i] = net["SOURCE"][i]
      BY <3>1 DEF BusInv, Ends
    <3> QED
      BY <2>1, <3>1, AddChannelNet
  <2>3. net'["SINK"] = net["SINK"]
    BY AddChannelNet
  <2> QED
    BY <1>1, <2>2, <2>3 DEF BusInv, Ends
<1>7. WaitInv' /\ ModeInv'
  <2>1. net'["SINK"] = net["SINK"]
    BY AddChannelNet
  <2> QED
    BY <1>1, <1>2, <2>1 DEF WaitInv, ModeInv, ModesAgree, Ends
<1> QED
  BY <1>4, <1>5, <1>6, <1>7

LEMMA PeerReadyKeeps ==
  ASSUME IInv, PeerReady
  PROVE  TypeInv' /\ LinkInv' /\ BusInv' /\ WaitInv' /\ ModeInv'
<1> USE DEF IInv, PeerReady, linkVars
<1>1. /\ Opening.response = IF linkType = "SOFT_BUS" THEN "OPT_M2" ELSE "ANNOUNCE"
      /\ waitRsp' = [waitRsp EXCEPT !["SINK"] = Opening.response]
      /\ "SINK" \in Ends /\ "SOURCE" \in Ends
  BY DEF Opening, Await, Ends
<1> HIDE DEF Opening
<1>2. TypeInv'
  BY <1>1 DEF TypeInv, EngineTypes, NetTypes, LinkTypes, WaitResponse
<1>3. LinkInv'
  BY DEF LinkInv, TypeInv, EngineTypes, Ends
<1>4. BusInv'
  BY <1>1 DEF BusInv, TypeInv, EngineTypes
<1>5. WaitInv' /\ ModeInv'
  BY <1>1 DEF WaitInv, ModeInv, ModesAgree, TypeInv, EngineTypes
<1> QED
  BY <1>2, <1>3, <1>4, <1>5

LEMMA SinkSwitchesKeeps ==
  ASSUME IInv, SinkSwitches
  PROVE  TypeInv' /\ LinkInv' /\ BusInv' /\ WaitInv' /\ ModeInv'
<1> USE DEF IInv, SinkSwitches, linkVars
<1>1. TypeInv'
  BY DEF TypeInv, EngineTypes, NetTypes, LinkTypes
<1>2. LinkInv'
  BY DEF LinkInv, TypeInv, EngineTypes, Ends
<1>3. BusInv'
  BY DEF BusInv
<1>4. WaitInv' /\ ModeInv'
  BY DEF WaitInv, ModeInv, ModesAgree
<1> QED
  BY <1>1, <1>2, <1>3, <1>4

LEMMA DestroyKeeps ==
  ASSUME IInv, NEW e \in Ends, DestroyAllChannels(e)
  PROVE  TypeInv' /\ LinkInv' /\ BusInv' /\ WaitInv' /\ ModeInv'
<1> USE DEF IInv
<1>1. PICK left \in {net[Other(e)], <<>>} : net' = [net EXCEPT ![e] = <<>>, ![Other(e)] = left]
  BY DEF DestroyAllChannels
<1>2. /\ NetTypes' /\ net'[e] = <<>> /\ net'[Other(e)] \in {net[Other(e)], <<>>}
  <2>1. /\ net' = [d \in Ends |-> net'[d]]
        /\ net'[e] = <<>> /\ net'[Other(e)] \in {net[Other(e)], <<>>}
    BY <1>1, OtherEnd DEF TypeInv, NetTypes
  <2>2. net'[e] \in Seq(MessageTo(e)) /\ net'[Other(e)] \in Seq(MessageTo(Other(e)))
    <3>1. net[Other(e)] \in Seq(MessageTo(Other(e)))
      BY OtherEnd DEF TypeInv, NetTypes
    <3>2. <<>> \in Seq(MessageTo(e)) /\ <<>> \in Seq(MessageTo(Other(e)))
      OBVIOUS
    <3> QED
      BY <2>1, <3>1, <3>2
  <2> QED
    BY <2>1, <2>2, OtherEnd DEF NetTypes
<1>3. /\ UNCHANGED <<active, algorithmId, switching, readying, waitRsp, mode, param, told,
                     paired, connections, linkType, ownMode>>
      /\ ~active[e] /\ e \in link /\ ~readying[e] /\ link' = link \ {e}
      /\ open' = [open EXCEPT ![e] = FALSE]
  BY DEF DestroyAllChannels
<1>4. TypeInv'
  BY <1>2, <1>3 DEF TypeInv, EngineTypes, LinkTypes
<1>5. LinkInv'
  BY <1>2, <1>3, OtherEnd DEF LinkInv, TypeInv, EngineTypes
<1>6. BusInv'
  BY <1>2, <1>3, OtherEnd DEF BusInv
<1>7. WaitInv' /\ ModeInv'
  BY <1>2, <1>3, OtherEnd DEF WaitInv, ModeInv, ModesAgree
<1> QED
  BY <1>4, <1>5, <1>6, <1>7

-----------------------------------------------------------------------------
(* Which handler reads a message                                             *)

LEMMA RequestHandled ==
  ASSUME NEW e \in Ends, NEW what, ReadsRequest(e, what), Handler(e)
  PROVE  /\ what = "OPTIONS" => ProcessOptionRequest(e)
         /\ what = "GET_PARAM" => ProcessGetParameterRequestM3(e)
         /\ what = "SET_PARAM" => ProcessSetParamRequestM4(e)
         /\ what = "ANNOUNCE" => Announces(e)
<1>1. Readable(e, Head(net[e])) /\ Head(net[e]).type = "REQUEST" /\ Head(net[e]).what = what
  BY DEF ReadsRequest
<1>2. ~OnResponse(e)
  BY <1>1
  DEF OnResponse, ProcessCommonResponse, ProcessGetParamM3Response,
      ProcessSetParamM4Response, ProcessSetParamM5Response, ProcessSetupM6Response,
      ProcessPlayM7Response, ProcessPauseM9Response, DealAnnounceRequest,
      UnexpectedResponse, ReadsResponse
<1>3. CASE OnRequest(e)
  BY <1>1, <1>3
  DEF OnRequest, ProcessOptionRequest, ProcessGetParameterRequestM3,
      ProcessSetParamRequestM4, TriggerSetup, ProcessTriggerMethod, ProcessPlayRequest,
      ProcessSetupRequest, ProcessTearDownRequest, ProcessRenderReadyRequest, Garbled,
      ReadsRequest, TriggerCallback
<1>4. CASE Announces(e)
  BY <1>1, <1>4 DEF Announces, AnnounceToSource, AnnounceToSink, ReadsRequest
<1> QED
  BY <1>2, <1>3, <1>4 DEF Handler

LEMMA ResponseHandled ==
  ASSUME NEW e \in Ends, NEW response, ReadsResponse(e, response), Handler(e)
  PROVE  /\ OnResponse(e)
         /\ response \in {"OPT_M1", "OPT_M2"} => ProcessCommonResponse(e)
         /\ response = "GET_PARAM_M3" => ProcessGetParamM3Response(e)
         /\ response = "SET_PARAM_M4" => ProcessSetParamM4Response(e)
         /\ response = "ANNOUNCE" => DealAnnounceRequest(e)
<1>1. Readable(e, Head(net[e])) /\ Head(net[e]).type = "RESPONSE" /\ waitRsp[e] = response
  BY DEF ReadsResponse
<1>2. ~OnRequest(e) /\ ~Announces(e)
  BY <1>1
  DEF OnRequest, ProcessOptionRequest, ProcessGetParameterRequestM3,
      ProcessSetParamRequestM4, TriggerSetup, ProcessTriggerMethod, ProcessPlayRequest,
      ProcessSetupRequest, ProcessTearDownRequest, ProcessRenderReadyRequest, Garbled,
      Announces, AnnounceToSource, AnnounceToSink, ReadsRequest
<1>3. OnResponse(e)
  BY <1>2 DEF Handler
<1> QED
  BY <1>1, <1>3
  DEF OnResponse, ProcessCommonResponse, ProcessGetParamM3Response,
      ProcessSetParamM4Response, ProcessSetParamM5Response, ProcessSetupM6Response,
      ProcessPlayM7Response, ProcessPauseM9Response, DealAnnounceRequest,
      UnexpectedResponse, ReadsResponse

LEMMA GarbledHandled ==
  ASSUME NEW e \in Ends, Handler(e), ~Readable(e, Head(net[e]))
  PROVE  Garbled(e)
<1>1. ~OnResponse(e)
  BY DEF OnResponse, ProcessCommonResponse, ProcessGetParamM3Response,
      ProcessSetParamM4Response, ProcessSetParamM5Response, ProcessSetupM6Response,
      ProcessPlayM7Response, ProcessPauseM9Response, DealAnnounceRequest,
      UnexpectedResponse, ReadsResponse
<1>2. ~Announces(e)
  BY DEF Announces, AnnounceToSource, AnnounceToSink, ReadsRequest
<1> QED
  BY <1>1, <1>2
  DEF Handler, OnRequest, ProcessOptionRequest, ProcessGetParameterRequestM3,
      ProcessSetParamRequestM4, TriggerSetup, ProcessTriggerMethod, ProcessPlayRequest,
      ProcessSetupRequest, ProcessTearDownRequest, ProcessRenderReadyRequest, Garbled,
      ReadsRequest

\* The sink sends nothing when it reads a response.
LEMMA SinkHandlesResponse ==
  ASSUME WaitInv, Handler("SINK"), OnResponse("SINK")
  PROVE  /\ Handle("SINK", <<>>)
         /\ algorithmId' = algorithmId /\ switching' = switching /\ mode' = mode
         /\ waitRsp' \in {waitRsp, [waitRsp EXCEPT !["SINK"] = "NONE"]}
         /\ told' = told \/ \E callbacks \in SUBSET {"OnError", "OnSetup", "OnTearDown", "OnPause"} :
                              Tell("SINK", callbacks)
<1>1. ~ProcessGetParamM3Response("SINK") /\ ~ProcessSetParamM4Response("SINK")
  BY DEF ProcessGetParamM3Response, ProcessSetParamM4Response, ReadsResponse, WaitInv
<1>2. CASE ProcessCommonResponse("SINK")
  BY <1>2 DEF ProcessCommonResponse
<1>3. CASE ProcessSetParamM5Response("SINK")
  BY <1>3 DEF ProcessSetParamM5Response, Await
<1>4. CASE ProcessSetupM6Response("SINK")
  BY <1>4 DEF ProcessSetupM6Response
<1>5. CASE ProcessPlayM7Response("SINK")
  BY <1>5 DEF ProcessPlayM7Response, Await
<1>6. CASE ProcessPauseM9Response("SINK")
  BY <1>6 DEF ProcessPauseM9Response
<1>7. CASE DealAnnounceRequest("SINK")
  BY <1>7 DEF DealAnnounceRequest
<1>8. CASE UnexpectedResponse("SINK")
  BY <1>8 DEF UnexpectedResponse, engineVars
<1> QED
  BY <1>1, <1>2, <1>3, <1>4, <1>5, <1>6, <1>7, <1>8 DEF OnResponse

-----------------------------------------------------------------------------
(* The conversation, row by row                                              *)

Talking == IInv /\ link = Ends /\ \A e \in Ends : active[e]

LEMMA HandlerFrame ==
  ASSUME IInv, NEW e \in Ends, Handler(e)
  PROVE  /\ Reading(e) /\ net[e] # <<>> /\ open[e] /\ ~switching[e]
         /\ readying[e] => ~Tcp
         /\ active' = active /\ open' = open /\ readying' = readying
         /\ link' = link /\ paired' = paired /\ linkType' = linkType /\ ownMode' = ownMode
         /\ Tcp' = Tcp
         /\ TypeInv'
         /\ \A d \in Ends : d # e =>
              /\ algorithmId'[d] = algorithmId[d] /\ switching'[d] = switching[d]
              /\ waitRsp'[d] = waitRsp[d] /\ mode'[d] = mode[d] /\ told'[d] = told[d]
<1>1. PICK p : Hearing(e, p)
  BY HandlersHear
<1>2. TypeInv' /\ Reading(e) /\ net[e] # <<>> /\ open[e] /\ ~switching[e]
  BY <1>1, HearingTypes, HearingNet DEF Hearing
<1>3. readying[e] => ~Tcp
  BY <1>2 DEF Reading, Tcp
<1> QED
  BY <1>1, <1>2, <1>3 DEF Hearing, EngineStep, linkVars, Tcp

\* While both ends are there, what a handler sends arrives.
LEMMA Arrives ==
  ASSUME Talking, NEW e \in Ends, NEW p \in Seq(MessageTo(Other(e))), Reading(e), Handle(e, p)
  PROVE  net'[e] = Tail(net[e]) /\ net'[Other(e)] = net[Other(e)] \o p
<1>1. Delivered(e, p) = p
  BY OtherEnd DEF Talking, Delivered, CanSend, Reading
<1>2. net[e] # <<>>
  BY DEF Reading
<1> QED
  BY <1>1, <1>2, HandleNet DEF Talking, IInv

LEMMA AfterNone ==
  ASSUME Talking, NEW e \in Ends, Reading(e), Handle(e, <<>>)
  PROVE  net'[e] = Tail(net[e]) /\ net'[Other(e)] = net[Other(e)]
<1>1. <<>> \in Seq(MessageTo(Other(e))) /\ net[Other(e)] \in Seq(MessageTo(Other(e)))
  BY OtherEnd DEF Talking, IInv, TypeInv, NetTypes
<1>2. net'[e] = Tail(net[e]) /\ net'[Other(e)] = net[Other(e)] \o <<>>
  BY <1>1, Arrives
<1> QED
  BY <1>1, <1>2

LEMMA AfterOne ==
  ASSUME Talking, NEW e \in Ends, Nothing(Other(e)), Reading(e),
         NEW m \in MessageTo(Other(e)), Handle(e, <<m>>)
  PROVE  /\ net'[e] = Tail(net[e]) /\ net'[Other(e)] # <<>>
         /\ Head(net'[Other(e)]) = m /\ Tail(net'[Other(e)]) = <<>>
<1>1. <<m>> \in Seq(MessageTo(Other(e)))
  OBVIOUS
<1>2. net'[e] = Tail(net[e]) /\ net'[Other(e)] = <<>> \o <<m>>
  BY <1>1, Arrives DEF Nothing
<1>3. <<>> \o <<m>> # <<>> /\ Head(<<>> \o <<m>>) = m /\ Tail(<<>> \o <<m>>) = <<>>
  BY <1>1
<1> QED
  BY <1>2, <1>3

LEMMA AfterTwo ==
  ASSUME Talking, NEW e \in Ends, Nothing(Other(e)), Reading(e),
         NEW m \in MessageTo(Other(e)), NEW n \in MessageTo(Other(e)), Handle(e, <<m, n>>)
  PROVE  /\ net'[e] = Tail(net[e]) /\ net'[Other(e)] # <<>>
         /\ Head(net'[Other(e)]) = m /\ Tail(net'[Other(e)]) # <<>>
         /\ Head(Tail(net'[Other(e)])) = n /\ Tail(Tail(net'[Other(e)])) = <<>>
<1>1. <<m, n>> \in Seq(MessageTo(Other(e)))
  OBVIOUS
<1>2. net'[e] = Tail(net[e]) /\ net'[Other(e)] = <<>> \o <<m, n>>
  BY <1>1, Arrives DEF Nothing
<1>3. <<>> \o <<m, n>> = <<m, n>>
  BY <1>1
<1>4. /\ <<m, n>> # <<>> /\ Head(<<m, n>>) = m /\ Tail(<<m, n>>) = <<n>>
      /\ <<n>> # <<>> /\ Head(<<n>>) = n /\ Tail(<<n>>) = <<>>
  OBVIOUS
<1> QED
  BY <1>2, <1>3, <1>4

\* What e says, and under which cipher, while both ends are there.
LEMMA Words ==
  ASSUME Talking, NEW e \in Ends
  PROVE  /\ \A what \in Requests(e) :
              /\ Request(e, what) \in MessageTo(Other(e))
              /\ Says(Request(e, what), "REQUEST", what, Tcp /\ algorithmId[e])
         /\ \A what \in Requests(Other(e)) \cup {"405"} :
              /\ Response(e, what) \in MessageTo(Other(e))
              /\ Says(Response(e, what), "RESPONSE", what, Tcp /\ algorithmId[e])
  BY PacketTypes DEF Talking, IInv, TypeInv, EngineTypes, Sealing, Says, Tcp

LEMMA Heard ==
  ASSUME Talking, NEW e \in Ends, Reading(e), NEW type, NEW what,
         Says(Head(net[e]), type, what, algorithmId[e])
  PROVE  /\ type = "REQUEST" => ReadsRequest(e, what)
         /\ type = "RESPONSE" => ReadsResponse(e, waitRsp[e]) /\ (IsRefusal(e) <=> what = "405")
<1>1. Sealing(e) = algorithmId[e]
  BY DEF Talking, IInv, TypeInv, EngineTypes, Sealing
<1> QED
  BY <1>1 DEF Says, ReadsRequest, ReadsResponse, Readable, IsRefusal

LEMMA ToldNothing ==
  ASSUME Talking, NEW e \in Ends, NEW callbacks, Tell(e, callbacks), Unconnected,
         {"ProcessStreamMode", "OnPlayerReady"} \cap callbacks = {}
  PROVE  Unconnected'
  BY DEF Talking, IInv, TypeInv, EngineTypes, Tell, Unconnected

LEMMA Announcing ==
  ASSUME Talking, Unconnected, NEW e \in Ends, Handler(e), AnnouncedToSource
  PROVE  Unconnected' /\ AnnounceAnswered'
<1>1. e = "SOURCE" /\ Other(e) = "SINK" /\ Reading(e)
  BY HandlerFrame DEF Talking, AnnouncedToSource, Nothing, Ends, Other
<1>2. ReadsRequest(e, "ANNOUNCE")
  BY <1>1, Heard DEF AnnouncedToSource, One
<1>3. AnnounceToSource
  BY <1>1, <1>2, RequestHandled DEF Announces
<1>4. "ANNOUNCE" \in Requests(e) /\ "ANNOUNCE" \in Requests(Other(e))
  BY <1>1, RequestsAre DEF FromSource, FromSink, FromBoth
<1> DEFINE m == Response(e, "ANNOUNCE")
           n == Request(e, "ANNOUNCE")
<1>5. /\ m \in MessageTo(Other(e)) /\ n \in MessageTo(Other(e))
      /\ Says(m, "RESPONSE", "ANNOUNCE", algorithmId["SOURCE"])
      /\ Says(n, "REQUEST", "ANNOUNCE", algorithmId["SOURCE"])
  BY <1>1, <1>4, Words DEF AnnouncedToSource, Talking, IInv, TypeInv, EngineTypes
<1>6. Handle(e, <<m, n>>)
  BY <1>1, <1>3 DEF AnnounceToSource
<1> HIDE DEF m, n
<1>7. /\ net'[e] = <<>> /\ net'["SINK"] # <<>>
      /\ Head(net'["SINK"]) = m /\ Tail(net'["SINK"]) # <<>>
      /\ Head(Tail(net'["SINK"])) = n /\ Tail(Tail(net'["SINK"])) = <<>>
  BY <1>1, <1>5, <1>6, AfterTwo DEF AnnouncedToSource, One
<1>8. /\ algorithmId' = algorithmId /\ switching' = switching /\ told' = told
      /\ waitRsp' = [waitRsp EXCEPT !["SOURCE"] = "ANNOUNCE"]
  BY <1>3 DEF AnnounceToSource, Await
<1>9. Nothing("SOURCE")'
      /\ Two("SINK", "RESPONSE", "ANNOUNCE", "REQUEST", "ANNOUNCE", algorithmId["SOURCE"])'
  BY <1>1, <1>5, <1>7, <1>8 DEF Nothing, Two, Says
<1> QED
  BY <1>8, <1>9, HandlerFrame
     DEF Talking, IInv, TypeInv, EngineTypes, Unconnected, AnnouncedToSource,
         AnnounceAnswered,
         SinkAnnounces, Agreed, Ends

LEMMA AnnounceConfirmed ==
  ASSUME Talking, Unconnected, NEW e \in Ends, Handler(e), AnnounceAnswered
  PROVE  Unconnected' /\ AnnouncedToSink'
<1>1. e = "SINK" /\ Other(e) = "SOURCE" /\ Reading(e)
  BY HandlerFrame DEF Talking, AnnounceAnswered, Nothing, Ends, Other
<1>2. ~readying["SINK"] /\ waitRsp["SINK"] = "ANNOUNCE"
  BY <1>1, HandlerFrame DEF Talking, AnnounceAnswered, SinkAnnounces
<1>3. ReadsResponse(e, "ANNOUNCE")
  BY <1>1, <1>2, Heard DEF AnnounceAnswered, Two, Agreed
<1>4. DealAnnounceRequest(e)
  BY <1>3, ResponseHandled
<1>5. /\ Handle(e, <<>>) /\ algorithmId' = algorithmId /\ waitRsp' = waitRsp
      /\ switching' = switching /\ told' = told
  BY <1>1, <1>4 DEF DealAnnounceRequest
<1>6. net'["SINK"] = Tail(net["SINK"]) /\ net'["SOURCE"] = net["SOURCE"]
  BY <1>1, <1>5, AfterNone
<1>7. Nothing("SOURCE")' /\ One("SINK", "REQUEST", "ANNOUNCE", algorithmId["SOURCE"])'
  BY <1>5, <1>6 DEF AnnounceAnswered, Nothing, One, Two, Says
<1> QED
  BY <1>1, <1>2, <1>5, <1>7, HandlerFrame
     DEF Talking, Unconnected, AnnounceAnswered, AnnouncedToSink, Agreed

LEMMA CipherAcknowledged ==
  ASSUME Talking, Unconnected, NEW e \in Ends, Handler(e), AnnouncedToSink
  PROVE  Unconnected' /\ CipherAnswered'
<1>1. e = "SINK" /\ Other(e) = "SOURCE" /\ Reading(e)
  BY HandlerFrame DEF Talking, AnnouncedToSink, Nothing, Ends, Other
<1>2. ReadsRequest(e, "ANNOUNCE")
  BY <1>1, Heard DEF AnnouncedToSink, One, Agreed
<1>3. AnnounceToSink
  BY <1>1, <1>2, RequestHandled DEF Announces
<1>4. "ANNOUNCE" \in Requests(Other(e))
  BY <1>1, RequestsAre DEF FromSource, FromBoth
<1> DEFINE m == Response(e, "ANNOUNCE")
<1>5. /\ m \in MessageTo(Other(e))
      /\ Says(m, "RESPONSE", "ANNOUNCE", algorithmId["SOURCE"])
  BY <1>1, <1>4, Words DEF AnnouncedToSink, Agreed, Talking, IInv, TypeInv, EngineTypes
<1>6. Handle(e, <<m>>)
  BY <1>1, <1>3 DEF AnnounceToSink
<1> HIDE DEF m
<1>7. /\ net'["SINK"] = <<>> /\ net'["SOURCE"] # <<>>
      /\ Head(net'["SOURCE"]) = m /\ Tail(net'["SOURCE"]) = <<>>
  BY <1>1, <1>5, <1>6, AfterOne DEF AnnouncedToSink, One
<1>8. /\ algorithmId' = algorithmId /\ waitRsp' = waitRsp /\ told' = told
      /\ switching' = [switching EXCEPT !["SINK"] = TRUE]
  BY <1>3 DEF AnnounceToSink
<1>9. One("SOURCE", "RESPONSE", "ANNOUNCE", algorithmId["SOURCE"])' /\ Nothing("SINK")'
  BY <1>5, <1>7, <1>8 DEF Nothing, One, Says
<1> QED
  BY <1>1, <1>8, <1>9, HandlerFrame
     DEF Talking, IInv, TypeInv, EngineTypes, Unconnected, AnnouncedToSink, CipherAnswered

LEMMA CipherAgreed ==
  ASSUME Talking, Unconnected, NEW e \in Ends, Handler(e), CipherAnswered
  PROVE  Unconnected' /\ OfferedToSink'
<1>1. e = "SOURCE" /\ Other(e) = "SINK" /\ Reading(e)
  BY HandlerFrame DEF Talking, CipherAnswered, Nothing, Ends, Other
<1>2. ReadsResponse(e, "ANNOUNCE")
  BY <1>1, Heard DEF CipherAnswered, One
<1>3. DealAnnounceRequest(e)
  BY <1>2, ResponseHandled
<1> DEFINE m == [Request(e, "OPTIONS") EXCEPT !.sealed = active[e]]
<1>4. /\ Handle(e, <<m>>) /\ Await(e, "OPT_M1") /\ told' = told /\ switching' = switching
      /\ algorithmId' = [algorithmId EXCEPT ![e] = TRUE]
  BY <1>1, <1>3 DEF DealAnnounceRequest
<1>5. "OPTIONS" \in Requests(e) /\ active[e] = TRUE
  BY <1>1, RequestsAre DEF FromSource, FromBoth, Talking, IInv, TypeInv, EngineTypes
<1>6. Request(e, "OPTIONS")
        \in [type : {"REQUEST"}, what : Requests(e), mode : Modes, sealed : BOOLEAN]
  BY <1>5 DEF Talking, IInv, TypeInv, EngineTypes, Request, Packet, Sealing
<1>7. /\ m \in [type : {"REQUEST"}, what : Requests(e), mode : Modes, sealed : BOOLEAN]
      /\ m.type = Request(e, "OPTIONS").type /\ m.what = Request(e, "OPTIONS").what
      /\ m.sealed = TRUE
  BY <1>5, <1>6
<1>8. m \in MessageTo(Other(e)) /\ Says(m, "REQUEST", "OPTIONS", TRUE)
  BY <1>1, <1>5, <1>7, Words DEF Says, MessageTo, Other
<1> HIDE DEF m
<1>9. /\ net'["SOURCE"] = <<>> /\ net'["SINK"] # <<>>
      /\ Head(net'["SINK"]) = m /\ Tail(net'["SINK"]) = <<>>
  BY <1>1, <1>4, <1>8, AfterOne DEF CipherAnswered, One
<1>10. Nothing("SOURCE")' /\ One("SINK", "REQUEST", "OPTIONS", TRUE)'
  BY <1>8, <1>9 DEF Nothing, One, Says
<1>11. /\ algorithmId'["SOURCE"] /\ algorithmId'["SINK"] = algorithmId["SINK"]
       /\ waitRsp'["SOURCE"] = "OPT_M1"
  BY <1>1, <1>4 DEF Await, Talking, IInv, TypeInv, EngineTypes, Ends
<1> QED
  BY <1>1, <1>4, <1>10, <1>11, HandlerFrame
     DEF Talking, Unconnected, CipherAnswered, OfferedToSink

LEMMA SinkAnswersOffer ==
  ASSUME Talking, Unconnected, NEW e \in Ends, Handler(e), OfferedToSink
  PROVE  Unconnected' /\ OptionsAnswered'
<1>1. e = "SINK" /\ Other(e) = "SOURCE" /\ Reading(e) /\ ~switching["SINK"]
  BY HandlerFrame DEF Talking, OfferedToSink, Nothing, Ends, Other
<1>2. algorithmId["SINK"] = TRUE /\ algorithmId["SOURCE"] = TRUE /\ Tcp = TRUE
  BY <1>1 DEF OfferedToSink, Talking, IInv, TypeInv, EngineTypes, Ends, Tcp
<1>3. ReadsRequest(e, "OPTIONS")
  BY <1>1, <1>2, Heard DEF OfferedToSink, One
<1>4. ProcessOptionRequest(e)
  BY <1>3, RequestHandled
<1>5. "OPTIONS" \in Requests(e) /\ "OPTIONS" \in Requests(Other(e))
  BY <1>1, RequestsAre DEF FromSource, FromSink, FromBoth
<1> DEFINE m == Response(e, "OPTIONS")
           n == Request(e, "OPTIONS")
<1>6. /\ m \in MessageTo(Other(e)) /\ n \in MessageTo(Other(e))
      /\ Says(m, "RESPONSE", "OPTIONS", Tcp) /\ Says(n, "REQUEST", "OPTIONS", Tcp)
  BY <1>1, <1>2, <1>5, Words
<1>7. CanSend(e) /\ AfterOptions(e).what = "OPTIONS" /\ AfterOptions(e).response = "OPT_M2"
  BY <1>1 DEF Talking, CanSend, Reading, AfterOptions
<1>8. /\ Handle(e, <<m, n>>) /\ Await(e, "OPT_M2") /\ Tell(e, {})
      /\ algorithmId' = algorithmId /\ switching' = switching
  BY <1>4, <1>7 DEF ProcessOptionRequest, ErrorUnlessSent
<1> HIDE DEF m, n
<1>9. /\ net'["SINK"] = <<>> /\ net'["SOURCE"] # <<>>
      /\ Head(net'["SOURCE"]) = m /\ Tail(net'["SOURCE"]) # <<>>
      /\ Head(Tail(net'["SOURCE"])) = n /\ Tail(Tail(net'["SOURCE"])) = <<>>
  BY <1>1, <1>6, <1>8, AfterTwo DEF OfferedToSink, One
<1>10. Nothing("SINK")' /\ Two("SOURCE", "RESPONSE", "OPTIONS", "REQUEST", "OPTIONS", Tcp)'
  BY <1>6, <1>9, HandlerFrame DEF Nothing, Two, Says, Talking
<1>11. waitRsp'["SINK"] = "OPT_M2" /\ waitRsp'["SOURCE"] = waitRsp["SOURCE"]
  BY <1>1, <1>8 DEF Await, Talking, IInv, TypeInv, EngineTypes, Ends
<1>12. Unconnected'
  BY <1>8, ToldNothing
<1> QED
  BY <1>1, <1>2, <1>8, <1>10, <1>11, <1>12, HandlerFrame
     DEF Talking, OfferedToSink, OptionsAnswered, Settled, Agreed

LEMMA SourceHearsOptions ==
  ASSUME Talking, Unconnected, NEW e \in Ends, Handler(e), OptionsAnswered
  PROVE  Unconnected' /\ OfferedToSource'
<1>1. e = "SOURCE" /\ Other(e) = "SINK" /\ Reading(e)
  BY HandlerFrame DEF Talking, OptionsAnswered, Nothing, Ends, Other
<1>2. ReadsResponse(e, "OPT_M1") /\ ~IsRefusal(e)
  <2>1. /\ Says(Head(net[e]), "RESPONSE", "OPTIONS", algorithmId[e])
        /\ waitRsp[e] = "OPT_M1"
    BY <1>1 DEF OptionsAnswered, Settled, Agreed, Two
  <2>2. ReadsResponse(e, waitRsp[e]) /\ (IsRefusal(e) <=> "OPTIONS" = "405")
    BY <1>1, <2>1, Heard
  <2> QED
    BY <2>1, <2>2
<1>3. ProcessCommonResponse(e)
  BY <1>2, ResponseHandled
<1>4. /\ Handle(e, <<>>) /\ Tell(e, {}) /\ algorithmId' = algorithmId /\ switching' = switching
      /\ waitRsp' = waitRsp
  BY <1>2, <1>3 DEF ProcessCommonResponse
<1>5. net'["SOURCE"] = Tail(net["SOURCE"]) /\ net'["SINK"] = net["SINK"]
  BY <1>1, <1>4, AfterNone
<1>6. One("SOURCE", "REQUEST", "OPTIONS", Tcp)' /\ Nothing("SINK")'
  BY <1>5, HandlerFrame DEF OptionsAnswered, Nothing, One, Two, Says, Talking
<1>7. Unconnected'
  BY <1>4, ToldNothing
<1> QED
  BY <1>1, <1>4, <1>6, <1>7, HandlerFrame
     DEF Talking, OptionsAnswered, OfferedToSource, Settled, Agreed, Negotiates

LEMMA SourceAnswersOffer ==
  ASSUME Talking, Unconnected, NEW e \in Ends, Handler(e), OfferedToSource
  PROVE  Unconnected' /\ OfferAnswered'
<1>1. e = "SOURCE" /\ Other(e) = "SINK" /\ Reading(e)
  BY HandlerFrame DEF Talking, OfferedToSource, Nothing, Ends, Other
<1>2. ReadsRequest(e, "OPTIONS")
  BY <1>1, Heard DEF OfferedToSource, Settled, Agreed, One
<1>3. ProcessOptionRequest(e)
  BY <1>2, RequestHandled
<1>4. "GET_PARAM" \in Requests(e) /\ "OPTIONS" \in Requests(Other(e))
  BY <1>1, RequestsAre DEF FromSource, FromSink, FromBoth
<1> DEFINE m == Response(e, "OPTIONS")
           n == Request(e, "GET_PARAM")
<1>5. /\ m \in MessageTo(Other(e)) /\ n \in MessageTo(Other(e))
      /\ Says(m, "RESPONSE", "OPTIONS", Tcp) /\ Says(n, "REQUEST", "GET_PARAM", Tcp)
  BY <1>1, <1>4, Words DEF OfferedToSource, Settled, Agreed, Tcp
<1>6. CanSend(e) /\ AfterOptions(e).what = "GET_PARAM" /\ AfterOptions(e).response = "GET_PARAM_M3"
  BY <1>1 DEF Talking, CanSend, Reading, AfterOptions
<1>7. /\ Handle(e, <<m, n>>) /\ Await(e, "GET_PARAM_M3") /\ Tell(e, {})
      /\ algorithmId' = algorithmId /\ switching' = switching
  BY <1>3, <1>6 DEF ProcessOptionRequest, ErrorUnlessSent
<1> HIDE DEF m, n
<1>8. /\ net'["SOURCE"] = <<>> /\ net'["SINK"] # <<>>
      /\ Head(net'["SINK"]) = m /\ Tail(net'["SINK"]) # <<>>
      /\ Head(Tail(net'["SINK"])) = n /\ Tail(Tail(net'["SINK"])) = <<>>
  BY <1>1, <1>5, <1>7, AfterTwo DEF OfferedToSource, One
<1>9. Nothing("SOURCE")' /\ Two("SINK", "RESPONSE", "OPTIONS", "REQUEST", "GET_PARAM", Tcp)'
  BY <1>5, <1>8, HandlerFrame DEF Nothing, Two, Says, Talking
<1>10. waitRsp'["SOURCE"] = "GET_PARAM_M3" /\ waitRsp'["SINK"] = waitRsp["SINK"]
  BY <1>1, <1>7 DEF Await, Talking, IInv, TypeInv, EngineTypes, Ends
<1>11. Unconnected'
  BY <1>7, ToldNothing
<1> QED
  BY <1>1, <1>7, <1>9, <1>10, <1>11, HandlerFrame
     DEF Talking, OfferedToSource, OfferAnswered, Settled, Agreed

LEMMA SinkHearsOptions ==
  ASSUME Talking, Unconnected, NEW e \in Ends, Handler(e), OfferAnswered
  PROVE  Unconnected' /\ ParametersAsked'
<1>1. e = "SINK" /\ Other(e) = "SOURCE" /\ Reading(e)
  BY HandlerFrame DEF Talking, OfferAnswered, Nothing, Ends, Other
<1>2. ReadsResponse(e, waitRsp[e])
  BY <1>1, Heard DEF OfferAnswered, Settled, Agreed, Two
<1>3. OnResponse(e)
  BY <1>2, ResponseHandled
<1>4. /\ Handle(e, <<>>) /\ algorithmId' = algorithmId /\ switching' = switching
      /\ waitRsp' \in {waitRsp, [waitRsp EXCEPT !["SINK"] = "NONE"]}
      /\ \/ told' = told
         \/ \E callbacks \in SUBSET {"OnError", "OnSetup", "OnTearDown", "OnPause"} :
              Tell(e, callbacks)
  BY <1>1, <1>3, SinkHandlesResponse DEF Talking, IInv
<1>5. net'["SINK"] = Tail(net["SINK"]) /\ net'["SOURCE"] = net["SOURCE"]
  BY <1>1, <1>4, AfterNone
<1>6. One("SINK", "REQUEST", "GET_PARAM", Tcp)' /\ Nothing("SOURCE")'
  BY <1>5, HandlerFrame DEF OfferAnswered, Nothing, One, Two, Says, Talking
<1>7. Unconnected'
  <2>1. CASE told' = told
    BY <2>1 DEF Unconnected
  <2>2. ASSUME NEW callbacks \in SUBSET {"OnError", "OnSetup", "OnTearDown", "OnPause"},
               Tell(e, callbacks)
        PROVE  Unconnected'
    BY <2>2, ToldNothing
  <2> QED
    BY <1>4, <2>1, <2>2
<1>8. waitRsp'["SOURCE"] = waitRsp["SOURCE"] /\ waitRsp'["SINK"] \in {waitRsp["SINK"], "NONE"}
  BY <1>4 DEF Talking, IInv, TypeInv, EngineTypes, Ends
<1> QED
  BY <1>1, <1>4, <1>6, <1>7, <1>8, HandlerFrame
     DEF Talking, OfferAnswered, ParametersAsked, Settled, Agreed

LEMMA SinkAnswersParameters ==
  ASSUME Talking, Unconnected, NEW e \in Ends, Handler(e), ParametersAsked
  PROVE  Unconnected' /\ ParametersAnswered'
<1>1. e = "SINK" /\ Other(e) = "SOURCE" /\ Reading(e)
  BY HandlerFrame DEF Talking, ParametersAsked, Nothing, Ends, Other
<1>2. ReadsRequest(e, "GET_PARAM")
  BY <1>1, Heard DEF ParametersAsked, Settled, Agreed, One
<1>3. ProcessGetParameterRequestM3(e)
  BY <1>2, RequestHandled
<1>4. "GET_PARAM" \in Requests(Other(e))
  BY <1>1, RequestsAre DEF FromSource
<1> DEFINE m == Response(e, "GET_PARAM")
<1>5. m \in MessageTo(Other(e)) /\ Says(m, "RESPONSE", "GET_PARAM", Tcp)
  BY <1>1, <1>4, Words DEF ParametersAsked, Settled, Agreed, Tcp
<1>6. CanSend(e)
  BY <1>1 DEF Talking, CanSend, Reading
<1>7. /\ Handle(e, <<m>>) /\ Tell(e, {})
      /\ algorithmId' = algorithmId /\ switching' = switching /\ waitRsp' = waitRsp
  BY <1>3, <1>6 DEF ProcessGetParameterRequestM3, ErrorUnlessSent
<1> HIDE DEF m
<1>8. /\ net'["SINK"] = <<>> /\ net'["SOURCE"] # <<>>
      /\ Head(net'["SOURCE"]) = m /\ Tail(net'["SOURCE"]) = <<>>
  BY <1>1, <1>5, <1>7, AfterOne DEF ParametersAsked, One
<1>9. Nothing("SINK")' /\ One("SOURCE", "RESPONSE", "GET_PARAM", Tcp)'
  BY <1>5, <1>8, HandlerFrame DEF Nothing, One, Says, Talking
<1>10. Unconnected'
  BY <1>7, ToldNothing
<1> QED
  BY <1>1, <1>7, <1>9, <1>10, HandlerFrame
     DEF Talking, ParametersAsked, ParametersAnswered, Settled, Agreed

LEMMA SourceSetsParameters ==
  ASSUME Talking, Unconnected, NEW e \in Ends, Handler(e), ParametersAnswered
  PROVE  Unconnected' /\ ParametersSet'
<1>1. e = "SOURCE" /\ Other(e) = "SINK" /\ Reading(e)
  BY HandlerFrame DEF Talking, ParametersAnswered, Nothing, Ends, Other
<1>2. ReadsResponse(e, "GET_PARAM_M3") /\ Head(net[e]).what = "GET_PARAM"
  BY <1>1, Heard DEF ParametersAnswered, Settled, Agreed, One, Says
<1>3. ProcessGetParamM3Response(e)
  BY <1>2, ResponseHandled
<1>4. "SET_PARAM" \in Requests(e)
  BY <1>1, RequestsAre DEF FromSource
<1> DEFINE m == Request(e, "SET_PARAM")
<1>5. m \in MessageTo(Other(e)) /\ Says(m, "REQUEST", "SET_PARAM", Tcp)
  BY <1>1, <1>4, Words DEF ParametersAnswered, Settled, Agreed, Tcp
<1>6. /\ Handle(e, <<m>>) /\ Await(e, "SET_PARAM_M4") /\ told' = told
      /\ algorithmId' = algorithmId /\ switching' = switching
  BY <1>2, <1>3 DEF ProcessGetParamM3Response
<1> HIDE DEF m
<1>7. /\ net'["SOURCE"] = <<>> /\ net'["SINK"] # <<>>
      /\ Head(net'["SINK"]) = m /\ Tail(net'["SINK"]) = <<>>
  BY <1>1, <1>5, <1>6, AfterOne DEF ParametersAnswered, One
<1>8. Nothing("SOURCE")' /\ One("SINK", "REQUEST", "SET_PARAM", Tcp)'
  BY <1>5, <1>7, HandlerFrame DEF Nothing, One, Says, Talking
<1>9. waitRsp'["SOURCE"] = "SET_PARAM_M4" /\ waitRsp'["SINK"] = waitRsp["SINK"]
  BY <1>1, <1>6 DEF Await, Talking, IInv, TypeInv, EngineTypes, Ends
<1> QED
  BY <1>1, <1>6, <1>8, <1>9, HandlerFrame
     DEF Talking, Unconnected, ParametersAnswered, ParametersSet, Settled, Agreed

LEMMA SinkTakesParameters ==
  ASSUME Talking, Unconnected, NEW e \in Ends, Handler(e), ParametersSet
  PROVE  Unconnected' /\ SettingAnswered'
<1>1. e = "SINK" /\ Other(e) = "SOURCE" /\ Reading(e)
  BY HandlerFrame DEF Talking, ParametersSet, Nothing, Ends, Other
<1>2. ReadsRequest(e, "SET_PARAM")
  BY <1>1, Heard DEF ParametersSet, Settled, Agreed, One
<1>3. ProcessSetParamRequestM4(e)
  BY <1>2, RequestHandled
<1>4. "SET_PARAM" \in Requests(Other(e))
  BY <1>1, RequestsAre DEF FromSource
<1> DEFINE m == Response(e, "SET_PARAM")
<1>5. m \in MessageTo(Other(e)) /\ Says(m, "RESPONSE", "SET_PARAM", Tcp)
  BY <1>1, <1>4, Words DEF ParametersSet, Settled, Agreed, Tcp
<1>6. CanSend(e)
  BY <1>1 DEF Talking, CanSend, Reading
<1>7. /\ Handle(e, <<m>>) /\ Tell(e, {}) /\ mode' = [mode EXCEPT ![e] = Head(net[e]).mode]
      /\ algorithmId' = algorithmId /\ switching' = switching /\ waitRsp' = waitRsp
  BY <1>3, <1>6 DEF ProcessSetParamRequestM4, ErrorUnlessSent
<1> HIDE DEF m
<1>8. /\ net'["SINK"] = <<>> /\ net'["SOURCE"] # <<>>
      /\ Head(net'["SOURCE"]) = m /\ Tail(net'["SOURCE"]) = <<>>
  BY <1>1, <1>5, <1>7, AfterOne DEF ParametersSet, One
<1>9. Nothing("SINK")' /\ One("SOURCE", "RESPONSE", "SET_PARAM", Tcp)'
  BY <1>5, <1>8, HandlerFrame DEF Nothing, One, Says, Talking
<1>10. Unconnected'
  BY <1>7, ToldNothing
<1>11. mode'["SINK"] = ownMode'["SOURCE"]
  <2>1. 1 \in DOMAIN net[e] /\ net[e][1] = Head(net[e])
    BY HandlerFrame, HeadFacts DEF Talking, IInv
  <2>2. Head(net[e]).mode = ownMode["SOURCE"]
    BY <1>1, <2>1 DEF Talking, IInv, ModeInv
  <2>3. mode'["SINK"] = Head(net[e]).mode
    BY <1>1, <1>7 DEF Talking, IInv, TypeInv, EngineTypes
  <2> QED
    BY <2>2, <2>3, HandlerFrame DEF Talking
<1> QED
  BY <1>1, <1>7, <1>9, <1>10, <1>11, HandlerFrame
     DEF Talking, ParametersSet, SettingAnswered, Settled, Agreed

LEMMA SourceTriggers ==
  ASSUME Talking, Unconnected, NEW e \in Ends, Handler(e), SettingAnswered
  PROVE  Negotiated'
<1>1. e = "SOURCE" /\ Other(e) = "SINK" /\ Reading(e)
  BY HandlerFrame DEF Talking, SettingAnswered, Nothing, Ends, Other
<1>2. ReadsResponse(e, "SET_PARAM_M4") /\ ~IsRefusal(e)
  <2>1. /\ Says(Head(net[e]), "RESPONSE", "SET_PARAM", algorithmId[e])
        /\ waitRsp[e] = "SET_PARAM_M4"
    BY <1>1 DEF SettingAnswered, Settled, Agreed, One
  <2>2. ReadsResponse(e, waitRsp[e]) /\ (IsRefusal(e) <=> "SET_PARAM" = "405")
    BY <1>1, <2>1, Heard
  <2> QED
    BY <2>1, <2>2
<1>3. ProcessSetParamM4Response(e)
  BY <1>2, ResponseHandled
<1>4. "TRIGGER_SETUP" \in Requests(e)
  BY <1>1, RequestsAre DEF FromSource
<1> DEFINE m == Request(e, "TRIGGER_SETUP")
<1>5. m \in MessageTo(Other(e)) /\ Says(m, "REQUEST", "TRIGGER_SETUP", Tcp)
  BY <1>1, <1>4, Words DEF SettingAnswered, Settled, Agreed, Tcp
<1>6. /\ Handle(e, <<m>>) /\ Await(e, "SET_PARAM_M5")
      /\ algorithmId' = algorithmId /\ switching' = switching
  BY <1>2, <1>3 DEF ProcessSetParamM4Response
<1> HIDE DEF m
<1>7. net'["SOURCE"] = <<>> /\ net'["SINK"] = <<m>>
  <2>1. <<m>> \in Seq(MessageTo(Other(e)))
    BY <1>5
  <2>2. net'[e] = Tail(net[e]) /\ net'[Other(e)] = net[Other(e)] \o <<m>>
    BY <1>1, <1>6, <2>1, Arrives
  <2>3. <<>> \o <<m>> = <<m>>
    BY <1>5
  <2> QED
    BY <1>1, <2>2, <2>3 DEF SettingAnswered, One, Nothing
<1>8. waitRsp'["SOURCE"] = "SET_PARAM_M5" /\ waitRsp'["SINK"] = waitRsp["SINK"]
  BY <1>1, <1>6 DEF Await, Talking, IInv, TypeInv, EngineTypes, Ends
<1>9. \A d \in Ends : \A i \in DOMAIN net'[d] :
        /\ net'[d][i].sealed = Tcp
        /\ net'[d][i].type = "REQUEST" => net'[d][i].what \notin OverWith(d)
  BY <1>5, <1>7 DEF Ends, OverWith, Says
<1> QED
  BY <1>1, <1>6, <1>8, <1>9, HandlerFrame
     DEF Talking, SettingAnswered, Negotiated, Settled, Agreed

LEMMA NegotiatedStays ==
  ASSUME Talking, NEW e \in Ends, Handler(e), Negotiated
  PROVE  Negotiated'
<1>1. PICK p : Hearing(e, p)
  BY HandlersHear DEF Talking
<1>2. IInv /\ link = Ends
  BY DEF Talking
<1>3. /\ algorithmId["SOURCE"] = Tcp /\ algorithmId["SINK"] = Tcp /\ ~switching["SINK"]
      /\ waitRsp["SINK"] # "ANNOUNCE" /\ waitRsp["SOURCE"] \in {"NONE", "SET_PARAM_M5"}
  BY DEF Negotiated, Settled, Agreed
<1>4. 1 \in DOMAIN net[e] /\ net[e][1] = Head(net[e])
  BY <1>2, HandlerFrame, HeadFacts DEF IInv
<1>5. \A what \in {"ANNOUNCE", "OPTIONS"} : ~ReadsRequest(e, what)
  BY <1>4 DEF Negotiated, OverWith, ReadsRequest
<1>6. \A response \in {"ANNOUNCE"} \cup Negotiates : ~ReadsResponse(e, response)
  BY <1>2, <1>3 DEF ReadsResponse, IInv, WaitInv, Negotiates, Ends
<1>7. Sealing(e) = Tcp
  BY <1>3 DEF Talking, Sealing, Tcp, Ends
<1>8. ASSUME NEW m, Utterance(e, m)
      PROVE  m.sealed = Tcp /\ (m.type = "REQUEST" => m.what = "SETUP")
  BY <1>5, <1>6, <1>7, <1>8 DEF Utterance, Negotiates, Tcp
<1>9. ASSUME NEW i \in DOMAIN net'[e]
      PROVE  /\ net'[e][i].sealed = Tcp
             /\ net'[e][i].type = "REQUEST" => net'[e][i].what \notin OverWith(e)
  BY <1>1, <1>2, HearingNet DEF Negotiated
<1>10. ASSUME NEW i \in DOMAIN net'[Other(e)]
       PROVE  /\ net'[Other(e)][i].sealed = Tcp
              /\ net'[Other(e)][i].type = "REQUEST"
                   => net'[Other(e)][i].what \notin OverWith(Other(e))
  <2>1. CASE i \in DOMAIN net[Other(e)] /\ net'[Other(e)][i] = net[Other(e)][i]
    BY <2>1, OtherEnd DEF Negotiated
  <2>2. CASE Utterance(e, net'[Other(e)][i])
    BY <1>8, <2>2 DEF OverWith
  <2> QED
    BY <1>1, <1>2, <2>1, <2>2, HearingNet
<1>11. /\ algorithmId'["SOURCE"] = Tcp /\ algorithmId'["SINK"] = Tcp /\ ~switching'["SINK"]
       /\ waitRsp'["SINK"] # "ANNOUNCE" /\ waitRsp'["SOURCE"] \in {"NONE", "SET_PARAM_M5"}
  BY <1>1, <1>3, <1>5, <1>6 DEF Hearing, EngineStep, Awaits, Ends, Negotiates
<1>12. Tcp' = Tcp /\ readying' = readying
  BY <1>2, HandlerFrame
<1>13. \A d \in Ends : \A i \in DOMAIN net'[d] :
         /\ net'[d][i].sealed = Tcp
         /\ net'[d][i].type = "REQUEST" => net'[d][i].what \notin OverWith(d)
  BY <1>9, <1>10, OtherEnd
<1> QED
  BY <1>11, <1>12, <1>13 DEF Negotiated, Settled, Agreed

LEMMA ConversationGoesOn ==
  ASSUME Talking, NEW e \in Ends, Handler(e), Conversation
  PROVE  Conversation'
<1>1. open'["SINK"] = open["SINK"]
  BY HandlerFrame DEF Talking
<1>2. CASE Unconnected /\ Unopened
  BY <1>2, HandlerFrame DEF Talking, Unopened, Nothing, Ends
<1>3. CASE open["SINK"] /\ Unconnected /\ Negotiation
  BY <1>1, <1>3, Announcing, AnnounceConfirmed, CipherAcknowledged, CipherAgreed,
     SinkAnswersOffer,
     SourceHearsOptions, SourceAnswersOffer, SinkHearsOptions, SinkAnswersParameters,
     SourceSetsParameters, SinkTakesParameters, SourceTriggers
     DEF Conversation, Negotiation
<1>4. CASE open["SINK"] /\ Negotiated
  BY <1>1, <1>4, NegotiatedStays DEF Conversation
<1> QED
  BY <1>2, <1>3, <1>4 DEF Conversation

-----------------------------------------------------------------------------
(* The monologue of a source, and ends that do not understand each other     *)

LEMMA MonologueGoesOn ==
  ASSUME IInv, ~active["SINK"], NEW e \in Ends, Handler(e), Monologue
  PROVE  Monologue'
<1>1. PICK p : Hearing(e, p)
  BY HandlersHear
<1>2. ownMode' = ownMode /\ Other("SINK") = "SOURCE"
  BY HandlerFrame DEF Other
<1>3. CASE e = "SINK"
  <2>1. net'["SOURCE"] = net["SOURCE"]
    <3>1. net'["SOURCE"] = net["SOURCE"] \o <<>> /\ net["SOURCE"] \in Seq(MessageTo("SOURCE"))
      BY <1>1, <1>2, <1>3, HearingNet DEF Delivered, CanSend, IInv, TypeInv, NetTypes, Ends
    <3> QED
      BY <3>1
  <2>2. waitRsp'["SOURCE"] = waitRsp["SOURCE"]
    BY <1>3, HandlerFrame DEF Ends
  <2>3. mode'["SINK"] \in {mode["SINK"], ownMode["SOURCE"]}
    <3>1. 1 \in DOMAIN net[e] /\ net[e][1] = Head(net[e])
      BY HandlerFrame, HeadFacts DEF IInv
    <3> QED
      BY <1>1, <1>3, <3>1 DEF Hearing, EngineStep, IInv, ModeInv
  <2> QED
    BY <1>2, <2>1, <2>2, <2>3 DEF Monologue
<1>4. CASE e = "SOURCE"
  <2>1. mode'["SINK"] = mode["SINK"]
    BY <1>4, HandlerFrame DEF Ends
  <2>2. 1 \in DOMAIN net["SOURCE"] /\ net["SOURCE"][1] = Head(net["SOURCE"])
    BY <1>4, HandlerFrame, HeadFacts DEF IInv
  <2>3. \A i \in DOMAIN net'["SOURCE"] :
          i \in Nat \ {0} /\ i + 1 \in DOMAIN net["SOURCE"] /\ net'["SOURCE"][i] = net["SOURCE"][i + 1]
    <3>1. net'["SOURCE"] \in Seq(MessageTo("SOURCE"))
      BY <1>1, <1>4, HearingNet DEF NetTypes
    <3>2. \A i \in DOMAIN net'["SOURCE"] : i \in Nat \ {0}
      BY <3>1
    <3> QED
      BY <1>1, <1>4, <3>2, HearingNet
  <2>4. ASSUME NEW i \in DOMAIN net'["SOURCE"], NEW j \in DOMAIN net'["SOURCE"],
               i < j, net'["SOURCE"][i].type = "REQUEST", net'["SOURCE"][i].what = "OPTIONS"
        PROVE  ~IsResponse(net'["SOURCE"][j])
    <3>1. i + 1 < j + 1
      BY <2>3, <2>4
    <3> QED
      BY <2>3, <2>4, <3>1 DEF Monologue
  <2>5. Awaits("SOURCE", waitRsp'["SOURCE"])
    BY <1>1, <1>4 DEF Hearing, EngineStep
  <2>6. ASSUME waitRsp'["SOURCE"] \in Negotiates, NEW i \in DOMAIN net'["SOURCE"],
               IsResponse(net'["SOURCE"][i])
        PROVE  /\ waitRsp'["SOURCE"] = waitRsp["SOURCE"]
               /\ \A j \in DOMAIN net'["SOURCE"] : IsResponse(net'["SOURCE"][j]) => i = j
    <3>1. i + 1 \in DOMAIN net["SOURCE"] /\ IsResponse(net["SOURCE"][i + 1]) /\ i + 1 # 1 /\ 1 < i + 1
      BY <2>3, <2>6
    <3>2. ~ReadsRequest("SOURCE", "OPTIONS")
      BY <2>2, <3>1 DEF Monologue, ReadsRequest
    <3>3. ~ReadsResponse("SOURCE", "GET_PARAM_M3")
      BY <2>2, <3>1 DEF Monologue, ReadsResponse, Negotiates, IsResponse
    <3>4. waitRsp'["SOURCE"] = waitRsp["SOURCE"]
      BY <2>5, <2>6, <3>2, <3>3 DEF Awaits, Negotiates
    <3>5. ASSUME NEW j \in DOMAIN net'["SOURCE"], IsResponse(net'["SOURCE"][j])
          PROVE  i = j
      <4>1. j + 1 \in DOMAIN net["SOURCE"] /\ IsResponse(net["SOURCE"][j + 1])
        BY <2>3, <3>5
      <4>2. i + 1 = j + 1
        BY <2>6, <3>1, <3>4, <4>1 DEF Monologue
      <4> QED
        BY <2>3, <4>2
    <3> QED
      BY <3>4, <3>5
  <2>7. ASSUME waitRsp'["SOURCE"] = "SET_PARAM_M4", NEW i \in DOMAIN net'["SOURCE"],
               IsResponse(net'["SOURCE"][i])
        PROVE  mode'["SINK"] = ownMode'["SOURCE"]
    <3>1. waitRsp["SOURCE"] = "SET_PARAM_M4"
      BY <2>6, <2>7 DEF Negotiates
    <3> QED
      BY <1>2, <2>1, <2>3, <2>7, <3>1 DEF Monologue
  <2> QED
    BY <2>4, <2>6, <2>7 DEF Monologue
<1> QED
  BY <1>3, <1>4 DEF Ends

LEMMA MisheardStays ==
  ASSUME IInv, link = Ends, active["SOURCE"], ~paired, NEW e \in Ends, Handler(e), Misheard
  PROVE  Misheard'
<1>1. PICK p : Hearing(e, p)
  BY HandlersHear
<1>2. Tcp
  BY DEF IInv, BusInv, TypeInv, LinkTypes, Tcp
<1>3. 1 \in DOMAIN net[e] /\ net[e][1] = Head(net[e])
  BY HandlerFrame, HeadFacts DEF IInv
<1>4. active' = active
  BY HandlerFrame
<1>5. CASE e = "SOURCE"
  <2>1. ~Readable(e, Head(net[e]))
    BY <1>3, <1>5 DEF Misheard, Readable, Sealing, IInv, TypeInv, EngineTypes, Ends
  <2>2. Garbled(e) /\ Other(e) = "SINK"
    BY <1>5, <2>1, GarbledHandled DEF Other
  <2>3. /\ UNCHANGED <<algorithmId, switching, waitRsp>>
        /\ Tell(e, ErrorUnlessSent(e))
    BY <2>2 DEF Garbled
  <2>4. told'[e] \subseteq told[e] \cup {"OnError"}
    BY <2>3 DEF Tell, ErrorUnlessSent, IInv, TypeInv, EngineTypes
  <2>5. \A i \in DOMAIN net'["SOURCE"] : net'["SOURCE"][i].sealed # algorithmId["SOURCE"]
    BY <1>1, <1>5, HearingNet DEF Misheard
  <2>6. ASSUME NEW i \in DOMAIN net'["SINK"]
        PROVE  IsResponse(net'["SINK"][i])
    <3>1. CASE i \in DOMAIN net["SINK"] /\ net'["SINK"][i] = net["SINK"][i]
      BY <3>1 DEF Misheard
    <3>2. ASSUME NEW m, Utterance(e, m)
          PROVE  IsResponse(m)
      <4>1. m.type # "REQUEST"
        BY <2>1, <3>2 DEF Utterance, ReadsRequest, ReadsResponse
      <4>2. m \in MessageTo(Other(e))
        BY <3>2 DEF Utterance
      <4> QED
        BY <4>1, <4>2 DEF MessageTo, IsResponse
    <3> QED
      BY <1>1, <2>2, <3>1, <3>2, HearingNet
  <2> QED
    BY <1>4, <1>5, <2>3, <2>4, <2>5, <2>6 DEF Misheard
<1>6. CASE e = "SINK"
  <2>1. Head(net[e]).type = "RESPONSE" /\ Other(e) = "SOURCE"
    BY <1>3, <1>6 DEF Misheard, IsResponse, Other
  <2>2. /\ algorithmId'["SOURCE"] = algorithmId["SOURCE"] /\ algorithmId'["SINK"] = algorithmId["SINK"]
        /\ waitRsp'["SOURCE"] = waitRsp["SOURCE"] /\ told'["SOURCE"] = told["SOURCE"]
        /\ switching'["SINK"] = switching["SINK"]
    BY <1>1, <1>6, <2>1 DEF Hearing, EngineStep, ReadsRequest, Ends
  <2>3. ASSUME NEW i \in DOMAIN net'["SOURCE"]
        PROVE  net'["SOURCE"][i].sealed # algorithmId["SOURCE"]
    <3>1. CASE i \in DOMAIN net["SOURCE"] /\ net'["SOURCE"][i] = net["SOURCE"][i]
      BY <3>1 DEF Misheard
    <3>2. ASSUME CanSend(e), Utterance(e, net'["SOURCE"][i])
          PROVE  net'["SOURCE"][i].sealed # algorithmId["SOURCE"]
      <4>1. net'["SOURCE"][i].sealed = (Tcp /\ Sealing(e))
        BY <1>6, <3>2 DEF Utterance
      <4>2. (Tcp /\ Sealing(e)) = algorithmId["SINK"] /\ active["SINK"]
        BY <1>2, <1>6, <3>2 DEF CanSend, Sealing, IInv, TypeInv, EngineTypes
      <4> QED
        BY <4>1, <4>2 DEF Misheard
    <3> QED
      BY <1>1, <2>1, <3>1, <3>2, HearingNet
  <2>4. \A i \in DOMAIN net'["SINK"] : IsResponse(net'["SINK"][i])
    BY <1>1, <1>6, HearingNet DEF Misheard
  <2> QED
    BY <1>4, <2>2, <2>3, <2>4 DEF Misheard
<1> QED
  BY <1>5, <1>6 DEF Ends

LEMMA HandlerTalks ==
  ASSUME IInv, NEW e \in Ends, Handler(e)
  PROVE  TalkInv'
<1>1. link' = link /\ active' = active /\ paired' = paired
  BY HandlerFrame
<1> SUFFICES ASSUME link = Ends, active["SOURCE"]
             PROVE  /\ paired /\ active["SINK"] => Conversation'
                    /\ paired /\ ~active["SINK"] => Monologue'
                    /\ ~paired => Misheard'
  BY <1>1 DEF TalkInv
<1>2. ASSUME paired, active["SINK"]
      PROVE  Conversation'
  <2>1. Talking /\ Conversation
    BY <1>2 DEF Talking, IInv, TalkInv, Ends
  <2> QED
    BY <2>1, ConversationGoesOn
<1>3. ASSUME paired, ~active["SINK"]
      PROVE  Monologue'
  BY <1>3, MonologueGoesOn DEF IInv, TalkInv
<1>4. ASSUME ~paired
      PROVE  Misheard'
  BY <1>4, MisheardStays DEF IInv, TalkInv
<1> QED
  BY <1>2, <1>3, <1>4

-----------------------------------------------------------------------------
(* The conversation and the steps of the session                             *)

LEMMA TailLength ==
  ASSUME NEW S, NEW q \in Seq(S), q # <<>>
  PROVE  /\ Tail(q) \in Seq(S) /\ Len(q) = Len(Tail(q)) + 1
         /\ Tail(q) = <<>> => Len(q) = 1
<1>1. Len(q) \in Nat /\ Len(q) # 0
  OBVIOUS
<1>2. Tail(q) \in Seq(S) /\ Len(Tail(q)) = Len(q) - 1
  BY <1>1
<1>3. Len(<<>>) = 0
  OBVIOUS
<1>4. Tail(q) = <<>> => Len(Tail(q)) = 0
  BY <1>3, Zenon
<1> QED
  BY <1>1, <1>2, <1>4

\* In every row what the sink has said could be its last words.
LEMMA LastWords ==
  ASSUME Talking, Conversation
  PROVE  Monologue
<1>1. CASE Nothing("SOURCE")
  <2>1. DOMAIN net["SOURCE"] = {}
    BY <1>1 DEF Nothing
  <2> QED
    BY <2>1 DEF Monologue
<1>2. ASSUME NEW type, NEW what, NEW sealed, One("SOURCE", type, what, sealed),
             waitRsp["SOURCE"] = "SET_PARAM_M4" => mode["SINK"] = ownMode["SOURCE"]
      PROVE  Monologue
  <2>1. DOMAIN net["SOURCE"] = {1}
    <3>1. net["SOURCE"] \in Seq(MessageTo("SOURCE")) /\ net["SOURCE"] # <<>> /\ Tail(net["SOURCE"]) = <<>>
      BY <1>2 DEF One, Talking, IInv, TypeInv, NetTypes, Ends
    <3>2. Len(net["SOURCE"]) = 1
      BY <3>1, TailLength
    <3> QED
      BY <3>1, <3>2
  <2> QED
    BY <1>2, <2>1 DEF Monologue
<1>3. CASE OptionsAnswered
  <2>1. /\ net["SOURCE"] \in Seq(MessageTo("SOURCE")) /\ net["SOURCE"] # <<>>
        /\ Tail(net["SOURCE"]) # <<>> /\ Tail(Tail(net["SOURCE"])) = <<>>
        /\ Head(net["SOURCE"]).type = "RESPONSE"
    BY <1>3 DEF OptionsAnswered, Two, Says, Talking, IInv, TypeInv, NetTypes, Ends
  <2>2. Len(net["SOURCE"]) = 2
    <3>1. /\ Tail(net["SOURCE"]) \in Seq(MessageTo("SOURCE"))
          /\ Len(net["SOURCE"]) = Len(Tail(net["SOURCE"])) + 1
      BY <2>1, TailLength
    <3>2. Len(Tail(net["SOURCE"])) = 1
      BY <2>1, <3>1, TailLength
    <3> QED
      BY <2>1, <3>1, <3>2
  <2>3. DOMAIN net["SOURCE"] = {1, 2} /\ net["SOURCE"][1].type = "RESPONSE"
    BY <2>1, <2>2
  <2>4. waitRsp["SOURCE"] \notin Negotiates
    BY <1>3 DEF OptionsAnswered, Negotiates
  <2> QED
    BY <2>3, <2>4 DEF Monologue, Negotiates
<1>4. CASE Negotiated
  <2>1. waitRsp["SOURCE"] \notin Negotiates
    BY <1>4 DEF Negotiated, Negotiates
  <2> QED
    BY <1>4, <2>1 DEF Negotiated, OverWith, Monologue, Negotiates, Ends
<1>5. CASE \/ AnnouncedToSource \/ CipherAnswered \/ OfferedToSource
           \/ ParametersAnswered \/ SettingAnswered
  <2>1. waitRsp["SOURCE"] = "SET_PARAM_M4" => mode["SINK"] = ownMode["SOURCE"]
    BY <1>5 DEF AnnouncedToSource, CipherAnswered, OfferedToSource, ParametersAnswered,
                SettingAnswered, Negotiates
  <2> QED
    BY <1>2, <1>5, <2>1
       DEF AnnouncedToSource, CipherAnswered, OfferedToSource, ParametersAnswered,
           SettingAnswered
<1>6. \/ Nothing("SOURCE") \/ OptionsAnswered \/ Negotiated
      \/ AnnouncedToSource \/ CipherAnswered \/ OfferedToSource
      \/ ParametersAnswered \/ SettingAnswered
  BY DEF Conversation, Negotiation, Unopened, AnnounceAnswered, AnnouncedToSink, OfferedToSink,
         OfferAnswered, ParametersAsked, ParametersSet
<1> QED
  BY <1>1, <1>3, <1>4, <1>5, <1>6

LEMMA SpeakingMonologue ==
  ASSUME IInv, NEW e \in Ends, NEW m, Speaking(e, m), Monologue
  PROVE  Monologue'
<1>1. ownMode' = ownMode /\ mode' = mode
  BY DEF Speaking, linkVars
<1>2. waitRsp'["SOURCE"] = waitRsp["SOURCE"] \/ waitRsp'["SOURCE"] \notin Negotiates
  BY DEF Speaking, Negotiates, Ends
<1>3. ASSUME NEW i \in DOMAIN net'["SOURCE"]
      PROVE  \/ i \in DOMAIN net["SOURCE"] /\ net'["SOURCE"][i] = net["SOURCE"][i]
             \/ /\ net'["SOURCE"][i].type = "REQUEST" /\ net'["SOURCE"][i].what # "OPTIONS"
                /\ ~IsResponse(net'["SOURCE"][i])
  <2>1. m.type = "REQUEST" /\ m.what # "OPTIONS" /\ ~IsResponse(m)
    BY DEF Speaking, IsResponse
  <2> QED
    BY <2>1, SpokenMessages DEF Ends
<1>4. \A i, j \in DOMAIN net'["SOURCE"] :
        i < j /\ net'["SOURCE"][i].type = "REQUEST" /\ net'["SOURCE"][i].what = "OPTIONS"
          => ~IsResponse(net'["SOURCE"][j])
  BY <1>3 DEF Monologue
<1>5. waitRsp'["SOURCE"] \in Negotiates =>
        \A i, j \in DOMAIN net'["SOURCE"] :
          IsResponse(net'["SOURCE"][i]) /\ IsResponse(net'["SOURCE"][j]) => i = j
  BY <1>2, <1>3 DEF Monologue
<1>6. waitRsp'["SOURCE"] = "SET_PARAM_M4" =>
        \A i \in DOMAIN net'["SOURCE"] :
          IsResponse(net'["SOURCE"][i]) => mode["SINK"] = ownMode["SOURCE"]
  BY <1>2, <1>3 DEF Monologue, Negotiates
<1> QED
  BY <1>1, <1>4, <1>5, <1>6 DEF Monologue

LEMMA SpeakingNegotiated ==
  ASSUME Talking, NEW e \in Ends, NEW m, Speaking(e, m), Negotiated
  PROVE  Negotiated'
<1>1. /\ Tcp' = Tcp /\ algorithmId' = algorithmId /\ switching' = switching
      /\ readying' = readying
  BY DEF Speaking, linkVars, Tcp
<1>2. Sealing(e) = Tcp
  BY DEF Talking, Sealing, Negotiated, Settled, Agreed, Tcp, Ends
<1>3. ASSUME NEW d \in Ends, NEW i \in DOMAIN net'[d]
      PROVE  /\ net'[d][i].sealed = Tcp
             /\ net'[d][i].type = "REQUEST" => net'[d][i].what \notin OverWith(d)
  <2>1. m.sealed = Tcp /\ m.what \notin OverWith(d)
    BY <1>2 DEF Speaking, OverWith, Tcp
  <2>2. CASE i \in DOMAIN net[d] /\ net'[d][i] = net[d][i]
    BY <2>2 DEF Negotiated
  <2>3. CASE net'[d][i] = m
    BY <2>1, <2>3
  <2> QED
    BY <2>2, <2>3, SpokenMessages DEF Talking
<1>4. waitRsp'["SOURCE"] \in {"NONE", "SET_PARAM_M5"} /\ waitRsp'["SINK"] # "ANNOUNCE"
  BY DEF Speaking, Negotiated, Settled, Ends
<1> QED
  BY <1>1, <1>3, <1>4 DEF Negotiated, Settled, Agreed

LEMMA SpeakingTalks ==
  ASSUME IInv, NEW e \in Ends, NEW m, Speaking(e, m)
  PROVE  TalkInv'
<1>1. link' = link /\ paired' = paired /\ open' = open
                   /\ \A d \in Ends : active'[d] => active[d]
  BY DEF Speaking, linkVars
<1> SUFFICES ASSUME link = Ends, active'["SOURCE"]
             PROVE  /\ paired /\ active'["SINK"] => Conversation'
                    /\ paired /\ ~active'["SINK"] => Monologue'
                    /\ ~paired => Misheard'
  BY <1>1 DEF TalkInv
<1>2. active["SOURCE"] /\ Ends = {"SOURCE", "SINK"}
  BY <1>1 DEF Ends
<1>3. e = "SOURCE" => IsConnected(e)
  BY DEF Speaking
<1>4. ASSUME paired, active'["SINK"]
      PROVE  Conversation'
  <2>1. Talking /\ Conversation
    BY <1>1, <1>2, <1>4 DEF Talking, IInv, TalkInv
  <2>2. IsConnected(e)
    BY <1>2, <1>4 DEF Speaking
  <2>3. Negotiated /\ open["SINK"]
    BY <2>1, <2>2 DEF Conversation, Unconnected, IsConnected
  <2> QED
    BY <1>1, <2>1, <2>3, SpeakingNegotiated DEF Conversation
<1>5. ASSUME paired, ~active'["SINK"]
      PROVE  Monologue'
  <2>1. Monologue
    BY <1>2, <1>5, LastWords DEF Talking, IInv, TalkInv
  <2> QED
    BY <2>1, SpeakingMonologue
<1>6. ASSUME ~paired
      PROVE  Misheard'
  <2>1. Misheard
    BY <1>2, <1>6 DEF IInv, TalkInv
  <2>2. e = "SINK" /\ Other(e) = "SOURCE" /\ active[e]
    BY <1>2, <1>3, <2>1 DEF Misheard, IsConnected, Other, Speaking
  <2>3. Tcp /\ m.sealed = algorithmId["SINK"] /\ algorithmId["SINK"] # algorithmId["SOURCE"]
    BY <1>6, <2>1, <2>2
       DEF Speaking, Sealing, Misheard, Tcp, IInv, BusInv, TypeInv, LinkTypes, EngineTypes
  <2>4. ASSUME NEW i \in DOMAIN net'["SOURCE"]
        PROVE  net'["SOURCE"][i].sealed # algorithmId["SOURCE"]
    <3>1. \/ i \in DOMAIN net["SOURCE"] /\ net'["SOURCE"][i] = net["SOURCE"][i]
          \/ net'["SOURCE"][i] = m
      BY <1>2, SpokenMessages
    <3> QED
      BY <2>1, <2>3, <3>1 DEF Misheard
  <2>5. /\ net'["SINK"] = net["SINK"] /\ algorithmId' = algorithmId /\ switching' = switching
        /\ told'["SOURCE"] = told["SOURCE"] /\ waitRsp'["SOURCE"] = waitRsp["SOURCE"]
    BY <1>2, <2>2, SpeakingNet DEF Speaking
  <2> QED
    BY <1>1, <2>1, <2>3, <2>4, <2>5 DEF Misheard
<1> QED
  BY <1>4, <1>5, <1>6

\* Nothing a conversation depends on changes.
LEMMA ConversationFrame ==
  ASSUME Conversation, open'["SINK"] = open["SINK"], ownMode' = ownMode, linkType' = linkType,
         UNCHANGED <<net, waitRsp, algorithmId, switching, readying, told, mode>>
  PROVE  Conversation'
<1>1. Tcp' = Tcp /\ (Unconnected => Unconnected') /\ (Settled => Settled')
  BY DEF Tcp, Unconnected, Settled, Agreed
<1>2. (Unopened => Unopened') /\ (Negotiated => Negotiated')
  BY <1>1 DEF Unopened, Negotiated, Nothing, Agreed
<1>3. /\ AnnouncedToSource => AnnouncedToSource'
      /\ AnnounceAnswered => AnnounceAnswered'
      /\ AnnouncedToSink => AnnouncedToSink'
  BY <1>1 DEF AnnouncedToSource, AnnounceAnswered, AnnouncedToSink, SinkAnnounces, Agreed,
              Nothing, One, Two, Says
<1>4. (CipherAnswered => CipherAnswered') /\ (OfferedToSink => OfferedToSink')
  BY <1>1 DEF CipherAnswered, OfferedToSink, Nothing, One, Says
<1>5. /\ OptionsAnswered => OptionsAnswered'
      /\ OfferedToSource => OfferedToSource'
      /\ OfferAnswered => OfferAnswered'
  BY <1>1 DEF OptionsAnswered, OfferedToSource, OfferAnswered, Nothing, One, Two, Says
<1>6. (ParametersAsked => ParametersAsked') /\ (ParametersAnswered => ParametersAnswered')
  BY <1>1 DEF ParametersAsked, ParametersAnswered, Nothing, One, Says
<1>7. (ParametersSet => ParametersSet') /\ (SettingAnswered => SettingAnswered')
  BY <1>1 DEF ParametersSet, SettingAnswered, Nothing, One, Says
<1> QED
  BY <1>1, <1>2, <1>3, <1>4, <1>5, <1>6, <1>7 DEF Conversation, Negotiation

LEMMA AddChannelTalks ==
  ASSUME IInv, NEW e \in Ends, AddChannel(e)
  PROVE  TalkInv'
<1>1. /\ UNCHANGED <<active, algorithmId, switching, waitRsp, mode, param>>
      /\ link' = link /\ paired' = paired /\ linkType' = linkType /\ ownMode' = ownMode
      /\ ~open[e] /\ open' = [open EXCEPT ![e] = TRUE]
      /\ \/ e = "SOURCE" /\ readying' = readying /\ told' = told /\ net' = net
         \/ /\ e = "SINK" /\ readying' = [readying EXCEPT ![e] = TRUE]
            /\ Tell(e, IF active[e] THEN {} ELSE {"OnError"})
  BY DEF AddChannel, linkVars
<1> SUFFICES ASSUME link = Ends, active["SOURCE"]
             PROVE  /\ paired /\ active["SINK"] => Conversation'
                    /\ paired /\ ~active["SINK"] => Monologue'
                    /\ ~paired => Misheard'
  BY <1>1 DEF TalkInv
<1>2. "SOURCE" \in Ends /\ "SINK" \in Ends
  BY DEF Ends
<1>3. ASSUME paired, active["SINK"]
      PROVE  Conversation'
  <2>1. Talking /\ Conversation
    BY <1>3 DEF Talking, IInv, TalkInv, Ends
  <2>2. CASE e = "SOURCE"
    BY <1>1, <2>1, <2>2, ConversationFrame DEF IInv, TypeInv, EngineTypes, Ends
  <2>3. CASE e = "SINK"
    <3>1. Unconnected /\ Unopened
      BY <1>1, <2>1, <2>3 DEF Conversation
    <3>2. Unconnected'
      BY <1>1, <1>3, <2>1, <2>3, <3>1, ToldNothing
    <3>3. OpeningRequest.sealed = (Tcp /\ algorithmId["SINK"])
      BY <1>3, OpeningFacts DEF Sealing, IInv, TypeInv, EngineTypes
    <3>4. net'["SOURCE"] = Append(<<>>, OpeningRequest) /\ net'["SINK"] = <<>>
      BY <1>2, <1>3, <2>3, <3>1, AddChannelNet DEF Unopened, Nothing
    <3>5. /\ net'["SOURCE"] # <<>> /\ Head(net'["SOURCE"]) = OpeningRequest
          /\ Tail(net'["SOURCE"]) = <<>>
      BY <3>4, OpeningFacts
    <3>6. open'["SINK"] /\ readying'["SINK"] /\ Tcp' = Tcp
      BY <1>1, <1>2, <2>3 DEF IInv, TypeInv, EngineTypes, Tcp
    <3>7. ASSUME Tcp
          PROVE  AnnouncedToSource'
      <4>1. Says(OpeningRequest, "REQUEST", "ANNOUNCE", algorithmId["SOURCE"])
        <5>1. OpeningRequest.sealed = algorithmId["SOURCE"]
          BY <1>2, <3>1, <3>3, <3>7 DEF Unopened, Agreed, IInv, TypeInv, EngineTypes
        <5>2. OpeningRequest.type = "REQUEST" /\ OpeningRequest.what = "ANNOUNCE"
          BY <3>7, OpeningFacts DEF Tcp
        <5> QED
          BY <5>1, <5>2 DEF Says
      <4> QED
        BY <1>1, <3>1, <3>4, <3>5, <3>6, <3>7, <4>1
           DEF AnnouncedToSource, SinkAnnounces, Unopened, Agreed, One, Nothing
    <3>8. ASSUME ~Tcp
          PROVE  OfferedToSource'
      <4>1. linkType = "SOFT_BUS" /\ ~algorithmId["SOURCE"] /\ ~algorithmId["SINK"]
            /\ waitRsp["SINK"] # "ANNOUNCE"
        BY <1>2, <3>8 DEF Tcp, IInv, TypeInv, LinkTypes, BusInv
      <4>2. Says(OpeningRequest, "REQUEST", "OPTIONS", Tcp)
        BY <3>3, <3>8, <4>1, OpeningFacts DEF Says, Tcp
      <4>3. Agreed(Tcp)'
        BY <1>1, <1>2, <3>1, <3>6, <3>8, <4>1
        DEF Agreed, Unopened, IInv, TypeInv, EngineTypes, Tcp
      <4> QED
        BY <1>1, <3>1, <3>4, <3>5, <3>6, <3>8, <4>1, <4>2, <4>3
           DEF OfferedToSource, Settled, Unopened, One, Nothing
    <3> QED
      BY <3>2, <3>6, <3>7, <3>8 DEF Conversation, Negotiation
  <2> QED
    BY <2>2, <2>3 DEF Ends
<1>4. ASSUME paired, ~active["SINK"]
      PROVE  Monologue'
  <2>1. net'["SOURCE"] = net["SOURCE"]
    BY <1>4, AddChannelNet
  <2> QED
    BY <1>1, <1>4, <2>1 DEF Monologue, IInv, TalkInv
<1>5. ASSUME ~paired
      PROVE  Misheard'
  <2>1. Misheard /\ Tcp
    BY <1>5 DEF IInv, TalkInv, BusInv, TypeInv, LinkTypes, Tcp
  <2>2. told'["SOURCE"] = told["SOURCE"]
    <3>1. CASE e = "SINK"
      BY <1>1, <1>2, <3>1 DEF Tell, IInv, TypeInv, EngineTypes
    <3> QED
      BY <1>1, <3>1
  <2>3. net'["SINK"] = net["SINK"]
    BY AddChannelNet
  <2>4. ASSUME NEW i \in DOMAIN net'["SOURCE"]
        PROVE  net'["SOURCE"][i].sealed # algorithmId["SOURCE"]
    <3>1. CASE i \in DOMAIN net["SOURCE"] /\ net'["SOURCE"][i] = net["SOURCE"][i]
      BY <2>1, <3>1 DEF Misheard
    <3>2. ASSUME e = "SINK", active[e], net'["SOURCE"][i] = OpeningRequest
          PROVE  net'["SOURCE"][i].sealed # algorithmId["SOURCE"]
      <4>1. OpeningRequest.sealed = algorithmId["SINK"]
        BY <1>2, <2>1, <3>2, OpeningFacts DEF Sealing, IInv, TypeInv, EngineTypes
      <4> QED
        BY <2>1, <3>2, <4>1 DEF Misheard
    <3> QED
      BY <3>1, <3>2, AddChannelNet
  <2> QED
    BY <1>1, <2>1, <2>2, <2>3, <2>4 DEF Misheard
<1> QED
  BY <1>3, <1>4, <1>5

LEMMA PeerReadyTalks ==
  ASSUME IInv, PeerReady
  PROVE  TalkInv'
<1>1. /\ UNCHANGED <<active, open, algorithmId, switching, mode, told, net>>
      /\ link' = link /\ paired' = paired /\ linkType' = linkType /\ ownMode' = ownMode
      /\ readying["SINK"] /\ ~readying'["SINK"]
      /\ waitRsp'["SOURCE"] = waitRsp["SOURCE"]
      /\ waitRsp'["SINK"] = IF linkType = "SOFT_BUS" THEN "OPT_M2" ELSE "ANNOUNCE"
  BY DEF PeerReady, Await, Opening, linkVars, IInv, TypeInv, EngineTypes, Ends
<1> SUFFICES ASSUME link = Ends, active["SOURCE"]
             PROVE  /\ paired /\ active["SINK"] => Conversation'
                    /\ paired /\ ~active["SINK"] => Monologue'
                    /\ ~paired => Misheard'
  BY <1>1 DEF TalkInv
<1>2. ASSUME Conversation
      PROVE  Conversation'
  <2>1. Tcp' = Tcp /\ (Tcp => waitRsp'["SINK"] = "ANNOUNCE") /\ (~Tcp => waitRsp'["SINK"] = "OPT_M2")
    BY <1>1 DEF Tcp, IInv, TypeInv, LinkTypes
  <2>2. /\ Unconnected' <=> Unconnected
        /\ \A b \in BOOLEAN : Agreed(b)' <=> Agreed(b)
    BY <1>1 DEF Unconnected, Agreed
  <2>3. Settled => Settled'
    BY <1>1, <2>1 DEF Settled, Agreed
  <2>4. ~Unopened /\ ~AnnouncedToSink /\ ~CipherAnswered /\ ~OfferedToSink
    BY <1>1 DEF Unopened, AnnouncedToSink, CipherAnswered, OfferedToSink
  <2>5. AnnouncedToSource => AnnouncedToSource'
    BY <1>1, <2>1 DEF AnnouncedToSource, SinkAnnounces, Agreed, One, Nothing, Says
  <2>6. AnnounceAnswered => AnnounceAnswered'
    BY <1>1, <2>1 DEF AnnounceAnswered, SinkAnnounces, Agreed, Two, Nothing, Says
  <2>7. OptionsAnswered => OptionsAnswered'
    BY <1>1, <2>1, <2>3 DEF OptionsAnswered, Two, Nothing, Says
  <2>8. OfferedToSource => OfferedToSource'
    BY <1>1, <2>1, <2>3 DEF OfferedToSource, One, Nothing, Says
  <2>9. OfferAnswered => OfferAnswered'
    BY <1>1, <2>1, <2>3 DEF OfferAnswered, Two, Nothing, Says
  <2>10. (ParametersAsked => ParametersAsked') /\ (ParametersAnswered => ParametersAnswered')
    BY <1>1, <2>1, <2>3 DEF ParametersAsked, ParametersAnswered, One, Nothing, Says
  <2>11. (ParametersSet => ParametersSet') /\ (SettingAnswered => SettingAnswered')
    BY <1>1, <2>1, <2>3 DEF ParametersSet, SettingAnswered, One, Nothing, Says
  <2>12. Negotiated => Negotiated'
    BY <1>1, <2>1, <2>3 DEF Negotiated
  <2> QED
    BY <1>1, <1>2, <2>2, <2>4, <2>5, <2>6, <2>7, <2>8, <2>9, <2>10, <2>11, <2>12
       DEF Conversation, Negotiation
<1>3. Monologue => Monologue'
  BY <1>1 DEF Monologue
<1>4. Misheard => Misheard'
  BY <1>1 DEF Misheard
<1> QED
  BY <1>2, <1>3, <1>4 DEF IInv, TalkInv

LEMMA SinkSwitchesTalks ==
  ASSUME IInv, SinkSwitches
  PROVE  TalkInv'
<1>1. /\ UNCHANGED <<active, open, readying, waitRsp, mode, told, net>>
      /\ link' = link /\ paired' = paired /\ linkType' = linkType /\ ownMode' = ownMode
      /\ switching["SINK"] /\ ~switching'["SINK"]
      /\ algorithmId'["SOURCE"] = algorithmId["SOURCE"] /\ algorithmId'["SINK"]
      /\ Tcp' = Tcp
  BY DEF SinkSwitches, linkVars, Tcp, IInv, TypeInv, EngineTypes, Ends
<1> SUFFICES ASSUME link = Ends, active["SOURCE"]
             PROVE  /\ paired /\ active["SINK"] => Conversation'
                    /\ paired /\ ~active["SINK"] => Monologue'
                    /\ ~paired => Misheard'
  BY <1>1 DEF TalkInv
<1>2. ASSUME Conversation
      PROVE  Conversation'
  <2>1. ~Agreed(TRUE) /\ ~Agreed(FALSE) /\ ~Agreed(Tcp) /\ ~Agreed(algorithmId["SOURCE"])
    BY <1>1 DEF Agreed
  <2>2. open["SINK"] /\ Unconnected /\ (CipherAnswered \/ OfferedToSink)
    BY <1>2, <2>1
    DEF Conversation, Unopened, Negotiation, Negotiated, Settled, SinkAnnounces,
        AnnouncedToSource,
         AnnounceAnswered, AnnouncedToSink, CipherAnswered, OfferedToSink, OptionsAnswered,
         OfferedToSource, OfferAnswered, ParametersAsked, ParametersAnswered, ParametersSet,
         SettingAnswered
  <2>3. CipherAnswered => CipherAnswered'
    BY <1>1 DEF CipherAnswered, One, Nothing, Says
  <2>4. OfferedToSink => OfferedToSink'
    BY <1>1 DEF OfferedToSink, One, Nothing, Says
  <2> QED
    BY <1>1, <2>2, <2>3, <2>4 DEF Conversation, Negotiation, Unconnected
<1>3. Monologue => Monologue'
  BY <1>1 DEF Monologue
<1>4. ~Misheard
  BY <1>1 DEF Misheard
<1> QED
  BY <1>2, <1>3, <1>4 DEF IInv, TalkInv

LEMMA ConnectTalks ==
  ASSUME IInv, Connect
  PROVE  TalkInv'
<1>1. /\ UNCHANGED <<active, open, algorithmId, switching, readying, waitRsp, told, net>>
      /\ link = {} /\ \A e \in Ends : active[e] /\ ~switching[e] /\ ~readying[e]
      /\ paired' = (algorithmId["SOURCE"] = algorithmId["SINK"])
  BY DEF Connect, engineVars
<1>2. "SOURCE" \in Ends /\ "SINK" \in Ends
  BY DEF Ends
<1>3. /\ \A e \in Ends : Nothing(e) /\ ~open[e]
      /\ Unconnected /\ waitRsp["SOURCE"] \notin Negotiates
  BY <1>1, <1>2 DEF IInv, LinkInv, WaitInv, Nothing, Unconnected
<1>4. ASSUME paired'
      PROVE  Conversation'
  <2>1. Unopened'
    BY <1>1, <1>2, <1>3, <1>4 DEF Unopened, Agreed, Nothing
  <2> QED
    BY <1>1, <1>3, <2>1 DEF Conversation, Unconnected
<1>5. ASSUME ~paired'
      PROVE  Misheard'
  <2>1. \A e \in Ends : DOMAIN net'[e] = {}
    BY <1>1, <1>3 DEF Nothing
  <2> QED
    BY <1>1, <1>2, <1>3, <1>5, <2>1 DEF Misheard, Unconnected
<1> QED
  BY <1>1, <1>2, <1>4, <1>5 DEF TalkInv

\* An end that starts, renews or closes is not, or no longer, on the channel.
LEMMA AwayTalks ==
  ASSUME IInv, NEW e \in Ends, Start(e) \/ NewSession(e) \/ DestroyAllChannels(e)
  PROVE  TalkInv'
<1>1. e \notin link'
  BY DEF Start, NewSession, DestroyAllChannels, linkVars
<1> QED
  BY <1>1 DEF TalkInv

-----------------------------------------------------------------------------
(* The inductive invariant, and the theorems                                 *)

LEMMA InitIInv ==
  ASSUME Init
  PROVE  IInv
<1> USE DEF Init
<1>1. "SOURCE" \in Ends /\ "SINK" \in Ends
  BY DEF Ends
<1>2. TypeInv
  <2>1. \A e \in Ends : <<>> \in Seq(MessageTo(e))
    OBVIOUS
  <2>2. NetTypes
    BY <2>1 DEF NetTypes
  <2> QED
    BY <2>2, RtspBoundsAssumption DEF TypeInv, EngineTypes, LinkTypes, WaitResponse
<1>3. LinkInv /\ WaitInv
  BY <1>1 DEF LinkInv, WaitInv, Negotiates
<1>4. BusInv /\ ModeInv
  BY <1>1 DEF BusInv, ModeInv, ModesAgree
<1>5. TalkInv
  BY <1>1 DEF TalkInv
<1> QED
  BY <1>2, <1>3, <1>4, <1>5 DEF IInv

LEMMA HandlerKeepsIInv ==
  ASSUME IInv, NEW e \in Ends, Handler(e)
  PROVE  IInv'
<1>1. PICK p : Hearing(e, p)
  BY HandlersHear
<1> QED
  BY <1>1, HearingTypes, HearingLink, HearingBus, HearingWait, HearingMode, HandlerTalks
  DEF IInv

LEMMA SpeakingKeepsIInv ==
  ASSUME IInv, NEW e \in Ends, NEW m, Speaking(e, m)
  PROVE  IInv'
  BY SpeakingKeeps, SpeakingTalks DEF IInv

LEMMA StepIInv ==
  ASSUME IInv, Next
  PROVE  IInv'
<1>1. "SINK" \in Ends /\ TypeInv
  BY DEF Ends, IInv
<1>2. CASE Connect
  BY <1>2, ConnectKeeps, ConnectTalks DEF IInv
<1>3. CASE SendCastRenderReadyOption
  BY <1>1, <1>3, RenderReadySpoken, SpeakingKeepsIInv
<1>4. ASSUME NEW e \in Ends, ChannelNext(e)
      PROVE  IInv'
  <2>1. CASE Handler(e)
    BY <2>1, HandlerKeepsIInv
  <2>2. CASE AddChannel(e)
    BY <2>2, AddChannelKeeps, AddChannelTalks DEF IInv
  <2>3. CASE SinkSwitches
    BY <2>3, SinkSwitchesKeeps, SinkSwitchesTalks DEF IInv
  <2>4. CASE PeerReady
    BY <2>4, PeerReadyKeeps, PeerReadyTalks DEF IInv
  <2> QED
    BY <1>4, <2>1, <2>2, <2>3, <2>4 DEF ChannelNext, Handler, Announces
<1>5. ASSUME NEW e \in Ends, SessionNext(e)
      PROVE  IInv'
  <2>1. CASE Start(e)
    BY <2>1, StartKeeps, AwayTalks DEF IInv
  <2>2. CASE NewSession(e)
    BY <2>2, NewSessionKeeps, AwayTalks DEF IInv
  <2>3. CASE SendEventChange(e)
    BY <1>1, <2>3, EventSpoken, SpeakingKeepsIInv
  <2>4. CASE Action(e)
    BY <1>1, <2>4, ActionSpoken, SpeakingKeepsIInv
  <2>5. CASE ActionTearDown(e)
    BY <1>1, <2>5, TearDownSpoken, SpeakingKeepsIInv
  <2>6. CASE DestroyAllChannels(e)
    BY <2>6, DestroyKeeps, AwayTalks DEF IInv
  <2> QED
    BY <1>5, <2>1, <2>2, <2>3, <2>4, <2>5, <2>6 DEF SessionNext
<1> QED
  BY <1>2, <1>3, <1>4, <1>5 DEF Next

LEMMA StutterIInv ==
  ASSUME IInv, UNCHANGED vars
  PROVE  IInv'
<1>1. TypeInv'
  BY DEF vars, engineVars, linkVars, IInv, TypeInv, EngineTypes, NetTypes, LinkTypes
<1>2. LinkInv' /\ BusInv'
  BY DEF vars, engineVars, linkVars, IInv, LinkInv, BusInv
<1>3. WaitInv' /\ ModeInv'
  BY DEF vars, engineVars, linkVars, IInv, WaitInv, ModeInv, ModesAgree
<1>4. Conversation => Conversation'
  BY ConversationFrame DEF vars, engineVars, linkVars
<1>5. (Monologue => Monologue') /\ (Misheard => Misheard')
  BY DEF vars, engineVars, linkVars, Monologue, Misheard
<1>6. TalkInv'
  BY <1>4, <1>5 DEF vars, engineVars, linkVars, IInv, TalkInv
<1> QED
  BY <1>1, <1>2, <1>3, <1>6 DEF IInv

LEMMA InvariantIInv == Spec => []IInv
<1>1. Init => IInv
  BY InitIInv
<1>2. IInv /\ [Next]_vars => IInv'
  BY StepIInv, StutterIInv
<1> QED
  BY <1>1, <1>2, PTL DEF Spec

\* The engines, the channel and what is on its way keep their types.
THEOREM RtspTypeCorrect == Spec => []TypeOK
<1>1. IInv => TypeOK
  BY DEF IInv, TypeInv, EngineTypes, NetTypes, LinkTypes, TypeOK
<1> QED
  BY <1>1, InvariantIInv, PTL

\* A sink is asked to play a stream (ProcessTriggerMethod) only for a source
\* whose session projects in stream mode, whatever its own parameters are, and
\* whatever was negotiated over an earlier connection.
THEOREM ModesAgreed == Spec => []ModesAgree
<1>1. IInv => ModesAgree
  BY DEF IInv, ModeInv
<1> QED
  BY <1>1, InvariantIInv, PTL

\* The conversation leaves no doubt about the cipher of what an end reads.
LEMMA CiphersAgreeInRow ==
  ASSUME Talking, Conversation, NEW e \in Ends, Reading(e)
  PROVE  Readable(e, Head(net[e]))
<1>1. net[e] # <<>> /\ 1 \in DOMAIN net[e] /\ net[e][1] = Head(net[e])
  BY HeadFacts DEF Talking, IInv, Reading
<1>2. Sealing(e) = algorithmId[e]
  BY DEF Talking, IInv, TypeInv, EngineTypes, Sealing
<1>3. CASE Unopened
  BY <1>1, <1>3 DEF Unopened, Nothing, Ends
<1>4. CASE Negotiated
  BY <1>1, <1>2, <1>4 DEF Negotiated, Settled, Agreed, Readable, Ends
<1>5. CASE e = "SOURCE" /\ Negotiation
  BY <1>1, <1>2, <1>5
     DEF Negotiation, Nothing, One, Two, Says, Settled, Agreed, Readable, AnnouncedToSource,
         AnnounceAnswered, AnnouncedToSink, CipherAnswered, OfferedToSink, OptionsAnswered,
         OfferedToSource, OfferAnswered, ParametersAsked, ParametersAnswered, ParametersSet,
         SettingAnswered
<1>6. CASE e = "SINK" /\ Negotiation
  <2>1. ~switching["SINK"] /\ algorithmId["SINK"] \in BOOLEAN
    BY <1>6 DEF Reading, Talking, IInv, TypeInv, EngineTypes
  <2> QED
    BY <1>1, <1>2, <1>6, <2>1
       DEF Negotiation, Nothing, One, Two, Says, Settled, Agreed, Readable,
           AnnouncedToSource,
           AnnounceAnswered, AnnouncedToSink, CipherAnswered, OfferedToSink, OptionsAnswered,
           OfferedToSource, OfferAnswered, ParametersAsked, ParametersAnswered, ParametersSet,
           SettingAnswered
<1> QED
  BY <1>3, <1>4, <1>5, <1>6 DEF Conversation, Ends

\* The ends change the cipher at different moments of the ANNOUNCE exchange,
\* and an end never reads a message with another cipher than it was sent with.
THEOREM CiphersAgreed == Spec => []CiphersAgree
<1>1. ASSUME IInv
      PROVE  CiphersAgree
  <2>1. ASSUME Together
        PROVE  Talking /\ Conversation
    BY <1>1, <2>1 DEF Together, Talking, IInv, TalkInv, Ends
  <2> QED
    BY <2>1, CiphersAgreeInRow DEF CiphersAgree
<1> QED
  BY <1>1, InvariantIInv, PTL

LEMMA AnsweredInRow ==
  ASSUME Talking, Conversation, NEW e \in Ends
  PROVE  /\ ReadsResponse(e, "GET_PARAM_M3") => Head(net[e]).what = "GET_PARAM"
         /\ ReadsResponse(e, "SET_PARAM_M4") => Head(net[e]).what = "SET_PARAM"
         /\ ReadsResponse(e, "ANNOUNCE")     => Head(net[e]).what = "ANNOUNCE"
<1> SUFFICES ASSUME NEW response \in {"GET_PARAM_M3", "SET_PARAM_M4", "ANNOUNCE"},
                    ReadsResponse(e, response)
             PROVE  /\ response = "GET_PARAM_M3" => Head(net[e]).what = "GET_PARAM"
                    /\ response = "SET_PARAM_M4" => Head(net[e]).what = "SET_PARAM"
                    /\ response = "ANNOUNCE"     => Head(net[e]).what = "ANNOUNCE"
  OBVIOUS
<1>1. /\ net[e] # <<>> /\ Head(net[e]).type = "RESPONSE" /\ waitRsp[e] = response
      /\ Readable(e, Head(net[e])) /\ Reading(e)
  BY DEF ReadsResponse, Reading
<1>2. CASE Unopened \/ Negotiated
  BY <1>1, <1>2
  DEF Unopened, Negotiated, Nothing, Settled, Ends, Talking, IInv, WaitInv, Negotiates
<1>3. CASE Negotiation /\ e = "SOURCE"
  BY <1>1, <1>3
     DEF Negotiation, Negotiates, Nothing, One, Two, Says, AnnouncedToSource,
         AnnounceAnswered,
         AnnouncedToSink, CipherAnswered, OfferedToSink, OptionsAnswered, OfferedToSource,
         OfferAnswered, ParametersAsked, ParametersAnswered, ParametersSet, SettingAnswered
<1>4. CASE Negotiation /\ e = "SINK"
  <2>1. response = "ANNOUNCE"
    BY <1>1, <1>4 DEF Talking, IInv, WaitInv
  <2> QED
    BY <1>1, <1>4, <2>1
       DEF Negotiation, Settled, Nothing, One, Two, Says, AnnouncedToSource,
           AnnounceAnswered,
           AnnouncedToSink, CipherAnswered, OfferedToSink, OptionsAnswered, OfferedToSource,
           OfferAnswered, ParametersAsked, ParametersAnswered, ParametersSet, SettingAnswered
<1> QED
  BY <1>2, <1>3, <1>4 DEF Conversation, Ends

\* OnResponse tells responses apart by waitRsp_ alone: during the negotiation
\* it never takes one for the answer to another request.
THEOREM AnswersMatched == Spec => []AwaitedIsAnswered
<1>1. ASSUME IInv
      PROVE  AwaitedIsAnswered
  <2>1. ASSUME Together
        PROVE  Talking /\ Conversation
    BY <1>1, <2>1 DEF Together, Talking, IInv, TalkInv, Ends
  <2> QED
    BY <2>1, AnsweredInRow DEF AwaitedIsAnswered
<1> QED
  BY <1>1, InvariantIInv, PTL
=============================================================================
