-------------------------------- MODULE Rtsp --------------------------------
(***************************************************************************)
(* The RTSP engines of a source and of a sink, RtspController and          *)
(* RtspChannelManager, and the channel between them.  Over TCP the ends    *)
(* first agree on a cipher (ANNOUNCE both ways) and switch to it at        *)
(* different moments; then capabilities are exchanged (OPTIONS, GET_PARAM, *)
(* SET_PARAM), and the source triggers SETUP.  The engines outlive a       *)
(* connection: the awaited response and the cipher stay as they were when  *)
(* the session starts them again.                                          *)
(*                                                                         *)
(* Each end has one thread that reads its channel, a handler at a time,    *)
(* and the session's looper, which sends and stops between any two         *)
(* handlers.  What a session does with a callback is CastSession's matter; *)
(* here it may stop the engine whenever it likes.                          *)
(***************************************************************************)
EXTENDS Integers, Sequences

CONSTANTS
    MaxConnections, \* bound: channels opened, one after the other
    MaxWaiting      \* bound: messages unread when a session sends one more

Ends == {"SOURCE", "SINK"}
Modes == {"MIRROR", "STREAM"}
Other(e) == IF e = "SOURCE" THEN "SINK" ELSE "SOURCE"

ASSUME RtspBoundsAssumption == MaxConnections \in Nat /\ MaxWaiting \in Nat

VARIABLES
    active,       \* isSessionActive_; the session key is there while it is set
    open,         \* channel_ # nullptr
    algorithmId,  \* algorithmId_ > 0
    switching,    \* the sink has acknowledged the cipher, not yet switched
    readying,     \* OnPeerReady has sent, not yet set waitRsp_
    waitRsp,      \* waitRsp_
    mode,         \* projection mode of negotiatedParamInfo_
    param,        \* projection mode of the session's rtspParamInfo_
    told,         \* listener callbacks since Start
    net,          \* messages on their way to an end
    link,         \* ends that have not closed the channel
    paired,       \* the ends opened this channel with one cipher state
    connections,  \* channels opened so far
    linkType,     \* ChannelLinkType of the channel, as discovery decided
    ownMode       \* per end, the projection mode of its sessions' ParamInfo

engineVars == <<active, open, algorithmId, switching, readying, waitRsp, mode,
                param, told>>
linkVars   == <<link, paired, connections, linkType, ownMode>>
vars == <<engineVars, net, linkVars>>

-----------------------------------------------------------------------------
(* Types *)

WaitResponse == {"NONE", "OPT_M1", "OPT_M2", "GET_PARAM_M3", "SET_PARAM_M4", "SET_PARAM_M5",
                 "SETUP_M6", "PLAY_M7", "TEARDOWN_M8", "PAUSE_M9", "ANNOUNCE"}

Triggers == {"TRIGGER_SETUP", "TRIGGER_PLAY", "TRIGGER_PAUSE", "TRIGGER_TEARDOWN", "EVENT"}
Methods == {"ANNOUNCE", "OPTIONS", "GET_PARAM", "SET_PARAM", "SETUP", "PLAY", "PAUSE",
            "TEARDOWN", "RENDER_READY"} \cup Triggers
TearDowns == {"TEARDOWN", "TRIGGER_TEARDOWN"}

\* Only one end sends these; "405" answers what the receiver could not read.
OnlyFrom == [SOURCE |-> {"GET_PARAM", "SET_PARAM"} \cup (Triggers \ {"EVENT"}),
             SINK   |-> {"SETUP", "PLAY", "PAUSE", "TEARDOWN", "RENDER_READY"}]
Requests(e) == Methods \ OnlyFrom[Other(e)]

MessageTo(e) ==
    [type : {"REQUEST"}, what : Requests(Other(e)), mode : Modes, sealed : BOOLEAN]
    \cup [type : {"RESPONSE"}, what : Requests(e) \cup {"405"}, mode : Modes, sealed : BOOLEAN]

Callbacks == {"ProcessStreamMode", "OnPlayerReady", "OnSetup", "OnPlay", "OnPause",
              "OnTearDown", "OnError"}
Failures == {"OnTearDown", "OnError"}

-----------------------------------------------------------------------------
(* Sending and reading *)

\* An engine ciphers once an algorithm is agreed, while it holds the key.
Sealing(e) == algorithmId[e] /\ active[e]

\* SendRtspData, SendData: over SoftBus nothing is ciphered.
CanSend(e) == active[e] /\ open[e]

Packet(e, type, what) ==
    [type |-> type, what |-> what, mode |-> mode[e], sealed |-> linkType = "TCP" /\ Sealing(e)]
Request(e, what) == Packet(e, "REQUEST", what)
Response(e, what) == Packet(e, "RESPONSE", what)

\* What is sent is lost if the peer has closed the channel.
Delivered(e, packets) == IF CanSend(e) /\ Other(e) \in link THEN packets ELSE <<>>

Send(e, packets) == net' = [net EXCEPT ![Other(e)] = @ \o Delivered(e, packets)]

\* A handler: the head of e's messages is read, and packets are sent.
Handle(e, packets) ==
    net' = [net EXCEPT ![e] = Tail(@), ![Other(e)] = @ \o Delivered(e, packets)]

Tell(e, callbacks) == told' = [told EXCEPT ![e] = @ \cup callbacks]
Await(e, response) == waitRsp' = [waitRsp EXCEPT ![e] = response]

\* A failed send is reported by OnRequest and OnResponse.
ErrorUnlessSent(e) == IF CanSend(e) THEN {} ELSE {"OnError"}

\* OnDataReceived deciphers whatever arrives, also over SoftBus.
Readable(e, m) == m.sealed = Sealing(e)

\* The read thread of e is about to handle a message.  Over TCP it starts
\* when OnPeerReady has returned.
Reading(e) ==
    /\ open[e]
    /\ ~switching[e]
    /\ readying[e] => linkType = "SOFT_BUS"
    /\ net[e] # <<>>

ReadsRequest(e, what) ==
    /\ Reading(e)
    /\ Readable(e, Head(net[e]))
    /\ Head(net[e]).type = "REQUEST"
    /\ Head(net[e]).what = what

ReadsResponse(e, response) ==
    /\ Reading(e)
    /\ Readable(e, Head(net[e]))
    /\ Head(net[e]).type = "RESPONSE"
    /\ waitRsp[e] = response

\* The response is not "200 OK".
IsRefusal(e) == Head(net[e]).what = "405"

-----------------------------------------------------------------------------
(* Requests *)

\* ProcessAnnounceRequest, source: answer, then announce the chosen cipher.
AnnounceToSource ==
    /\ ReadsRequest("SOURCE", "ANNOUNCE")
    /\ Handle("SOURCE", <<Response("SOURCE", "ANNOUNCE"), Request("SOURCE", "ANNOUNCE")>>)
    /\ Await("SOURCE", "ANNOUNCE")
    /\ UNCHANGED <<active, open, algorithmId, switching, readying, mode, param, told, linkVars>>

\* Bug: the sink switches before it answers.
AnnounceToSinkSwitchesFirst ==
    /\ ReadsRequest("SINK", "ANNOUNCE")
    /\ Handle("SINK", <<[Response("SINK", "ANNOUNCE") EXCEPT !.sealed = active["SINK"]]>>)
    /\ algorithmId' = [algorithmId EXCEPT !["SINK"] = TRUE]
    /\ switching' = [switching EXCEPT !["SINK"] = TRUE]
    /\ UNCHANGED <<active, open, readying, waitRsp, mode, param, told, linkVars>>

\* ProcessAnnounceRequest, sink: answer ...
AnnounceToSink ==
    /\ ReadsRequest("SINK", "ANNOUNCE")
    /\ Handle("SINK", <<Response("SINK", "ANNOUNCE")>>)
    /\ switching' = [switching EXCEPT !["SINK"] = TRUE]
    /\ UNCHANGED <<active, open, algorithmId, readying, waitRsp, mode, param, told, linkVars>>

\* ... and SetNegAlgorithmId.
SinkSwitches ==
    /\ switching["SINK"]
    /\ switching' = [switching EXCEPT !["SINK"] = FALSE]
    /\ algorithmId' = [algorithmId EXCEPT !["SINK"] = TRUE]
    /\ UNCHANGED <<active, open, readying, waitRsp, mode, param, told, net, linkVars>>

\* Bug: the sink's answer to OPTIONS does not ask for the source's.
ProcessOptionRequestAnswersOnly(e) ==
    /\ ReadsRequest(e, "OPTIONS")
    /\ Handle(e, <<Response(e, "OPTIONS")>>)
    /\ Tell(e, ErrorUnlessSent(e))
    /\ UNCHANGED <<active, open, algorithmId, switching, readying, waitRsp, mode, param, linkVars>>

\* The request that follows the answer to OPTIONS, and its response.
AfterOptions(e) == IF e = "SOURCE" THEN [what |-> "GET_PARAM", response |-> "GET_PARAM_M3"]
                            ELSE [what |-> "OPTIONS", response |-> "OPT_M2"]

ProcessOptionRequest(e) ==
    /\ ReadsRequest(e, "OPTIONS")
    /\ Handle(e, <<Response(e, "OPTIONS"), Request(e, AfterOptions(e).what)>>)
    /\ IF CanSend(e) THEN Await(e, AfterOptions(e).response) ELSE UNCHANGED waitRsp
    /\ Tell(e, ErrorUnlessSent(e))
    /\ UNCHANGED <<active, open, algorithmId, switching, readying, mode, param, linkVars>>

ProcessGetParameterRequestM3(e) ==
    /\ ReadsRequest(e, "GET_PARAM")
    /\ Handle(e, <<Response(e, "GET_PARAM")>>)
    /\ Tell(e, ErrorUnlessSent(e))
    /\ UNCHANGED <<active, open, algorithmId, switching, readying, waitRsp, mode, param, linkVars>>

\* Bug: the projection mode of the request is ignored.
ProcessSetParamRequestM4KeepsMode(e) ==
    /\ ReadsRequest(e, "SET_PARAM")
    /\ Handle(e, <<Response(e, "SET_PARAM")>>)
    /\ Tell(e, ErrorUnlessSent(e))
    /\ UNCHANGED <<active, open, algorithmId, switching, readying, waitRsp, mode, param, linkVars>>

\* The sink takes the projection mode over; only a source sends this request.
ProcessSetParamRequestM4(e) ==
    /\ ReadsRequest(e, "SET_PARAM")
    /\ mode' = [mode EXCEPT ![e] = Head(net[e]).mode]
    /\ Handle(e, <<Response(e, "SET_PARAM")>>)
    /\ Tell(e, ErrorUnlessSent(e))
    /\ UNCHANGED <<active, open, algorithmId, switching, readying, waitRsp, param, linkVars>>

\* ProcessTriggerMethod, SETUP: a stream needs no media set-up.
TriggerSetup(e) ==
    /\ ReadsRequest(e, "TRIGGER_SETUP")
    /\ \/ /\ mode[e] = "STREAM"
          /\ Handle(e, <<Response(e, "TRIGGER_SETUP")>>)
          /\ Tell(e, {"ProcessStreamMode"})
          /\ param' = [param EXCEPT ![e] = mode[e]]
          /\ UNCHANGED waitRsp
       \/ /\ mode[e] = "MIRROR"
          /\ Handle(e, <<Response(e, "TRIGGER_SETUP"), Request(e, "SETUP")>>)
          /\ Await(e, "SETUP_M6")
          /\ UNCHANGED <<param, told>>
    /\ UNCHANGED <<active, open, algorithmId, switching, readying, mode, linkVars>>

\* ProcessTriggerMethod, the rest: whether the answer is sent does not matter.
TriggerCallback == [TRIGGER_PLAY |-> {"OnPlay"}, TRIGGER_PAUSE |-> {"OnPause"},
                    TRIGGER_TEARDOWN |-> {"OnTearDown"}, EVENT |-> {}]

ProcessTriggerMethod(e) ==
    /\ \E what \in DOMAIN TriggerCallback :
          /\ ReadsRequest(e, what)
          /\ Handle(e, <<Response(e, what)>>)
          /\ Tell(e, TriggerCallback[what])
    /\ UNCHANGED <<active, open, algorithmId, switching, readying, waitRsp, mode, param, linkVars>>

\* ProcessPlayRequest, ProcessPauseRequest
ProcessPlayRequest(e) ==
    /\ \E what \in {"PLAY", "PAUSE"} :
          /\ ReadsRequest(e, what)
          /\ Handle(e, <<Response(e, what)>>)
          /\ Tell(e, ErrorUnlessSent(e) \cup {IF what = "PLAY" THEN "OnPlay" ELSE "OnPause"})
    /\ UNCHANGED <<active, open, algorithmId, switching, readying, waitRsp, mode, param, linkVars>>

\* ProcessSetupRequest: the answer is the session's, through SetupPort.
ProcessSetupRequest(e) ==
    /\ ReadsRequest(e, "SETUP")
    /\ Handle(e, <<>>)
    /\ Tell(e, {"OnSetup"})
    /\ param' = [param EXCEPT ![e] = mode[e]]
    /\ UNCHANGED <<active, open, algorithmId, switching, readying, waitRsp, mode, linkVars>>

\* ProcessTearDownRequest looks for "Teardown" in "TEARDOWN ...": no answer.
ProcessTearDownRequest(e) ==
    /\ ReadsRequest(e, "TEARDOWN")
    /\ Handle(e, <<>>)
    /\ Tell(e, {"OnTearDown", "OnError"})
    /\ UNCHANGED <<active, open, algorithmId, switching, readying, waitRsp, mode, param, linkVars>>

\* Without an answer the player counts as not ready, which is an error.
ProcessRenderReadyRequest(e) ==
    /\ ReadsRequest(e, "RENDER_READY")
    /\ Handle(e, <<Response(e, "RENDER_READY")>>)
    /\ Tell(e, IF CanSend(e) THEN {"OnPlayerReady"} ELSE {"OnError"})
    /\ UNCHANGED <<active, open, algorithmId, switching, readying, waitRsp, mode, param, linkVars>>

\* What cannot be read is a request of no known method: SendErrorResponse.
Garbled(e) ==
    /\ Reading(e)
    /\ ~Readable(e, Head(net[e]))
    /\ Handle(e, <<Response(e, "405")>>)
    /\ Tell(e, ErrorUnlessSent(e))
    /\ UNCHANGED <<active, open, algorithmId, switching, readying, waitRsp, mode, param, linkVars>>

-----------------------------------------------------------------------------
(* Responses: told apart by waitRsp_ alone *)

\* ProcessCommonResponse, for OPTIONS
ProcessCommonResponse(e) ==
    /\ \E response \in {"OPT_M1", "OPT_M2"} : ReadsResponse(e, response)
    /\ Handle(e, <<>>)
    /\ Tell(e, IF IsRefusal(e) THEN {"OnError"} ELSE {})
    /\ UNCHANGED <<active, open, algorithmId, switching, readying, waitRsp, mode, param, linkVars>>

\* A response that brings no capabilities is an error.  Otherwise the source's
\* session answers at once with ModuleCustomParamsNegotiationDone.
ProcessGetParamM3Response(e) ==
    /\ ReadsResponse(e, "GET_PARAM_M3")
    /\ \/ /\ Head(net[e]).what = "GET_PARAM"
          /\ Handle(e, <<Request(e, "SET_PARAM")>>)
          /\ Await(e, "SET_PARAM_M4")
          /\ UNCHANGED told
       \/ /\ Head(net[e]).what # "GET_PARAM"
          /\ Handle(e, <<>>)
          /\ Tell(e, {"OnError"})
          /\ UNCHANGED waitRsp
    /\ UNCHANGED <<active, open, algorithmId, switching, readying, mode, param, linkVars>>

ProcessSetParamM4Response(e) ==
    /\ ReadsResponse(e, "SET_PARAM_M4")
    /\ \/ /\ ~IsRefusal(e)
          /\ Handle(e, <<Request(e, "TRIGGER_SETUP")>>)
          /\ Await(e, "SET_PARAM_M5")
          /\ Tell(e, ErrorUnlessSent(e))
       \/ /\ IsRefusal(e)
          /\ Handle(e, <<>>)
          /\ Tell(e, {"OnError"})
          /\ UNCHANGED waitRsp
    /\ UNCHANGED <<active, open, algorithmId, switching, readying, mode, param, linkVars>>

ProcessSetParamM5Response(e) ==
    /\ ReadsResponse(e, "SET_PARAM_M5")
    /\ Handle(e, <<>>)
    /\ Await(e, "NONE")
    /\ Tell(e, IF IsRefusal(e) THEN {"OnError"} ELSE {})
    /\ UNCHANGED <<active, open, algorithmId, switching, readying, mode, param, linkVars>>

\* The ports are looked for in whatever response this is.
ProcessSetupM6Response(e) ==
    /\ ReadsResponse(e, "SETUP_M6")
    /\ Handle(e, <<>>)
    /\ Tell(e, IF Head(net[e]).what = "SETUP" THEN {"OnSetup"} ELSE {"OnError"})
    /\ UNCHANGED <<active, open, algorithmId, switching, readying, waitRsp, mode, param, linkVars>>

\* ProcessPlayM7Response, whatever the status
ProcessPlayM7Response(e) ==
    /\ ReadsResponse(e, "PLAY_M7")
    /\ Handle(e, <<>>)
    /\ Await(e, "NONE")
    /\ UNCHANGED <<active, open, algorithmId, switching, readying, mode, param, told, linkVars>>

\* ProcessTearDownM8Response and ProcessPauseM9Response keep waiting.
ProcessPauseM9Response(e) ==
    /\ \/ ReadsResponse(e, "TEARDOWN_M8") /\ Tell(e, {"OnTearDown"})
       \/ ReadsResponse(e, "PAUSE_M9") /\ Tell(e, {"OnPause"})
    /\ Handle(e, <<>>)
    /\ UNCHANGED <<active, open, algorithmId, switching, readying, waitRsp, mode, param, linkVars>>

\* DealAnnounceRequest: the source switches, then sends; a refusal goes unseen.
DealAnnounceRequest(e) ==
    /\ ReadsResponse(e, "ANNOUNCE")
    /\ \/ /\ e = "SOURCE"
          /\ Handle(e, <<[Request(e, "OPTIONS") EXCEPT !.sealed = active[e]]>>)
          /\ algorithmId' = [algorithmId EXCEPT ![e] = TRUE]
          /\ Await(e, "OPT_M1")
       \/ /\ e = "SINK"
          /\ Handle(e, <<>>)
          /\ UNCHANGED <<algorithmId, waitRsp>>
    /\ UNCHANGED <<active, open, switching, readying, mode, param, told, linkVars>>

\* Bug: a response nobody awaits is answered with an error.
UnexpectedResponseRefused(e) ==
    /\ ReadsResponse(e, "NONE")
    /\ Handle(e, <<Response(e, "405")>>)
    /\ UNCHANGED engineVars
    /\ UNCHANGED linkVars

\* Nothing is awaited.
UnexpectedResponse(e) ==
    /\ ReadsResponse(e, "NONE")
    /\ Handle(e, <<>>)
    /\ UNCHANGED engineVars
    /\ UNCHANGED linkVars

-----------------------------------------------------------------------------
(* The session *)

\* Start: neither the cipher nor the awaited response is reset.
Start(e) ==
    /\ ~active[e] /\ e \notin link
    /\ active' = [active EXCEPT ![e] = TRUE]
    /\ mode' = [mode EXCEPT ![e] = param[e]]
    /\ told' = [told EXCEPT ![e] = {}]
    /\ UNCHANGED <<open, algorithmId, switching, readying, waitRsp, param, net, linkVars>>

\* A new session, with engines of its own.
NewSession(e) ==
    /\ ~active[e] /\ e \notin link /\ ~switching[e]
    /\ algorithmId' = [algorithmId EXCEPT ![e] = FALSE]
    /\ waitRsp' = [waitRsp EXCEPT ![e] = "NONE"]
    /\ mode' = [mode EXCEPT ![e] = ownMode[e]]
    /\ param' = [param EXCEPT ![e] = ownMode[e]]
    /\ told' = [told EXCEPT ![e] = {}]
    /\ UNCHANGED <<active, open, switching, readying, net, linkVars>>

\* The channel comes up between two sessions that both want it.
Connect ==
    /\ link = {} /\ \A e \in Ends : active[e] /\ ~switching[e] /\ ~readying[e]
    /\ connections < MaxConnections
    /\ connections' = connections + 1
    /\ link' = Ends
    /\ paired' = (algorithmId["SOURCE"] = algorithmId["SINK"])
    /\ UNCHANGED <<engineVars, net, linkType, ownMode>>

\* AddChannel, OnPeerReady: the sink speaks first ...
Opening == IF linkType = "SOFT_BUS" THEN [what |-> "OPTIONS", response |-> "OPT_M2"]
                                    ELSE [what |-> "ANNOUNCE", response |-> "ANNOUNCE"]

AddChannel(e) ==
    /\ e \in link /\ ~open[e]
    /\ open' = [open EXCEPT ![e] = TRUE]
    /\ \/ /\ e = "SOURCE"
          /\ UNCHANGED <<net, readying, told>>
       \/ /\ e = "SINK"
          /\ net' = [net EXCEPT !["SOURCE"] =
                IF active[e] /\ "SOURCE" \in link THEN Append(@, Request(e, Opening.what)) ELSE @]
          /\ readying' = [readying EXCEPT ![e] = TRUE]
          /\ Tell(e, IF active[e] THEN {} ELSE {"OnError"})
    /\ UNCHANGED <<active, algorithmId, switching, waitRsp, mode, param, linkVars>>

\* ... and only then notes what it waits for.
PeerReady ==
    /\ readying["SINK"]
    /\ readying' = [readying EXCEPT !["SINK"] = FALSE]
    /\ Await("SINK", Opening.response)
    /\ UNCHANGED <<active, open, algorithmId, switching, mode, param, told, net, linkVars>>

\* Bug: an engine counts as connected as soon as its channel is up.
IsOpen(e) == active[e] /\ open[e]

\* The session leaves CONNECTING, and may send, when the negotiation is over.
IsConnected(e) ==
    active[e] /\ {"ProcessStreamMode", "OnPlayerReady"} \cap told[e] # {}

MaySend(e) == IsConnected(e) /\ Len(net["SOURCE"]) + Len(net["SINK"]) < MaxWaiting

SendEventChange(e) ==
    /\ MaySend(e)
    /\ Send(e, <<Request(e, "EVENT")>>)
    /\ UNCHANGED <<engineVars, linkVars>>

\* SendCastRenderReadyOption, of a sink.
SendCastRenderReadyOption ==
    /\ MaySend("SINK")
    /\ Send("SINK", <<Request("SINK", "RENDER_READY")>>)
    /\ Await("SINK", "NONE")
    /\ UNCHANGED <<active, open, algorithmId, switching, readying, mode, param, told, linkVars>>

\* Action: a source triggers, a sink requests.
ActionRequests ==
    {[end |-> "SOURCE", what |-> "TRIGGER_PLAY",     response |-> "SET_PARAM_M5"],
     [end |-> "SOURCE", what |-> "TRIGGER_PAUSE",    response |-> "SET_PARAM_M5"],
     [end |-> "SOURCE", what |-> "TRIGGER_TEARDOWN", response |-> "SET_PARAM_M5"],
     [end |-> "SINK",   what |-> "PLAY",             response |-> "PLAY_M7"],
     [end |-> "SINK",   what |-> "PAUSE",            response |-> "PAUSE_M9"],
     [end |-> "SINK",   what |-> "TEARDOWN",         response |-> "TEARDOWN_M8"]}

Action(e) == \E action \in ActionRequests :
    /\ action.end = e /\ action.what \notin TearDowns
    /\ MaySend(e)
    /\ Await(e, action.response)
    /\ Send(e, <<Request(e, action.what)>>)
    /\ UNCHANGED <<active, open, algorithmId, switching, readying, mode, param, told, linkVars>>

\* Action(TEARDOWN) stops the engine: StopSession clears the key and reports
\* OnPeerGone.
ActionTearDown(e) == \E action \in ActionRequests :
    /\ action.end = e /\ action.what \in TearDowns
    /\ active[e]
    /\ Await(e, action.response)
    /\ Send(e, <<Request(e, action.what)>>)
    /\ active' = [active EXCEPT ![e] = FALSE]
    /\ Tell(e, {"OnError"})
    /\ UNCHANGED <<open, algorithmId, switching, readying, mode, param, linkVars>>

\* DestroyAllChannels, RemoveChannel: what e has not read is lost, and closing
\* may lose what the peer has not read.
DestroyAllChannels(e) ==
    /\ ~active[e] /\ e \in link /\ ~readying[e]
    /\ link' = link \ {e}
    /\ open' = [open EXCEPT ![e] = FALSE]
    /\ \E left \in {net[Other(e)], <<>>} :
          net' = [net EXCEPT ![e] = <<>>, ![Other(e)] = left]
    /\ UNCHANGED <<active, algorithmId, switching, readying, waitRsp, mode, param, told,
                   paired, connections, linkType, ownMode>>

-----------------------------------------------------------------------------

Init ==
    /\ linkType \in {"TCP", "SOFT_BUS"} /\ ownMode \in [Ends -> Modes]
    /\ active = [e \in Ends |-> FALSE] /\ open = [e \in Ends |-> FALSE]
    /\ algorithmId = [e \in Ends |-> FALSE]
    /\ switching = [e \in Ends |-> FALSE] /\ readying = [e \in Ends |-> FALSE]
    /\ waitRsp = [e \in Ends |-> "NONE"] /\ mode = ownMode /\ param = ownMode
    /\ told = [e \in Ends |-> {}] /\ net = [e \in Ends |-> <<>>]
    /\ link = {} /\ paired = TRUE /\ connections = 0

OnRequest(e) ==
    \/ ProcessOptionRequest(e) \/ ProcessGetParameterRequestM3(e) \/ ProcessSetParamRequestM4(e)
    \/ TriggerSetup(e) \/ ProcessTriggerMethod(e) \/ ProcessPlayRequest(e)
    \/ ProcessSetupRequest(e) \/ ProcessTearDownRequest(e) \/ ProcessRenderReadyRequest(e)
    \/ Garbled(e)

OnResponse(e) ==
    \/ ProcessCommonResponse(e) \/ ProcessGetParamM3Response(e) \/ ProcessSetParamM4Response(e)
    \/ ProcessSetParamM5Response(e) \/ ProcessSetupM6Response(e) \/ ProcessPlayM7Response(e)
    \/ ProcessPauseM9Response(e) \/ DealAnnounceRequest(e) \/ UnexpectedResponse(e)

\* The threads of the channel: they read, and they bring the channel up.
ChannelNext(e) ==
    \/ OnRequest(e) \/ OnResponse(e) \/ AddChannel(e)
    \/ e = "SOURCE" /\ AnnounceToSource
    \/ e = "SINK" /\ (AnnounceToSink \/ SinkSwitches \/ PeerReady)

SessionNext(e) ==
    \/ Start(e) \/ NewSession(e) \/ SendEventChange(e) \/ Action(e)
    \/ ActionTearDown(e) \/ DestroyAllChannels(e)

Next == Connect \/ SendCastRenderReadyOption \/ \E e \in Ends : ChannelNext(e) \/ SessionNext(e)

Spec == Init /\ [][Next]_vars

\* A read thread goes on as long as there is something to read, and a channel
\* that is up is handed to the engine.  Sessions need not do anything.
Fairness == \A e \in Ends : WF_vars(ChannelNext(e))

FairSpec == Spec /\ Fairness

-----------------------------------------------------------------------------
(* Properties *)

TypeOK ==
    /\ active \in [Ends -> BOOLEAN] /\ open \in [Ends -> BOOLEAN]
    /\ algorithmId \in [Ends -> BOOLEAN]
    /\ switching \in [Ends -> BOOLEAN] /\ readying \in [Ends -> BOOLEAN]
    /\ waitRsp \in [Ends -> WaitResponse]
    /\ mode \in [Ends -> Modes] /\ param \in [Ends -> Modes]
    /\ told \in [Ends -> SUBSET Callbacks]
    /\ \A e \in Ends : net[e] \in Seq(MessageTo(e))
    /\ link \subseteq Ends /\ paired \in BOOLEAN
    /\ connections \in 0 .. MaxConnections
    /\ linkType \in {"TCP", "SOFT_BUS"} /\ ownMode \in [Ends -> Modes]

\* Two engines running over one channel.
Together == paired /\ link = Ends /\ \A e \in Ends : active[e]

\* The ends change the cipher at different moments, and still each reads with
\* the one the other wrote with, whatever it reads and whenever.
CiphersAgree ==
    Together => \A e \in Ends : Reading(e) => Readable(e, Head(net[e]))

\* Responses carry no hint of their request but the awaited one: during the
\* negotiation a response is never taken for that of another request.
AwaitedIsAnswered ==
    Together => \A e \in Ends :
        /\ ReadsResponse(e, "GET_PARAM_M3") => Head(net[e]).what = "GET_PARAM"
        /\ ReadsResponse(e, "SET_PARAM_M4") => Head(net[e]).what = "SET_PARAM"
        /\ ReadsResponse(e, "ANNOUNCE")     => Head(net[e]).what = "ANNOUNCE"

\* A sink plays a stream only for a source that asked for it, whatever its own
\* parameters or an earlier connection say.
ModesAgree ==
    "ProcessStreamMode" \in told["SINK"] => ownMode["SOURCE"] = "STREAM"

\* Negotiation completes unless a session stops it: the sink is asked to play
\* the stream, or the source to set the media up.
NegotiationCompletes ==
    (link = Ends /\ paired) ~>
        \/ "ProcessStreamMode" \in told["SINK"] \/ "OnSetup" \in told["SOURCE"]
        \/ \E e \in Ends : ~active[e]

\* The ends do not answer each other for ever: they fall silent unless their
\* sessions keep sending.
SessionSends == SendCastRenderReadyOption \/ \E e \in Ends : SendEventChange(e) \/ Action(e)

GoesQuiet ==
    []<>(paired => \A e \in Ends : ~Reading(e)) \/ []<><<SessionSends>>_vars
=============================================================================
