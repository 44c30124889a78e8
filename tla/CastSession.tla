---------------------------- MODULE CastSession ----------------------------
(***************************************************************************)
(* One cast session of the service: the message looper (utils/handler),    *)
(* the hierarchical state machine with its deferred queue                  *)
(* (utils/state_machine, cast_session_state), and the session's resources: *)
(* the remote device list, the RTSP engine, the channels and the connect   *)
(* timeout.  The looper thread runs one handler at a time; client calls,   *)
(* the ConnectionManager and the channel threads post messages to it.      *)
(*                                                                         *)
(* A handler is one step up to the TransferTo it calls; from there each    *)
(* deferred message it replays is one step, and what the handler still has *)
(* to do after TransferTo returns is the last one.                         *)
(***************************************************************************)
EXTENDS Integers, Sequences, FiniteSets

CONSTANTS
    Devices,        \* device ids that clients name
    NoDevice,       \* the empty strArg_ of a message
    Callers,        \* threads that call AddDevice
    EndType,        \* property_.endType
    Protocol,       \* property_.protocolType
    LinkNotifies,   \* closing a channel calls OnChannelRemoved back (TCP)
    MaxQueue,       \* bound: messages waiting when somebody posts one more
    MaxTimers,      \* bound: armed timeouts when a CONNECT is posted
    MaxChannels     \* bound: open channels when a CONNECT or a peer's request is posted

ASSUME DevicesAssumption == NoDevice \notin Devices
ASSUME EndTypeAssumption == EndType \in {"SOURCE", "SINK"}
ASSUME ProtocolAssumption == Protocol \in {"STREAM", "MIRROR", "OTHER"}
ASSUME LinkAssumption == LinkNotifies \in BOOLEAN
ASSUME BoundsAssumption ==
    MaxQueue \in Nat /\ MaxTimers \in Nat /\ MaxChannels \in Nat

VARIABLES
    state,              \* sessionState_, always that of the leaf state_
    looper,             \* "idle", "transfer" (inside TransferTo) or "exited"
    after,              \* device to report and drop when TransferTo returns
    queue,              \* msgQueue_, its immediate messages in when_ order
    timers,             \* msgQueue_, its MSG_CONNECT_TIMEOUT entries
    deferred,           \* deferredQueue_
    remoteDeviceList,   \* remoteDeviceList_
    rtspActive,         \* RtspChannelManager::isSessionActive_
    rtspDevice,         \* RtspController::deviceId_
    channels,           \* size of ChannelManager::connectionMap_
    streamMode,         \* rtspParamInfo_'s projection mode is STREAM
    isTearDownReceived, \* isTearDownReceived_
    receiving,          \* a channel thread is inside a callback
    adding,             \* per caller, the device found absent by AddDevice
    reporting,          \* devices whose connect stage is still to be reported
    linked,             \* devices the ConnectionManager holds CONNECTED
    stopping            \* how far Release and Stop have come

loopVars    == <<state, looper, after, deferred>>
linkVars    == <<reporting, linked>>
rtspVars    == <<rtspActive, rtspDevice, channels, streamMode, isTearDownReceived>>
outsideVars == <<receiving, adding, stopping>>
vars == <<loopVars, queue, timers, remoteDeviceList, rtspVars, linkVars, outsideVars>>

-----------------------------------------------------------------------------
(* Types *)

ConnectedFamily == {"PAUSED", "PLAYING", "STREAM", "MIRROR_TO_STREAM", "STREAM_TO_MIRROR"}
SessionStates == {"DISCONNECTED", "CONNECTING"} \cup ConnectedFamily

DeviceStates == {"DISCONNECTED", "CONNECTING"} \cup ConnectedFamily

MessageIds == {"CONNECT", "DISCONNECT", "SETUP", "ERROR", "PLAY", "PLAY_REQ",
               "PAUSE", "PAUSE_REQ", "PEER_RENDER_READY", "PEER_RENDER_FAIL",
               "SWITCH_TO_MIRROR", "SWITCH_TO_STREAM", "STREAM_CHANNEL"}

DeviceOrNone == Devices \cup {NoDevice}
Message == [what : MessageIds, dev : DeviceOrNone]
RemoteDevice == [dev : Devices, st : DeviceStates]

-----------------------------------------------------------------------------
(* The remote device list.  Every search of the code stops at the first    *)
(* entry of a device.                                                      *)

Listed(d) == \E i \in DOMAIN remoteDeviceList : remoteDeviceList[i].dev = d

IsFirst(list, d, i) ==
    list[i].dev = d /\ \A j \in DOMAIN list : j < i => list[j].dev # d

\* ChangeDeviceStateInner: no effect on an unknown device.
ChangeDeviceState(list, d, st) ==
    [i \in DOMAIN list |-> IF IsFirst(list, d, i) THEN [list[i] EXCEPT !.st = st] ELSE list[i]]

\* RemoveRemoteDevice: erase the first entry of the device.
RemoveRemoteDevice(list, d) ==
    LET found == \E i \in DOMAIN list : list[i].dev = d
    IN  [k \in 1 .. (IF found THEN Len(list) - 1 ELSE Len(list)) |->
            IF \E j \in 1 .. k : list[j].dev = d THEN list[k + 1] ELSE list[k]]

\* GetCurrentRemoteDeviceId
CurrentRemoteDevice ==
    IF remoteDeviceList = <<>> THEN NoDevice ELSE remoteDeviceList[1].dev

-----------------------------------------------------------------------------
(* Posting to the looper, and the resources a handler tears down *)

Msg(what, d) == [what |-> what, dev |-> d]
ErrorMsg == Msg("ERROR", NoDevice)
Errors(n) == [i \in 1 .. n |-> ErrorMsg]

\* A sink in stream mode survives the loss of a channel.
KeepsPlaying == streamMode /\ EndType = "SINK" /\ ~isTearDownReceived

\* Bug: StopSession does not report OnPeerGone.
TearDownErrorsLost == 0

\* Action(TEARDOWN): StopSession reports OnPeerGone if the engine was active.
TearDownErrors == IF rtspActive THEN 1 ELSE 0

\* DestroyAllChannels: a TCP close calls OnChannelRemoved on this thread.
ChannelErrors == IF LinkNotifies /\ ~KeepsPlaying THEN channels ELSE 0

ActionTearDown(q) ==
    /\ queue' = q \o Errors(TearDownErrors)
    /\ rtspActive' = FALSE
    /\ UNCHANGED <<rtspDevice, channels, streamMode, isTearDownReceived>>

ProcessDisconnect(q) ==
    /\ queue' = q \o Errors(TearDownErrors + ChannelErrors)
    /\ rtspActive' = FALSE
    /\ channels' = 0
    /\ UNCHANGED <<rtspDevice, streamMode, isTearDownReceived>>

\* InitRtspParamInfo sets the projection mode and nothing resets it.
InitRtspParamInfo == streamMode' = (streamMode \/ Protocol = "STREAM")

\* ProcessConnect with a port to return.
ProcessConnectDone(d, q) ==
    /\ Listed(d)
    /\ InitRtspParamInfo
    /\ rtspActive' = TRUE
    /\ rtspDevice' = d
    /\ channels' = channels + 1
    /\ queue' = q
    /\ UNCHANGED isTearDownReceived

\* ProcessConnect returning -1: the engine was started, CreateChannel failed.
ProcessConnectNoChannel(d, q) ==
    /\ Listed(d)
    /\ InitRtspParamInfo
    /\ rtspActive' = FALSE
    /\ queue' = q \o Errors(1)
    /\ UNCHANGED <<rtspDevice, channels, isTearDownReceived>>

\* ProcessConnect returning -1: nothing is known of the device.
ProcessConnectNoDevice(d, q) ==
    /\ ~Listed(d)
    /\ queue' = q
    /\ UNCHANGED rtspVars

ProcessConnectFails(d, q) ==
    ProcessConnectNoChannel(d, q) \/ ProcessConnectNoDevice(d, q)

HasPhysicalLink == Protocol \in {"MIRROR", "STREAM"}

\* DisconnectPhysicalLink
DisconnectPhysicalLink(d) ==
    /\ linked' = IF HasPhysicalLink /\ Listed(d) THEN linked \ {d} ELSE linked
    /\ UNCHANGED reporting

-----------------------------------------------------------------------------
(* The state machine *)

\* TransferTo as the last thing a handler does.
TransferTo(s) ==
    /\ state' = s
    /\ looper' = "transfer"
    /\ UNCHANGED after

\* TransferTo(disconnectingState_), whose Enter goes on to disconnectedState_,
\* followed by ChangeDeviceState(DISCONNECTED) and RemoveRemoteDevice of d.
TransferAndDrop(d) ==
    /\ state' = "DISCONNECTED"
    /\ looper' = "transfer"
    /\ after' = d

Stay == UNCHANGED <<state, looper, after>>

\* DisconnectedState, MSG_CONNECT
ConnectWhenDisconnected(m, q, dq) ==
    /\ state = "DISCONNECTED"
    /\ m.what = "CONNECT"
    /\ deferred' = dq
    /\ \/ /\ ProcessConnectDone(m.dev, q)
          /\ remoteDeviceList' = ChangeDeviceState(remoteDeviceList, m.dev, "CONNECTING")
          /\ timers' = timers + 1
          /\ TransferTo("CONNECTING")
       \/ /\ ProcessConnectFails(m.dev, q)
          /\ remoteDeviceList' = ChangeDeviceState(remoteDeviceList, m.dev, "DISCONNECTED")
          /\ UNCHANGED timers
          /\ Stay
    /\ UNCHANGED <<linkVars, outsideVars>>

\* ConnectingState, MSG_CONNECT, MSG_PLAY and MSG_PLAY_REQ
DeferWhenConnecting(m, q, dq) ==
    /\ state = "CONNECTING"
    /\ m.what \in {"CONNECT", "PLAY", "PLAY_REQ"}
    /\ queue' = q
    /\ deferred' = Append(dq, m)
    /\ Stay
    /\ UNCHANGED <<timers, remoteDeviceList, rtspVars, linkVars, outsideVars>>

\* PausedState, MSG_PLAY and MSG_PLAY_REQ
PlayWhenPaused(m, q, dq) ==
    /\ state = "PAUSED"
    /\ m.what \in {"PLAY", "PLAY_REQ"}
    /\ queue' = q
    /\ deferred' = dq
    /\ remoteDeviceList' = ChangeDeviceState(remoteDeviceList, m.dev, "PLAYING")
    /\ TransferTo("PLAYING")
    /\ UNCHANGED <<timers, rtspVars, linkVars, outsideVars>>

\* The leaf handlers that a deferred message can reach, and the rest: a
\* replayed message that its leaf does not know is dropped, the parent state
\* is never asked.
Replayable(s) ==
    CASE s = "DISCONNECTED" -> {"CONNECT"}
      [] s = "CONNECTING"   -> {"CONNECT", "PLAY", "PLAY_REQ"}
      [] s = "PAUSED"       -> {"PLAY", "PLAY_REQ"}
      [] OTHER              -> {}

\* Bug: what the leaf does not know is deferred once more.
DropReplayedRedefers(m, q, dq) ==
    /\ m.what \notin Replayable(state)
    /\ queue' = q
    /\ deferred' = Append(dq, m)
    /\ Stay
    /\ UNCHANGED <<timers, remoteDeviceList, rtspVars, linkVars, outsideVars>>

DropReplayed(m, q, dq) ==
    /\ m.what \notin Replayable(state)
    /\ queue' = q
    /\ deferred' = dq
    /\ Stay
    /\ UNCHANGED <<timers, remoteDeviceList, rtspVars, linkVars, outsideVars>>

\* ProcessDeferredMessages, one message.
ProcessDeferredMessage ==
    /\ looper = "transfer"
    /\ deferred # <<>>
    /\ \/ ConnectWhenDisconnected(Head(deferred), queue, Tail(deferred))
       \/ DeferWhenConnecting(Head(deferred), queue, Tail(deferred))
       \/ PlayWhenPaused(Head(deferred), queue, Tail(deferred))
       \/ DropReplayed(Head(deferred), queue, Tail(deferred))

\* Bug: TransferTo returns with messages still deferred.
TransferDoneEarly ==
    /\ looper = "transfer"
    /\ looper' = "idle"
    /\ after' = NoDevice
    /\ remoteDeviceList' = RemoveRemoteDevice(remoteDeviceList, after)
    /\ UNCHANGED <<state, deferred, queue, timers, rtspVars, linkVars, outsideVars>>

\* TransferTo returns: the handler drops the device it was asked to.
TransferDone ==
    /\ looper = "transfer"
    /\ deferred = <<>>
    /\ looper' = "idle"
    /\ after' = NoDevice
    /\ remoteDeviceList' = RemoveRemoteDevice(remoteDeviceList, after)
    /\ UNCHANGED <<state, deferred, queue, timers, rtspVars, linkVars, outsideVars>>

-----------------------------------------------------------------------------
(* Handlers of messages taken from the looper's queue *)

\* DisconnectedState, MSG_DISCONNECT: nothing is reported to the listeners.
DisconnectWhenDisconnected(m, q) ==
    /\ state = "DISCONNECTED"
    /\ m.what = "DISCONNECT"
    /\ queue' = q
    /\ DisconnectPhysicalLink(m.dev)
    /\ remoteDeviceList' = RemoveRemoteDevice(remoteDeviceList, m.dev)
    /\ UNCHANGED <<loopVars, timers, rtspVars, outsideVars>>

\* HandleSetupMessage: ProcessSetUp always fails, as SetupRemoteControl does.
\* The channels stay open and the timeout stays armed.
SetupWhenConnecting(m, q) ==
    /\ state = "CONNECTING"
    /\ m.what = "SETUP"
    /\ ActionTearDown(q)
    /\ DisconnectPhysicalLink(m.dev)
    /\ TransferAndDrop(m.dev)
    /\ UNCHANGED <<deferred, timers, remoteDeviceList, outsideVars>>

\* HandleDisconnectMessage
DisconnectWhenConnecting(m, q) ==
    /\ state = "CONNECTING"
    /\ m.what = "DISCONNECT"
    /\ ProcessDisconnect(q)
    /\ timers' = 0
    /\ TransferAndDrop(m.dev)
    /\ UNCHANGED <<deferred, remoteDeviceList, linkVars, outsideVars>>

\* Bug: the connect timeout is not removed.
RenderReadyKeepsTimeout(m, q) ==
    /\ state = "CONNECTING"
    /\ m.what = "PEER_RENDER_READY"
    /\ queue' = q
    /\ \/ /\ streamMode
          /\ remoteDeviceList' = ChangeDeviceState(remoteDeviceList, m.dev, "STREAM")
          /\ TransferTo("STREAM")
       \/ /\ ~streamMode
          /\ Stay
          /\ UNCHANGED remoteDeviceList
    /\ UNCHANGED <<deferred, timers, rtspVars, linkVars, outsideVars>>

\* HandleRenderReadyMessage
RenderReadyWhenConnecting(m, q) ==
    /\ state = "CONNECTING"
    /\ m.what = "PEER_RENDER_READY"
    /\ queue' = q
    /\ \/ /\ streamMode
          /\ timers' = 0
          /\ remoteDeviceList' = ChangeDeviceState(remoteDeviceList, m.dev, "STREAM")
          /\ TransferTo("STREAM")
       \/ /\ ~streamMode
          /\ Stay
          /\ UNCHANGED <<timers, remoteDeviceList>>
    /\ UNCHANGED <<deferred, rtspVars, linkVars, outsideVars>>

\* Bug: the devices are not removed from the list.
ErrorKeepsDevices(m, q) ==
    /\ state # "DISCONNECTED"
    /\ m.what = "ERROR"
    /\ ProcessDisconnect(q)
    /\ linked' = IF HasPhysicalLink THEN {d \in linked : ~Listed(d)} ELSE linked
    /\ TransferAndDrop(NoDevice)
    /\ UNCHANGED <<deferred, timers, remoteDeviceList, reporting, outsideVars>>

\* ProcessError, then TransferTo(disconnectingState_), in ConnectingState and
\* in ConnectedState.  The timeout stays armed.
ErrorWhenEngaged(m, q) ==
    /\ state # "DISCONNECTED"
    /\ m.what = "ERROR"
    /\ ProcessDisconnect(q)
    /\ remoteDeviceList' = <<>>
    /\ linked' = IF HasPhysicalLink THEN {d \in linked : ~Listed(d)} ELSE linked
    /\ TransferAndDrop(NoDevice)
    /\ UNCHANGED <<deferred, timers, reporting, outsideVars>>

\* ConnectedState, MSG_CONNECT ("Designed for 1->N scenarios").
ConnectWhenConnected(m, q) ==
    /\ state \in ConnectedFamily
    /\ m.what = "CONNECT"
    /\ \/ /\ ProcessConnectDone(m.dev, q)
          /\ remoteDeviceList' = ChangeDeviceState(remoteDeviceList, m.dev, "PAUSED")
          /\ IF state = "PAUSED" THEN Stay ELSE TransferTo("PAUSED")
       \/ /\ ProcessConnectFails(m.dev, q)
          /\ remoteDeviceList' = ChangeDeviceState(remoteDeviceList, m.dev, "DISCONNECTED")
          /\ Stay
    /\ UNCHANGED <<deferred, timers, linkVars, outsideVars>>

\* Bug: the device is not removed from the list.
DisconnectKeepsDevice(m, q) ==
    /\ state \in ConnectedFamily
    /\ m.what = "DISCONNECT"
    /\ ProcessDisconnect(q)
    /\ TransferAndDrop(NoDevice)
    /\ UNCHANGED <<deferred, timers, remoteDeviceList, linkVars, outsideVars>>

\* ConnectedState, MSG_DISCONNECT
DisconnectWhenConnected(m, q) ==
    /\ state \in ConnectedFamily
    /\ m.what = "DISCONNECT"
    /\ ProcessDisconnect(q)
    /\ TransferAndDrop(m.dev)
    /\ UNCHANGED <<deferred, timers, remoteDeviceList, linkVars, outsideVars>>

\* ConnectedState, MSG_PLAY_REQ in the leaf states that do not handle it.
DeferPlayReqWhenConnected(m, q) ==
    /\ state \in ConnectedFamily \ {"PAUSED", "PLAYING"}
    /\ m.what = "PLAY_REQ"
    /\ queue' = q
    /\ deferred' = Append(deferred, m)
    /\ UNCHANGED <<state, looper, after, timers, remoteDeviceList, rtspVars, linkVars, outsideVars>>

\* PlayingState, MSG_PAUSE and MSG_PAUSE_REQ
PauseWhenPlaying(m, q) ==
    /\ state = "PLAYING"
    /\ m.what \in {"PAUSE", "PAUSE_REQ"}
    /\ queue' = q
    /\ remoteDeviceList' = ChangeDeviceState(remoteDeviceList, m.dev, "PAUSED")
    /\ TransferTo("PAUSED")
    /\ UNCHANGED <<deferred, timers, rtspVars, linkVars, outsideVars>>

\* StreamState, a peer's request to create the stream channel.
StreamChannelWhenStream(m, q) ==
    /\ state = "STREAM"
    /\ m.what = "STREAM_CHANNEL"
    /\ \/ queue' = q /\ channels' = channels + 1
       \/ queue' = Append(q, ErrorMsg) /\ UNCHANGED channels
    /\ UNCHANGED <<loopVars, timers, remoteDeviceList, rtspActive, rtspDevice,
                   streamMode, isTearDownReceived, linkVars, outsideVars>>

\* The switches between mirror and stream: (message, from, to) with the state
\* reported for the front device of the list.
Switch == {[what |-> "SWITCH_TO_MIRROR",  from |-> "STREAM",           to |-> "STREAM_TO_MIRROR"],
           [what |-> "SWITCH_TO_STREAM",  from |-> "PLAYING",          to |-> "MIRROR_TO_STREAM"],
           [what |-> "PEER_RENDER_READY", from |-> "STREAM_TO_MIRROR", to |-> "PLAYING"],
           [what |-> "PEER_RENDER_FAIL",  from |-> "STREAM_TO_MIRROR", to |-> "STREAM"]}

SwitchMode(m, q) == \E sw \in Switch :
    /\ state = sw.from
    /\ m.what = sw.what
    /\ m.what \in {"SWITCH_TO_MIRROR", "SWITCH_TO_STREAM"} => EndType = "SOURCE"
    /\ queue' = q
    /\ remoteDeviceList' = ChangeDeviceState(remoteDeviceList, CurrentRemoteDevice, sw.to)
    /\ TransferTo(sw.to)
    /\ UNCHANGED <<deferred, timers, rtspVars, linkVars, outsideVars>>

\* What the leaf state, or its parent, takes notice of.
Handled(s) ==
    CASE s = "DISCONNECTED" -> {"CONNECT", "DISCONNECT"}
      [] s = "CONNECTING"   -> {"CONNECT", "PLAY", "PLAY_REQ", "SETUP", "DISCONNECT",
                                "ERROR", "PEER_RENDER_READY"}
      [] s = "PAUSED"       -> {"CONNECT", "DISCONNECT", "ERROR", "PLAY", "PLAY_REQ"}
      [] s = "PLAYING"      -> {"CONNECT", "DISCONNECT", "ERROR", "PAUSE", "PAUSE_REQ"}
                               \cup (IF EndType = "SOURCE" THEN {"SWITCH_TO_STREAM"} ELSE {})
      [] s = "STREAM"       -> {"CONNECT", "DISCONNECT", "ERROR", "PLAY_REQ", "STREAM_CHANNEL"}
                               \cup (IF EndType = "SOURCE" THEN {"SWITCH_TO_MIRROR"} ELSE {})
      [] s = "STREAM_TO_MIRROR" -> {"CONNECT", "DISCONNECT", "ERROR", "PLAY_REQ",
                                    "PEER_RENDER_READY", "PEER_RENDER_FAIL"}
      [] OTHER              -> {"CONNECT", "DISCONNECT", "ERROR", "PLAY_REQ"}

Ignore(m, q) ==
    /\ m.what \notin Handled(state)
    /\ queue' = q
    /\ UNCHANGED <<loopVars, timers, remoteDeviceList, rtspVars, linkVars, outsideVars>>

\* The looper takes the oldest immediate message.
HandleMessage ==
    /\ looper = "idle"
    /\ queue # <<>>
    /\ LET m == Head(queue)
           q == Tail(queue)
       IN  \/ ConnectWhenDisconnected(m, q, deferred)
           \/ DisconnectWhenDisconnected(m, q)
           \/ DeferWhenConnecting(m, q, deferred)
           \/ SetupWhenConnecting(m, q)
           \/ DisconnectWhenConnecting(m, q)
           \/ RenderReadyWhenConnecting(m, q)
           \/ ErrorWhenEngaged(m, q)
           \/ ConnectWhenConnected(m, q)
           \/ DisconnectWhenConnected(m, q)
           \/ DeferPlayReqWhenConnected(m, q)
           \/ PlayWhenPaused(m, q, deferred)
           \/ PauseWhenPlaying(m, q)
           \/ StreamChannelWhenStream(m, q)
           \/ SwitchMode(m, q)
           \/ Ignore(m, q)

\* Bug: DefaultState only logs the timeout.
HandleTimeoutIgnored ==
    /\ looper = "idle"
    /\ timers > 0
    /\ timers' = timers - 1
    /\ UNCHANGED <<loopVars, queue, remoteDeviceList, rtspVars, linkVars, outsideVars>>

\* A MSG_CONNECT_TIMEOUT comes due and is the next message in when_ order.
\* Every state hands it to DefaultState, which tears down and stays.
HandleConnectTimeout ==
    /\ looper = "idle"
    /\ timers > 0
    /\ timers' = timers - 1
    /\ ProcessDisconnect(queue)
    /\ UNCHANGED <<loopVars, remoteDeviceList, linkVars, outsideVars>>

\* The looper leaves once it is asked to and msgQueue_ is empty.
LooperExits ==
    /\ looper = "idle"
    /\ stopping = "stopped"
    /\ queue = <<>>
    /\ timers = 0
    /\ looper' = "exited"
    /\ UNCHANGED <<state, after, deferred, queue, timers, remoteDeviceList,
                   rtspVars, linkVars, outsideVars>>

-----------------------------------------------------------------------------
(* The threads that post *)

CanPost == Len(queue) + Len(deferred) < MaxQueue

Post(m) == queue' = Append(queue, m)

\* AddDevice, AddRemoteDevice: the device is looked up under the lock ...
AddDeviceLookup(c, d) ==
    /\ adding[c] = NoDevice
    /\ EndType = "SINK" \/ d \notin linked
    /\ ~Listed(d)
    /\ adding' = [adding EXCEPT ![c] = d]
    /\ UNCHANGED <<loopVars, queue, timers, remoteDeviceList, rtspVars, linkVars,
                   receiving, stopping>>

\* ... and added under a second acquisition of it.
AddDevicePush(c) ==
    /\ adding[c] # NoDevice
    /\ remoteDeviceList' = Append(remoteDeviceList, [dev |-> adding[c], st |-> "DISCONNECTED"])
    /\ reporting' = reporting \cup {adding[c]}
    /\ adding' = [adding EXCEPT ![c] = NoDevice]
    /\ UNCHANGED <<loopVars, queue, timers, rtspVars, linked, receiving, stopping>>

\* The connection to the device is up: AUTH_SUCCESS or CONNECT_START.
ReportConnected(d) ==
    /\ d \in reporting
    /\ CanPost /\ timers < MaxTimers /\ channels < MaxChannels
    /\ reporting' = reporting \ {d}
    /\ linked' = linked \cup {d}
    /\ Post(Msg("CONNECT", d))
    /\ UNCHANGED <<loopVars, timers, remoteDeviceList, rtspVars, outsideVars>>

\* It could not be opened: DISCONNECT_START.
ReportFailed(d) ==
    /\ d \in reporting
    /\ CanPost
    /\ reporting' = reporting \ {d}
    /\ Post(Msg("DISCONNECT", d))
    /\ UNCHANGED <<loopVars, timers, remoteDeviceList, rtspVars, linked, outsideVars>>

\* The ConnectionManager gives the device up by itself.
LinkDropped(d) ==
    /\ d \in linked
    /\ linked' = linked \ {d}
    /\ UNCHANGED <<loopVars, queue, timers, remoteDeviceList, rtspVars, reporting, outsideVars>>

\* RemoveDevice, Play and Pause of a client.
ClientCall(d) ==
    /\ CanPost
    /\ \E what \in {"DISCONNECT", "PLAY", "PAUSE"} : Post(Msg(what, d))
    /\ UNCHANGED <<loopVars, timers, remoteDeviceList, rtspVars, linkVars, outsideVars>>

\* A player callback: OnRenderReady or TransferToStreamMode.
PlayerCall ==
    /\ rtspDevice # NoDevice
    /\ CanPost
    /\ \E what \in {"PEER_RENDER_READY", "SWITCH_TO_STREAM"} : Post(Msg(what, NoDevice))
    /\ UNCHANGED <<loopVars, timers, remoteDeviceList, rtspVars, linkVars, outsideVars>>

\* CastStreamListenerImpl::DisconnectSession, on a player's thread.
DisconnectSession(d) ==
    /\ rtspDevice # NoDevice
    /\ Listed(d)
    /\ remoteDeviceList' = ChangeDeviceState(remoteDeviceList, d, "DISCONNECTED")
    /\ UNCHANGED <<loopVars, queue, timers, rtspVars, linkVars, outsideVars>>

-----------------------------------------------------------------------------
(* The channel threads.  A thread that has entered a callback finishes it   *)
(* whatever the session does meanwhile, closing its channel included.       *)

Receive ==
    /\ channels > 0
    /\ ~receiving
    /\ receiving' = TRUE
    /\ UNCHANGED <<loopVars, queue, timers, remoteDeviceList, rtspVars, linkVars, adding, stopping>>

CallbackEnds == receiving /\ CanPost /\ receiving' = FALSE

\* Requests and events of the peer that only post a message.
PeerMessages ==
    {ErrorMsg, Msg("PLAY_REQ", rtspDevice), Msg("PAUSE_REQ", NoDevice),
     Msg("PEER_RENDER_READY", NoDevice), Msg("PEER_RENDER_FAIL", NoDevice),
     Msg("SWITCH_TO_STREAM", NoDevice), Msg("SWITCH_TO_MIRROR", NoDevice),
     Msg("STREAM_CHANNEL", NoDevice)}
    \cup (IF EndType = "SOURCE" THEN {Msg("PEER_RENDER_READY", rtspDevice)} ELSE {})

OnPeerMessage ==
    /\ CallbackEnds
    /\ channels < MaxChannels
    /\ \E m \in PeerMessages : Post(m)
    /\ UNCHANGED <<loopVars, timers, remoteDeviceList, rtspVars, linkVars, adding, stopping>>

\* OnSetup takes over the negotiated parameters; the projection mode in them
\* is what the peer's SET_PARAMETER named last.
OnSetup ==
    /\ CallbackEnds
    /\ streamMode' \in BOOLEAN
    /\ Post(Msg("SETUP", rtspDevice))
    /\ UNCHANGED <<loopVars, timers, remoteDeviceList, rtspActive, rtspDevice, channels,
                   isTearDownReceived, linkVars, adding, stopping>>

\* ProcessStreamMode: the peer triggers SETUP and the negotiated mode is STREAM.
ProcessStreamMode ==
    /\ CallbackEnds
    /\ streamMode' = TRUE
    /\ Post(Msg("PEER_RENDER_READY", rtspDevice))
    /\ UNCHANGED <<loopVars, timers, remoteDeviceList, rtspActive, rtspDevice, channels,
                   isTearDownReceived, linkVars, adding, stopping>>

\* A peer's TEARDOWN.  As a trigger method it reports OnTearDown; as a request
\* of its own it also reports OnError, for ProcessTearDownRequest compares the
\* request line with "Teardown" and so never comes to its StopEngine.
OnTearDown ==
    /\ CallbackEnds
    /\ \E reports \in 1 .. 2 : queue' = queue \o Errors(reports)
    /\ isTearDownReceived' = TRUE
    /\ UNCHANGED <<loopVars, timers, remoteDeviceList, rtspActive, rtspDevice, channels,
                   streamMode, linkVars, adding, stopping>>

\* OnChannelRemoved, the peer closed the channel.
OnChannelRemoved ==
    /\ CallbackEnds
    /\ queue' = IF KeepsPlaying THEN queue ELSE Append(queue, ErrorMsg)
    /\ UNCHANGED <<loopVars, timers, remoteDeviceList, rtspVars, linkVars, adding, stopping>>

-----------------------------------------------------------------------------
(* Release, on a thread of its own, and the service's Stop *)

\* RemoveDeviceInner for every listed device.
Release ==
    /\ stopping = "no"
    /\ stopping' = "released"
    /\ queue' = queue \o [i \in DOMAIN remoteDeviceList |->
                              Msg("DISCONNECT", remoteDeviceList[i].dev)]
    /\ UNCHANGED <<loopVars, timers, remoteDeviceList, rtspVars, linkVars, receiving, adding>>

\* Stop: RemoveMessage(MSG_CONNECT_TIMEOUT) ...
StopRemovesTimeout ==
    /\ stopping = "released"
    /\ stopping' = "stopping"
    /\ timers' = 0
    /\ UNCHANGED <<loopVars, queue, remoteDeviceList, rtspVars, linkVars, receiving, adding>>

\* ... then StopSafty(true).
StopSafty ==
    /\ stopping = "stopping"
    /\ stopping' = "stopped"
    /\ UNCHANGED <<loopVars, queue, timers, remoteDeviceList, rtspVars, linkVars, receiving, adding>>

\* The session is gone: the looper has left and nobody waits for it.
Stopped == looper = "exited" /\ UNCHANGED vars

-----------------------------------------------------------------------------

Init ==
    /\ state = "DISCONNECTED" /\ looper = "idle" /\ after = NoDevice /\ deferred = <<>>
    /\ queue = <<>> /\ timers = 0 /\ remoteDeviceList = <<>>
    /\ rtspActive = FALSE /\ rtspDevice = NoDevice /\ channels = 0
    /\ streamMode = FALSE /\ isTearDownReceived = FALSE
    /\ reporting = {} /\ linked = {}
    /\ receiving = FALSE /\ adding = [c \in Callers |-> NoDevice] /\ stopping = "no"

LooperNext == HandleMessage \/ HandleConnectTimeout \/ LooperExits
              \/ ProcessDeferredMessage \/ TransferDone

CallerNext == \E c \in Callers : AddDevicePush(c) \/ \E d \in Devices : AddDeviceLookup(c, d)

LinkNext == \E d \in Devices : ReportConnected(d) \/ ReportFailed(d) \/ LinkDropped(d)

ClientNext == PlayerCall \/ \E d \in Devices : ClientCall(d) \/ DisconnectSession(d)

ChannelNext == Receive \/ OnPeerMessage \/ OnSetup \/ ProcessStreamMode \/ OnTearDown
               \/ OnChannelRemoved

StopNext == Release \/ StopRemovesTimeout \/ StopSafty

Next == LooperNext \/ CallerNext \/ LinkNext \/ ClientNext \/ ChannelNext \/ StopNext
        \/ Stopped

Spec == Init /\ [][Next]_vars

\* The looper thread keeps running and the clock advances: whatever is queued
\* is eventually taken, and an armed timeout comes due.  A Stop once begun runs
\* on.  Callers, peers and clients owe the session nothing.
Fairness == WF_vars(LooperNext) /\ WF_vars(HandleConnectTimeout) /\ WF_vars(StopSafty)

FairSpec == Spec /\ Fairness
-----------------------------------------------------------------------------
(* Properties *)

TypeOK ==
    /\ state \in SessionStates
    /\ looper \in {"idle", "transfer", "exited"}
    /\ after \in DeviceOrNone
    /\ queue \in Seq(Message)
    /\ timers \in Nat
    /\ deferred \in Seq(Message)
    /\ remoteDeviceList \in Seq(RemoteDevice)
    /\ rtspActive \in BOOLEAN
    /\ rtspDevice \in DeviceOrNone
    /\ channels \in Nat
    /\ streamMode \in BOOLEAN
    /\ isTearDownReceived \in BOOLEAN
    /\ receiving \in BOOLEAN
    /\ adding \in [Callers -> DeviceOrNone]
    /\ reporting \subseteq Devices
    /\ linked \subseteq Devices
    /\ stopping \in {"no", "released", "stopping", "stopped"}

Has(q, what) == \E i \in DOMAIN q : q[i].what = what
Waiting(what) == Has(queue, what)

\* An established connection is never torn down by a connect timeout: none is
\* armed, although the error paths never cancel the one of an earlier attempt
\* (cast_session_state.cpp 320-342, 147).
NoTimeoutWhenConnected == state \in ConnectedFamily => timers = 0

\* A session that is not disconnected has a running RTSP engine, or the
\* MSG_ERROR that will disconnect it is already queued: the state machine
\* never waits on an engine that stopped without telling it.
EngagedHasEngine == state # "DISCONNECTED" => rtspActive \/ Waiting("ERROR")

\* A disconnected session has no running RTSP engine, by whichever of its
\* exits (set-up, disconnect, error, failed connect) it was left.
EngineStopsWithSession == state = "DISCONNECTED" => ~rtspActive

\* Connecting is never open-ended: a timeout is armed, or an error is queued,
\* unless Stop has removed the timeout.
ConnectingIsTimed ==
    state = "CONNECTING" =>
        timers > 0 \/ Waiting("ERROR") \/ stopping \in {"stopping", "stopped"}

\* Messages stay deferred only while a transfer that can replay them is still
\* to come; a session at rest in DISCONNECTED has none left over.
DeferredAwaitsTransfer ==
    looper = "idle" /\ deferred # <<>> => state # "DISCONNECTED"

\* With one device, a session at rest in DISCONNECTED lists no device in any
\* other state: whatever a client was told last agrees with the session.
DisconnectedDevicesAgree ==
    looper = "idle" /\ state = "DISCONNECTED" =>
        \A i \in DOMAIN remoteDeviceList : remoteDeviceList[i].st = "DISCONNECTED"

\* The session is a connection that is down, tried or up, with an engine, errors
\* and a timeout of its own time: whatever the handlers of its seven states do to
\* them, in whatever order, is a step of SessionPromise.  An error that waits is
\* taken only by the end of the connection, a timeout comes only before it is up,
\* an engine starts with an attempt and stops with its end
\* (cast_session_state.cpp, cast_session_impl.cpp).
Phase ==
    CASE state = "DISCONNECTED" -> "down"
      [] state = "CONNECTING"   -> "trying"
      [] OTHER                  -> "up"

Promise == INSTANCE SessionPromise
    WITH phase <- Phase, engine <- rtspActive, error <- Waiting("ERROR"), clock <- timers > 0,
         leaving <- stopping \in {"stopping", "stopped"}, gone <- looper = "exited"

LivesAsPromised == Promise!Spec

\* The looper replays a deferred message into the state that defers it again,
\* and never comes back from ProcessDeferredMessages.
Churning == looper = "transfer" /\ state = "CONNECTING" /\ deferred # <<>>

\* An attempt to connect comes to an end: connected, failed or timed out,
\* unless a Stop takes its timeout away.
ConnectingEnds ==
    (state = "CONNECTING" /\ looper = "idle")
        ~> (state # "CONNECTING" \/ stopping \in {"stopping", "stopped"})

\* A transfer returns to the looper, unless it reconnected with a second
\* message still deferred.
TransferReturns == (looper = "transfer") ~> (looper = "idle" \/ Churning)

\* RemoveDevice is honoured in every state: the device leaves the list.
RemoveDeviceCompletes ==
    \A d \in Devices :
        (\E i \in DOMAIN queue : queue[i] = Msg("DISCONNECT", d))
            ~> (~Listed(d) \/ looper = "exited" \/ Churning)
=============================================================================
