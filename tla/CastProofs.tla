----------------------------- MODULE CastProofs -----------------------------
(***************************************************************************)
(* A session and the stream it carries (CastSession, StreamPlayer), each   *)
(* proved for every value of its constants.                                *)
(*                                                                         *)
(* CastSession and its promises come first.  StreamPlayer reaches what was *)
(* asked of it, or tells an error: StreamIInv says of each kind of call what *)
(* the last one on its way tells, and, when none is, what its end knows.   *)
(***************************************************************************)
EXTENDS CastSession, StreamPlayer, SequenceTheorems, WellFoundedInduction, TLAPS

-----------------------------------------------------------------------------
(* The operators on queues and on the device list *)

\* A handler's self-posted errors are messages.
LEMMA ErrorsType ==
    ASSUME NEW n \in Nat
    PROVE  Errors(n) \in Seq(Message) /\ Len(Errors(n)) = n
BY DEF Errors, ErrorMsg, Msg, Message, MessageIds, DeviceOrNone

LEMMA ErrorsAppended ==
    ASSUME NEW q \in Seq(Message), NEW n \in Nat
    PROVE  q \o Errors(n) \in Seq(Message)
BY ErrorsType

\* Reporting a device's state keeps the list a list of devices.
LEMMA ChangeDeviceStateType ==
    ASSUME NEW list \in Seq(RemoteDevice), NEW d, NEW st \in DeviceStates
    PROVE  ChangeDeviceState(list, d, st) \in Seq(RemoteDevice)
<1>1. \A i \in 1 .. Len(list) : list[i] \in RemoteDevice
    OBVIOUS
<1>2. \A r \in RemoteDevice : [r EXCEPT !.st = st] \in RemoteDevice
    BY DEF RemoteDevice
<1>3. ChangeDeviceState(list, d, st) \in [1 .. Len(list) -> RemoteDevice]
    BY <1>1, <1>2 DEF ChangeDeviceState
<1> QED
    BY <1>3

\* So does erasing the first entry of a device.
LEMMA RemoveRemoteDeviceType ==
    ASSUME NEW list \in Seq(RemoteDevice), NEW d
    PROVE  RemoveRemoteDevice(list, d) \in Seq(RemoteDevice)
<1> DEFINE found == \E i \in DOMAIN list : list[i].dev = d
<1> DEFINE n == IF found THEN Len(list) - 1 ELSE Len(list)
<1>1. n \in Nat
    <2>1. CASE found
        BY <2>1
    <2>2. CASE ~found
        BY <2>2
    <2> QED
        BY <2>1, <2>2
<1>2. ASSUME NEW k \in 1 .. n
      PROVE  (IF \E j \in 1 .. k : list[j].dev = d THEN list[k + 1] ELSE list[k]) \in RemoteDevice
    <2>1. CASE \E j \in 1 .. k : list[j].dev = d
        <3>1. found
            BY <2>1, <1>2
        <3>2. k + 1 \in 1 .. Len(list)
            BY <3>1, <1>2
        <3> QED
            BY <2>1, <3>2
    <2>2. CASE ~ \E j \in 1 .. k : list[j].dev = d
        <3>1. k \in 1 .. Len(list)
            BY <1>2
        <3> QED
            BY <2>2, <3>1
    <2> QED
        BY <2>1, <2>2
<1>3. RemoveRemoteDevice(list, d) =
        [k \in 1 .. n |-> IF \E j \in 1 .. k : list[j].dev = d THEN list[k + 1] ELSE list[k]]
    BY DEF RemoveRemoteDevice
<1>4. RemoveRemoteDevice(list, d) \in [1 .. n -> RemoteDevice]
    BY <1>2, <1>3
<1> QED
    BY <1>1, <1>4

\* What the handlers assume of the message they are given is what the queues
\* hold.
LEMMA QueueEnds ==
    ASSUME NEW s \in Seq(Message), s # <<>>
    PROVE  /\ Head(s) \in Message /\ Tail(s) \in Seq(Message)
           /\ Head(s).what \in MessageIds /\ Head(s).dev \in DeviceOrNone
<1>1. Head(s) \in Message /\ Tail(s) \in Seq(Message)
    OBVIOUS
<1> QED
    BY <1>1 DEF Message

LEMMA MsgType ==
    ASSUME NEW what \in MessageIds, NEW d \in DeviceOrNone
    PROVE  Msg(what, d) \in Message
BY DEF Msg, Message

-----------------------------------------------------------------------------
(* Type correctness *)

LEMMA TypeInit == Init => TypeOK
<1> SUFFICES ASSUME Init PROVE TypeOK
    OBVIOUS
<1>1. <<>> \in Seq(Message) /\ <<>> \in Seq(RemoteDevice)
    OBVIOUS
<1>2. adding \in [Callers -> DeviceOrNone]
    BY DEF Init, DeviceOrNone
<1> QED
    BY <1>1, <1>2 DEF Init, TypeOK, SessionStates, DeviceOrNone

\* What tearing down does to the variables it owns.
LEMMA TearDownType ==
    ASSUME TypeOK, NEW q \in Seq(Message), ActionTearDown(q) \/ ProcessDisconnect(q)
    PROVE  /\ queue' \in Seq(Message) /\ rtspActive' \in BOOLEAN /\ channels' \in Nat
           /\ rtspDevice' \in DeviceOrNone /\ streamMode' \in BOOLEAN
           /\ isTearDownReceived' \in BOOLEAN
<1>1. TearDownErrors \in Nat /\ TearDownErrors + ChannelErrors \in Nat
    BY DEF TearDownErrors, ChannelErrors, TypeOK
<1>2. queue' \in Seq(Message)
    BY <1>1, ErrorsAppended DEF ActionTearDown, ProcessDisconnect
<1>3. channels' \in Nat
    BY DEF ActionTearDown, ProcessDisconnect, TypeOK
<1>4. /\ rtspActive' \in BOOLEAN /\ streamMode' \in BOOLEAN /\ isTearDownReceived' \in BOOLEAN
      /\ rtspDevice' \in DeviceOrNone
    BY Zenon DEF ActionTearDown, ProcessDisconnect, TypeOK
<1> QED
    BY <1>2, <1>3, <1>4

LEMMA ProcessConnectType ==
    ASSUME TypeOK, NEW q \in Seq(Message), NEW d \in DeviceOrNone,
           ProcessConnectDone(d, q) \/ ProcessConnectFails(d, q)
    PROVE  /\ queue' \in Seq(Message) /\ rtspActive' \in BOOLEAN /\ channels' \in Nat
           /\ rtspDevice' \in DeviceOrNone /\ streamMode' \in BOOLEAN
           /\ isTearDownReceived' \in BOOLEAN
<1>1. CASE ProcessConnectDone(d, q)
    BY <1>1 DEF ProcessConnectDone, InitRtspParamInfo, TypeOK
<1>2. CASE ProcessConnectNoChannel(d, q)
    <2>1. queue' \in Seq(Message)
        BY <1>2, ErrorsAppended DEF ProcessConnectNoChannel
    <2> QED
        BY <1>2, <2>1 DEF ProcessConnectNoChannel, InitRtspParamInfo, TypeOK
<1>3. CASE ProcessConnectNoDevice(d, q)
    BY <1>3 DEF ProcessConnectNoDevice, rtspVars, TypeOK
<1> QED
    BY <1>1, <1>2, <1>3 DEF ProcessConnectFails

LEMMA StatesAreStates ==
    /\ DeviceStates = SessionStates
    /\ ConnectedFamily \subseteq SessionStates
    /\ "DISCONNECTED" \in SessionStates /\ "CONNECTING" \in SessionStates
    /\ "PAUSED" \in SessionStates /\ "PLAYING" \in SessionStates /\ "STREAM" \in SessionStates
    /\ "MIRROR_TO_STREAM" \in SessionStates /\ "STREAM_TO_MIRROR" \in SessionStates
BY DEF DeviceStates, SessionStates, ConnectedFamily

\* The part of TypeOK that no handler touches, and the part every one does.
OutsideType ==
    /\ receiving \in BOOLEAN
    /\ adding \in [Callers -> DeviceOrNone]
    /\ stopping \in {"no", "released", "stopping", "stopped"}
LinkType == reporting \subseteq Devices /\ linked \subseteq Devices
RtspType ==
    /\ rtspActive \in BOOLEAN /\ rtspDevice \in DeviceOrNone /\ channels \in Nat
    /\ streamMode \in BOOLEAN /\ isTearDownReceived \in BOOLEAN
LoopType ==
    /\ state \in SessionStates
    /\ looper \in {"idle", "transfer", "exited"}
    /\ after \in DeviceOrNone
    /\ deferred \in Seq(Message)

LEMMA TypeParts ==
    TypeOK <=> /\ LoopType /\ LinkType /\ RtspType /\ OutsideType
               /\ queue \in Seq(Message) /\ timers \in Nat
               /\ remoteDeviceList \in Seq(RemoteDevice)
BY Zenon DEF TypeOK, LoopType, LinkType, RtspType, OutsideType

LEMMA TypePartsNext ==
    TypeOK' <=> /\ LoopType' /\ LinkType' /\ RtspType' /\ OutsideType'
                /\ queue' \in Seq(Message) /\ timers' \in Nat
                /\ remoteDeviceList' \in Seq(RemoteDevice)
BY Zenon DEF TypeOK, LoopType, LinkType, RtspType, OutsideType

\* Groups of variables that a step leaves alone keep their types.
LEMMA UnchangedType ==
    ASSUME TypeOK
    PROVE  /\ UNCHANGED outsideVars => OutsideType'
           /\ UNCHANGED linkVars => LinkType'
           /\ UNCHANGED rtspVars => RtspType'
           /\ UNCHANGED loopVars => LoopType'
<1>1. UNCHANGED outsideVars => OutsideType'
    BY Zenon, TypeParts DEF OutsideType, outsideVars
<1>2. UNCHANGED linkVars => LinkType'
    BY Zenon, TypeParts DEF LinkType, linkVars
<1>3. UNCHANGED rtspVars => RtspType'
    BY Zenon, TypeParts DEF RtspType, rtspVars
<1>4. UNCHANGED loopVars => LoopType'
    BY Zenon, TypeParts DEF LoopType, loopVars
<1> QED
    BY <1>1, <1>2, <1>3, <1>4

LEMMA TransferType ==
    ASSUME TypeOK, deferred' \in Seq(Message)
    PROVE  /\ \A s \in SessionStates : TransferTo(s) => LoopType'
           /\ \A d \in DeviceOrNone : TransferAndDrop(d) => LoopType'
           /\ Stay => LoopType'
<1>1. ASSUME NEW s \in SessionStates, TransferTo(s) PROVE LoopType'
    BY <1>1, TypeParts DEF LoopType, TransferTo
<1>2. ASSUME NEW d \in DeviceOrNone, TransferAndDrop(d) PROVE LoopType'
    BY <1>2, TypeParts, StatesAreStates DEF LoopType, TransferAndDrop
<1>3. ASSUME Stay PROVE LoopType'
    BY <1>3, TypeParts DEF LoopType, Stay
<1> QED
    BY <1>1, <1>2, <1>3

LEMMA PhysicalLinkType ==
    ASSUME TypeOK, NEW d, DisconnectPhysicalLink(d)
    PROVE  LinkType'
BY TypeParts DEF LinkType, DisconnectPhysicalLink

\* The handlers a deferred message can reach keep the types.
LEMMA ReplayableType ==
    ASSUME TypeOK, NEW m \in Message, NEW q \in Seq(Message), NEW dq \in Seq(Message),
           \/ ConnectWhenDisconnected(m, q, dq) \/ DeferWhenConnecting(m, q, dq)
           \/ PlayWhenPaused(m, q, dq) \/ DropReplayed(m, q, dq)
    PROVE  TypeOK'
<1> USE TypeParts
<1>0. m.dev \in DeviceOrNone
    BY DEF Message
<1>1. CASE ConnectWhenDisconnected(m, q, dq)
    <2>1. deferred' \in Seq(Message) /\ OutsideType' /\ LinkType'
        BY <1>1, UnchangedType DEF ConnectWhenDisconnected, outsideVars, linkVars
    <2>2. CASE /\ ProcessConnectDone(m.dev, q)
               /\ remoteDeviceList' = ChangeDeviceState(remoteDeviceList, m.dev, "CONNECTING")
               /\ timers' = timers + 1
               /\ TransferTo("CONNECTING")
        <3>1. queue' \in Seq(Message) /\ RtspType'
            BY <2>2, <1>0, ProcessConnectType DEF RtspType
        <3>2. LoopType'
            BY <2>1, <2>2, TransferType, StatesAreStates
        <3>3. remoteDeviceList' \in Seq(RemoteDevice) /\ timers' \in Nat
            BY <2>2, ChangeDeviceStateType, StatesAreStates
        <3> QED
            BY <2>1, <3>1, <3>2, <3>3, TypePartsNext
    <2>3. CASE /\ ProcessConnectFails(m.dev, q)
               /\ remoteDeviceList' = ChangeDeviceState(remoteDeviceList, m.dev, "DISCONNECTED")
               /\ UNCHANGED timers
               /\ Stay
        <3>1. queue' \in Seq(Message) /\ RtspType'
            BY <2>3, <1>0, ProcessConnectType DEF RtspType
        <3>2. LoopType'
            BY <2>1, <2>3, TransferType
        <3>3. remoteDeviceList' \in Seq(RemoteDevice) /\ timers' \in Nat
            BY <2>3, ChangeDeviceStateType, StatesAreStates
        <3> QED
            BY <2>1, <3>1, <3>2, <3>3, TypePartsNext
    <2> QED
        BY <1>1, <2>2, <2>3 DEF ConnectWhenDisconnected
<1>2. CASE DeferWhenConnecting(m, q, dq)
    <2>1. deferred' \in Seq(Message)
        BY <1>2 DEF DeferWhenConnecting
    <2>2. OutsideType' /\ LinkType' /\ RtspType'
        BY <1>2, UnchangedType DEF DeferWhenConnecting, outsideVars, linkVars, rtspVars
    <2>3. LoopType'
        BY <1>2, <2>1, TransferType DEF DeferWhenConnecting
    <2> QED
        BY <1>2, <2>2, <2>3, TypePartsNext DEF DeferWhenConnecting
<1>3. CASE PlayWhenPaused(m, q, dq)
    <2>1. deferred' \in Seq(Message)
        BY <1>3 DEF PlayWhenPaused
    <2>2. OutsideType' /\ LinkType' /\ RtspType'
        BY <1>3, UnchangedType DEF PlayWhenPaused, outsideVars, linkVars, rtspVars
    <2>3. LoopType'
        BY <1>3, <2>1, TransferType, StatesAreStates DEF PlayWhenPaused
    <2>4. remoteDeviceList' \in Seq(RemoteDevice)
        BY <1>3, ChangeDeviceStateType, StatesAreStates DEF PlayWhenPaused
    <2> QED
        BY <1>3, <2>2, <2>3, <2>4, TypePartsNext DEF PlayWhenPaused
<1>4. CASE DropReplayed(m, q, dq)
    <2>1. deferred' \in Seq(Message)
        BY <1>4 DEF DropReplayed
    <2>2. OutsideType' /\ LinkType' /\ RtspType'
        BY <1>4, UnchangedType DEF DropReplayed, outsideVars, linkVars, rtspVars
    <2>3. LoopType'
        BY <1>4, <2>1, TransferType DEF DropReplayed
    <2> QED
        BY <1>4, <2>2, <2>3, TypePartsNext DEF DropReplayed
<1> QED
    BY <1>1, <1>2, <1>3, <1>4

\* So do the handlers of messages that only the looper's queue delivers.
LEMMA LooperHandlersType ==
    ASSUME TypeOK, NEW m \in Message, NEW q \in Seq(Message),
           \/ DisconnectWhenDisconnected(m, q) \/ SetupWhenConnecting(m, q)
           \/ DisconnectWhenConnecting(m, q) \/ RenderReadyWhenConnecting(m, q)
           \/ ErrorWhenEngaged(m, q) \/ ConnectWhenConnected(m, q)
           \/ DisconnectWhenConnected(m, q) \/ DeferPlayReqWhenConnected(m, q)
           \/ PauseWhenPlaying(m, q) \/ StreamChannelWhenStream(m, q)
           \/ SwitchMode(m, q) \/ Ignore(m, q)
    PROVE  TypeOK'
<1> USE TypeParts
<1>0. m.dev \in DeviceOrNone /\ NoDevice \in DeviceOrNone
    BY DEF Message, DeviceOrNone
<1>1. CASE DisconnectWhenDisconnected(m, q)
    <2>1. OutsideType' /\ LoopType' /\ RtspType'
        BY <1>1, UnchangedType DEF DisconnectWhenDisconnected, outsideVars, loopVars, rtspVars
    <2>2. LinkType'
        BY <1>1, PhysicalLinkType DEF DisconnectWhenDisconnected
    <2>3. remoteDeviceList' \in Seq(RemoteDevice)
        BY <1>1, RemoveRemoteDeviceType DEF DisconnectWhenDisconnected
    <2> QED
        BY <1>1, <2>1, <2>2, <2>3, TypePartsNext DEF DisconnectWhenDisconnected
<1>2. CASE SetupWhenConnecting(m, q)
    <2>1. OutsideType' /\ deferred' \in Seq(Message)
        BY <1>2, UnchangedType DEF SetupWhenConnecting, outsideVars, LoopType
    <2>2. LoopType'
        BY <1>0, <1>2, <2>1, TransferType DEF SetupWhenConnecting
    <2>3. queue' \in Seq(Message) /\ RtspType'
        BY <1>2, TearDownType DEF SetupWhenConnecting, RtspType
    <2>4. LinkType'
        BY <1>2, PhysicalLinkType DEF SetupWhenConnecting
    <2> QED
        BY <1>2, <2>1, <2>2, <2>3, <2>4, TypePartsNext DEF SetupWhenConnecting
<1>3. CASE DisconnectWhenConnecting(m, q) \/ DisconnectWhenConnected(m, q)
    <2>1. OutsideType' /\ LinkType' /\ deferred' \in Seq(Message)
        BY <1>3, UnchangedType
        DEF DisconnectWhenConnecting, DisconnectWhenConnected, outsideVars, linkVars, LoopType
    <2>2. LoopType'
        BY <1>0, <1>3, <2>1, TransferType DEF DisconnectWhenConnecting, DisconnectWhenConnected
    <2>3. queue' \in Seq(Message) /\ RtspType'
        BY <1>3, TearDownType DEF DisconnectWhenConnecting, DisconnectWhenConnected, RtspType
    <2>4. timers' \in Nat /\ remoteDeviceList' \in Seq(RemoteDevice)
        BY <1>3 DEF DisconnectWhenConnecting, DisconnectWhenConnected
    <2> QED
        BY <2>1, <2>2, <2>3, <2>4, TypePartsNext
<1>4. CASE RenderReadyWhenConnecting(m, q)
    <2>1. OutsideType' /\ LinkType' /\ RtspType' /\ deferred' \in Seq(Message)
        BY <1>4, UnchangedType
        DEF RenderReadyWhenConnecting, outsideVars, linkVars, rtspVars, LoopType
    <2>2. TransferTo("STREAM") \/ Stay
        BY <1>4 DEF RenderReadyWhenConnecting
    <2>3. LoopType'
        BY <2>1, <2>2, TransferType, StatesAreStates
    <2>4. timers' \in Nat /\ remoteDeviceList' \in Seq(RemoteDevice)
        BY <1>4, ChangeDeviceStateType, StatesAreStates DEF RenderReadyWhenConnecting
    <2> QED
        BY <1>4, <2>1, <2>3, <2>4, TypePartsNext DEF RenderReadyWhenConnecting
<1>5. CASE ErrorWhenEngaged(m, q)
    <2>1. OutsideType' /\ deferred' \in Seq(Message) /\ timers' \in Nat
        BY <1>5, UnchangedType DEF ErrorWhenEngaged, outsideVars, LoopType
    <2>2. LoopType'
        BY <1>0, <1>5, <2>1, TransferType DEF ErrorWhenEngaged
    <2>3. queue' \in Seq(Message) /\ RtspType'
        BY <1>5, TearDownType DEF ErrorWhenEngaged, RtspType
    <2>4. LinkType'
        BY <1>5 DEF ErrorWhenEngaged, LinkType
    <2>5. remoteDeviceList' \in Seq(RemoteDevice)
        BY <1>5 DEF ErrorWhenEngaged
    <2> QED
        BY <2>1, <2>2, <2>3, <2>4, <2>5, TypePartsNext
<1>6. CASE ConnectWhenConnected(m, q)
    <2>1. OutsideType' /\ LinkType' /\ deferred' \in Seq(Message) /\ timers' \in Nat
        BY <1>6, UnchangedType DEF ConnectWhenConnected, outsideVars, linkVars, LoopType
    <2>2. queue' \in Seq(Message) /\ RtspType'
        BY <1>0, <1>6, ProcessConnectType DEF ConnectWhenConnected, RtspType
    <2>3. TransferTo("PAUSED") \/ Stay
        BY <1>6 DEF ConnectWhenConnected
    <2>4. LoopType'
        BY <2>1, <2>3, TransferType, StatesAreStates
    <2>5. remoteDeviceList' \in Seq(RemoteDevice)
        BY <1>6, ChangeDeviceStateType, StatesAreStates DEF ConnectWhenConnected
    <2> QED
        BY <2>1, <2>2, <2>4, <2>5, TypePartsNext
<1>7. CASE DeferPlayReqWhenConnected(m, q)
    <2>1. OutsideType' /\ LinkType' /\ RtspType'
        BY <1>7, UnchangedType DEF DeferPlayReqWhenConnected, outsideVars, linkVars, rtspVars
    <2>2. deferred' \in Seq(Message) /\ UNCHANGED <<state, looper, after>>
        BY <1>7 DEF DeferPlayReqWhenConnected, LoopType
    <2>3. LoopType'
        BY <2>2 DEF LoopType
    <2> QED
        BY <1>7, <2>1, <2>3, TypePartsNext DEF DeferPlayReqWhenConnected
<1>8. CASE PauseWhenPlaying(m, q)
    <2>1. OutsideType' /\ LinkType' /\ RtspType' /\ deferred' \in Seq(Message)
        BY <1>8, UnchangedType DEF PauseWhenPlaying, outsideVars, linkVars, rtspVars, LoopType
    <2>2. LoopType'
        BY <1>8, <2>1, TransferType, StatesAreStates DEF PauseWhenPlaying
    <2>3. remoteDeviceList' \in Seq(RemoteDevice)
        BY <1>8, ChangeDeviceStateType, StatesAreStates DEF PauseWhenPlaying
    <2> QED
        BY <1>8, <2>1, <2>2, <2>3, TypePartsNext DEF PauseWhenPlaying
<1>9. CASE StreamChannelWhenStream(m, q)
    <2>1. OutsideType' /\ LinkType' /\ LoopType'
        BY <1>9, UnchangedType DEF StreamChannelWhenStream, outsideVars, linkVars, loopVars
    <2>2. queue' \in Seq(Message) /\ channels' \in Nat
        <3>1. ErrorMsg \in Message /\ channels \in Nat
            BY <1>0, MsgType DEF ErrorMsg, MessageIds, RtspType
        <3>2. \/ queue' = q /\ channels' = channels + 1
              \/ queue' = Append(q, ErrorMsg) /\ channels' = channels
            BY Zenon, <1>9 DEF StreamChannelWhenStream
        <3>3. Append(q, ErrorMsg) \in Seq(Message)
            BY <3>1
        <3>4. queue' \in Seq(Message)
            BY Zenon, <3>2, <3>3
        <3>5. channels' \in Nat
            BY <3>1, <3>2
        <3> QED
            BY <3>4, <3>5
    <2>3. RtspType'
        BY Zenon, <1>9, <2>2 DEF StreamChannelWhenStream, RtspType
    <2> QED
        BY <1>9, <2>1, <2>2, <2>3, TypePartsNext DEF StreamChannelWhenStream
<1>10. CASE SwitchMode(m, q)
    <2>1. PICK sw \in Switch :
            /\ queue' = q
            /\ remoteDeviceList' = ChangeDeviceState(remoteDeviceList, CurrentRemoteDevice, sw.to)
            /\ TransferTo(sw.to)
            /\ UNCHANGED <<deferred, timers, rtspVars, linkVars, outsideVars>>
        BY <1>10 DEF SwitchMode
    <2>2. sw.to \in SessionStates
        BY StatesAreStates DEF Switch
    <2>3. OutsideType' /\ LinkType' /\ RtspType' /\ deferred' \in Seq(Message)
        BY <2>1, UnchangedType DEF outsideVars, linkVars, rtspVars, LoopType
    <2>4. LoopType'
        BY <2>1, <2>2, <2>3, TransferType
    <2>5. remoteDeviceList' \in Seq(RemoteDevice)
        BY <2>1, <2>2, ChangeDeviceStateType, StatesAreStates
    <2> QED
        BY <2>1, <2>3, <2>4, <2>5, TypePartsNext
<1>11. CASE Ignore(m, q)
    <2>1. OutsideType' /\ LinkType' /\ RtspType' /\ LoopType'
        BY <1>11, UnchangedType DEF Ignore, outsideVars, linkVars, rtspVars, loopVars
    <2> QED
        BY <1>11, <2>1, TypePartsNext DEF Ignore
<1> QED
    BY <1>1, <1>2, <1>3, <1>4, <1>5, <1>6, <1>7, <1>8, <1>9, <1>10, <1>11

\* The rest of the looper's steps.
LEMMA LooperType ==
    ASSUME TypeOK, LooperNext
    PROVE  TypeOK'
<1> USE TypeParts
<1>1. CASE HandleMessage
    <2>1. Head(queue) \in Message /\ Tail(queue) \in Seq(Message) /\ deferred \in Seq(Message)
        BY <1>1, QueueEnds DEF HandleMessage, LoopType
    <2> DEFINE m == Head(queue)
    <2> DEFINE q == Tail(queue)
    <2>2. \/ \/ ConnectWhenDisconnected(m, q, deferred) \/ DeferWhenConnecting(m, q, deferred)
             \/ PlayWhenPaused(m, q, deferred) \/ DropReplayed(m, q, deferred)
          \/ \/ DisconnectWhenDisconnected(m, q) \/ SetupWhenConnecting(m, q)
             \/ DisconnectWhenConnecting(m, q) \/ RenderReadyWhenConnecting(m, q)
             \/ ErrorWhenEngaged(m, q) \/ ConnectWhenConnected(m, q)
             \/ DisconnectWhenConnected(m, q) \/ DeferPlayReqWhenConnected(m, q)
             \/ PauseWhenPlaying(m, q) \/ StreamChannelWhenStream(m, q)
             \/ SwitchMode(m, q) \/ Ignore(m, q)
        BY Zenon, <1>1 DEF HandleMessage
    <2> QED
        BY Zenon, <2>1, <2>2, ReplayableType, LooperHandlersType
<1>2. CASE HandleConnectTimeout
    <2>1. OutsideType' /\ LoopType' /\ LinkType'
        BY <1>2, UnchangedType DEF HandleConnectTimeout, outsideVars, loopVars, linkVars
    <2>2. queue' \in Seq(Message) /\ RtspType'
        BY <1>2, TearDownType DEF HandleConnectTimeout, RtspType
    <2>3. timers' \in Nat /\ remoteDeviceList' \in Seq(RemoteDevice)
        BY <1>2 DEF HandleConnectTimeout
    <2> QED
        BY <2>1, <2>2, <2>3, TypePartsNext
<1>3. CASE LooperExits
    <2>1. OutsideType' /\ LinkType' /\ RtspType'
        BY <1>3, UnchangedType DEF LooperExits, outsideVars, linkVars, rtspVars
    <2>2. LoopType'
        BY <1>3 DEF LooperExits, LoopType
    <2> QED
        BY <1>3, <2>1, <2>2, TypePartsNext DEF LooperExits
<1>4. CASE ProcessDeferredMessage
    <2>1. /\ Head(deferred) \in Message /\ Tail(deferred) \in Seq(Message)
          /\ queue \in Seq(Message)
        BY <1>4, QueueEnds DEF ProcessDeferredMessage, LoopType
    <2> DEFINE m == Head(deferred)
    <2> DEFINE dq == Tail(deferred)
    <2>2. \/ ConnectWhenDisconnected(m, queue, dq) \/ DeferWhenConnecting(m, queue, dq)
          \/ PlayWhenPaused(m, queue, dq) \/ DropReplayed(m, queue, dq)
        BY Zenon, <1>4 DEF ProcessDeferredMessage
    <2> QED
        BY Zenon, <2>1, <2>2, ReplayableType
<1>5. CASE TransferDone
    <2>1. OutsideType' /\ LinkType' /\ RtspType'
        BY <1>5, UnchangedType DEF TransferDone, outsideVars, linkVars, rtspVars
    <2>2. LoopType'
        BY <1>5 DEF TransferDone, LoopType, DeviceOrNone
    <2>3. remoteDeviceList' \in Seq(RemoteDevice)
        BY <1>5, RemoveRemoteDeviceType DEF TransferDone
    <2> QED
        BY <1>5, <2>1, <2>2, <2>3, TypePartsNext DEF TransferDone
<1> QED
    BY <1>1, <1>2, <1>3, <1>4, <1>5 DEF LooperNext

\* Posting one message keeps the queue a queue of messages.
LEMMA PostType ==
    ASSUME queue \in Seq(Message), NEW what \in MessageIds, NEW d \in DeviceOrNone,
           Post(Msg(what, d))
    PROVE  queue' \in Seq(Message)
BY MsgType DEF Post

\* The threads outside the looper.
LEMMA CallersType ==
    ASSUME TypeOK, CallerNext
    PROVE  TypeOK'
<1> USE TypeParts
<1>1. ASSUME NEW c \in Callers, NEW d \in Devices, AddDeviceLookup(c, d)
      PROVE  TypeOK'
    <2>1. LoopType' /\ LinkType' /\ RtspType'
        BY <1>1, UnchangedType DEF AddDeviceLookup, loopVars, linkVars, rtspVars
    <2>2. adding' \in [Callers -> DeviceOrNone]
        BY <1>1 DEF AddDeviceLookup, OutsideType, DeviceOrNone
    <2>3. OutsideType'
        BY Zenon, <1>1, <2>2 DEF AddDeviceLookup, OutsideType
    <2> QED
        BY <1>1, <2>1, <2>3, TypePartsNext DEF AddDeviceLookup
<1>2. ASSUME NEW c \in Callers, AddDevicePush(c)
      PROVE  TypeOK'
    <2>1. LoopType' /\ RtspType'
        BY <1>2, UnchangedType DEF AddDevicePush, loopVars, rtspVars
    <2>2. adding[c] \in Devices
        BY <1>2 DEF AddDevicePush, OutsideType, DeviceOrNone
    <2>3. [dev |-> adding[c], st |-> "DISCONNECTED"] \in RemoteDevice
        BY <2>2 DEF RemoteDevice, DeviceStates
    <2>4. remoteDeviceList' \in Seq(RemoteDevice) /\ LinkType'
        BY <1>2, <2>2, <2>3 DEF AddDevicePush, LinkType
    <2>5. adding' \in [Callers -> DeviceOrNone]
        BY <1>2 DEF AddDevicePush, OutsideType, DeviceOrNone
    <2>6. OutsideType'
        BY Zenon, <1>2, <2>5 DEF AddDevicePush, OutsideType
    <2> QED
        BY <1>2, <2>1, <2>4, <2>6, TypePartsNext DEF AddDevicePush
<1> QED
    BY <1>1, <1>2 DEF CallerNext

LEMMA LinkNextType ==
    ASSUME TypeOK, LinkNext
    PROVE  TypeOK'
<1> USE TypeParts
<1>1. PICK d \in Devices : ReportConnected(d) \/ ReportFailed(d) \/ LinkDropped(d)
    BY DEF LinkNext
<1>2. LoopType' /\ RtspType' /\ OutsideType'
    BY <1>1, UnchangedType
    DEF ReportConnected, ReportFailed, LinkDropped, loopVars, rtspVars, outsideVars
<1>3. LinkType'
    BY <1>1 DEF ReportConnected, ReportFailed, LinkDropped, LinkType
<1>4. queue' \in Seq(Message)
    BY <1>1, PostType DEF ReportConnected, ReportFailed, LinkDropped, MessageIds, DeviceOrNone
<1>5. timers' \in Nat /\ remoteDeviceList' \in Seq(RemoteDevice)
    BY <1>1 DEF ReportConnected, ReportFailed, LinkDropped
<1> QED
    BY <1>2, <1>3, <1>4, <1>5, TypePartsNext

LEMMA ClientsType ==
    ASSUME TypeOK, ClientNext
    PROVE  TypeOK'
<1> USE TypeParts
<1>1. CASE PlayerCall \/ \E d \in Devices : ClientCall(d)
    <2>1. LoopType' /\ RtspType' /\ OutsideType' /\ LinkType'
        BY <1>1, UnchangedType
        DEF PlayerCall, ClientCall, loopVars, rtspVars, outsideVars, linkVars
    <2>2. \E what \in MessageIds, d \in DeviceOrNone : Post(Msg(what, d))
        BY <1>1 DEF PlayerCall, ClientCall, MessageIds, DeviceOrNone
    <2>3. queue' \in Seq(Message)
        BY <2>2, PostType
    <2>4. timers' \in Nat /\ remoteDeviceList' \in Seq(RemoteDevice)
        BY <1>1 DEF PlayerCall, ClientCall
    <2> QED
        BY <2>1, <2>3, <2>4, TypePartsNext
<1>2. ASSUME NEW d \in Devices, DisconnectSession(d)
      PROVE  TypeOK'
    <2>1. LoopType' /\ RtspType' /\ OutsideType' /\ LinkType'
        BY <1>2, UnchangedType
        DEF DisconnectSession, loopVars, rtspVars, outsideVars, linkVars
    <2>2. remoteDeviceList' \in Seq(RemoteDevice)
        BY <1>2, ChangeDeviceStateType, StatesAreStates DEF DisconnectSession
    <2> QED
        BY <1>2, <2>1, <2>2, TypePartsNext DEF DisconnectSession
<1> QED
    BY <1>1, <1>2 DEF ClientNext

\* A channel thread that finishes its callback leaves the other threads alone.
LEMMA CallbackType ==
    ASSUME TypeOK, CallbackEnds, UNCHANGED <<adding, stopping>>
    PROVE  OutsideType'
BY Zenon, TypeParts DEF CallbackEnds, OutsideType

LEMMA ChannelsType ==
    ASSUME TypeOK, ChannelNext
    PROVE  TypeOK'
<1> USE TypeParts
<1>1. CASE Receive
    <2>1. LoopType' /\ RtspType' /\ LinkType'
        BY <1>1, UnchangedType DEF Receive, loopVars, rtspVars, linkVars
    <2>2. OutsideType'
        BY Zenon, <1>1 DEF Receive, OutsideType
    <2> QED
        BY <1>1, <2>1, <2>2, TypePartsNext DEF Receive
<1>2. CASE OnPeerMessage
    <2>1. LoopType' /\ RtspType' /\ LinkType'
        BY <1>2, UnchangedType DEF OnPeerMessage, loopVars, rtspVars, linkVars
    <2>2. OutsideType'
        BY <1>2, CallbackType DEF OnPeerMessage
    <2>3. rtspDevice \in DeviceOrNone /\ NoDevice \in DeviceOrNone
        BY DEF RtspType, DeviceOrNone
    <2>4. PeerMessages \subseteq Message
        BY <2>3, MsgType DEF PeerMessages, ErrorMsg, MessageIds
    <2>5. PICK m \in Message : Post(m)
        BY <1>2, <2>4 DEF OnPeerMessage
    <2>6. queue' \in Seq(Message)
        BY <2>5 DEF Post
    <2> QED
        BY <1>2, <2>1, <2>2, <2>6, TypePartsNext DEF OnPeerMessage
<1>3. CASE OnSetup \/ ProcessStreamMode
    <2>1. LoopType' /\ LinkType'
        BY <1>3, UnchangedType DEF OnSetup, ProcessStreamMode, loopVars, linkVars
    <2>2. OutsideType'
        BY <1>3, CallbackType DEF OnSetup, ProcessStreamMode
    <2>3. streamMode' \in BOOLEAN
        BY Zenon, <1>3 DEF OnSetup, ProcessStreamMode
    <2>4. RtspType'
        BY Zenon, <1>3, <2>3 DEF OnSetup, ProcessStreamMode, RtspType
    <2>5. rtspDevice \in DeviceOrNone
        BY DEF RtspType
    <2>6. queue' \in Seq(Message)
        BY <1>3, <2>5, PostType DEF OnSetup, ProcessStreamMode, MessageIds
    <2> QED
        BY <1>3, <2>1, <2>2, <2>4, <2>6, TypePartsNext DEF OnSetup, ProcessStreamMode
<1>4. CASE OnTearDown
    <2>1. LoopType' /\ LinkType'
        BY <1>4, UnchangedType DEF OnTearDown, loopVars, linkVars
    <2>2. OutsideType'
        BY <1>4, CallbackType DEF OnTearDown
    <2>3. RtspType'
        BY Zenon, <1>4 DEF OnTearDown, RtspType
    <2>4. PICK reports \in 1 .. 2 : queue' = queue \o Errors(reports)
        BY <1>4 DEF OnTearDown
    <2>5. queue \in Seq(Message) /\ reports \in Nat
        BY DEF TypeOK
    <2>6. queue' \in Seq(Message)
        BY Zenon, <2>4, <2>5, ErrorsAppended
    <2> QED
        BY <1>4, <2>1, <2>2, <2>3, <2>6, TypePartsNext DEF OnTearDown
<1>5. CASE OnChannelRemoved
    <2>1. LoopType' /\ LinkType' /\ RtspType'
        BY <1>5, UnchangedType DEF OnChannelRemoved, loopVars, linkVars, rtspVars
    <2>2. OutsideType'
        BY <1>5, CallbackType DEF OnChannelRemoved
    <2>3. ErrorMsg \in Message
        BY MsgType DEF ErrorMsg, MessageIds, DeviceOrNone
    <2>4. queue' \in Seq(Message)
        BY <1>5, <2>3 DEF OnChannelRemoved
    <2> QED
        BY <1>5, <2>1, <2>2, <2>4, TypePartsNext DEF OnChannelRemoved
<1> QED
    BY <1>1, <1>2, <1>3, <1>4, <1>5 DEF ChannelNext

\* What Release posts: one message for every listed device.
LEMMA ReleaseType ==
    ASSUME TypeOK
    PROVE  [i \in DOMAIN remoteDeviceList |-> Msg("DISCONNECT", remoteDeviceList[i].dev)]
               \in Seq(Message)
<1>1. remoteDeviceList \in Seq(RemoteDevice)
    BY DEF TypeOK
<1>2. \A i \in 1 .. Len(remoteDeviceList) : remoteDeviceList[i] \in RemoteDevice
    BY <1>1
<1>3. \A r \in RemoteDevice : Msg("DISCONNECT", r.dev) \in Message
    BY DEF RemoteDevice, DeviceOrNone, Msg, Message, MessageIds
<1> QED
    BY <1>1, <1>2, <1>3

LEMMA StopType ==
    ASSUME TypeOK, StopNext
    PROVE  TypeOK'
<1> USE TypeParts
<1>1. LoopType' /\ LinkType' /\ RtspType'
    BY UnchangedType
    DEF StopNext, Release, StopRemovesTimeout, StopSafty, loopVars, linkVars, rtspVars
<1>2. OutsideType'
    BY DEF StopNext, Release, StopRemovesTimeout, StopSafty, OutsideType
<1>3. remoteDeviceList' \in Seq(RemoteDevice) /\ timers' \in Nat
    BY DEF StopNext, Release, StopRemovesTimeout, StopSafty
<1>4. queue' \in Seq(Message)
    <2>1. CASE Release
        BY <2>1, ReleaseType DEF Release
    <2>2. CASE StopRemovesTimeout \/ StopSafty
        BY <2>2 DEF StopRemovesTimeout, StopSafty
    <2> QED
        BY <2>1, <2>2 DEF StopNext
<1> QED
    BY <1>1, <1>2, <1>3, <1>4, TypePartsNext

LEMMA StutterType ==
    ASSUME TypeOK, UNCHANGED vars
    PROVE  TypeOK'
<1>1. LoopType' /\ LinkType' /\ RtspType' /\ OutsideType'
    BY UnchangedType DEF vars
<1> QED
    BY <1>1, TypeParts, TypePartsNext DEF vars

LEMMA TypeStep == TypeOK /\ [Next]_vars => TypeOK'
<1> SUFFICES ASSUME TypeOK, [Next]_vars PROVE TypeOK'
    OBVIOUS
<1> QED
    BY LooperType, CallersType, LinkNextType, ClientsType, ChannelsType, StopType, StutterType
    DEF Next, Stopped

\* Every variable of the session keeps its type, whatever the devices, the
\* callers, the protocol and the bounds: the looper's queues hold well-formed
\* messages only, and the timers and channels it counts never go negative.
THEOREM TypeCorrect == Spec => []TypeOK
<1> QED
    BY TypeInit, TypeStep, PTL DEF Spec

-----------------------------------------------------------------------------
(* The connect timeout *)

\* A step of the looper that takes a message from one of its two queues.
LEMMA NoTimeoutHandlers ==
    ASSUME NoTimeoutWhenConnected, HandleMessage \/ ProcessDeferredMessage
    PROVE  NoTimeoutWhenConnected'
<1> USE DEF NoTimeoutWhenConnected
<1>1. ASSUME NEW m, NEW q, NEW dq, ConnectWhenDisconnected(m, q, dq)
      PROVE  NoTimeoutWhenConnected'
    BY <1>1 DEF ConnectWhenDisconnected, TransferTo, Stay, ConnectedFamily
<1>2. ASSUME NEW m, NEW q, NEW dq,
             DeferWhenConnecting(m, q, dq) \/ DropReplayed(m, q, dq)
      PROVE  NoTimeoutWhenConnected'
    BY <1>2 DEF DeferWhenConnecting, DropReplayed, Stay
<1>3. ASSUME NEW m, NEW q, NEW dq, PlayWhenPaused(m, q, dq)
      PROVE  NoTimeoutWhenConnected'
    BY <1>3 DEF PlayWhenPaused, ConnectedFamily
<1>4. ASSUME NEW m, NEW q,
             \/ DisconnectWhenDisconnected(m, q) \/ StreamChannelWhenStream(m, q)
             \/ DeferPlayReqWhenConnected(m, q) \/ Ignore(m, q)
      PROVE  NoTimeoutWhenConnected'
    BY Zenon, <1>4 DEF DisconnectWhenDisconnected, StreamChannelWhenStream,
                DeferPlayReqWhenConnected, Ignore, loopVars
<1>5. ASSUME NEW m, NEW q,
             \/ SetupWhenConnecting(m, q) \/ DisconnectWhenConnecting(m, q)
             \/ ErrorWhenEngaged(m, q) \/ DisconnectWhenConnected(m, q)
      PROVE  NoTimeoutWhenConnected'
    BY <1>5 DEF SetupWhenConnecting, DisconnectWhenConnecting, ErrorWhenEngaged,
                DisconnectWhenConnected, TransferAndDrop, ConnectedFamily
<1>6. ASSUME NEW m, NEW q, RenderReadyWhenConnecting(m, q)
      PROVE  NoTimeoutWhenConnected'
    BY <1>6 DEF RenderReadyWhenConnecting, Stay
<1>7. ASSUME NEW m, NEW q, ConnectWhenConnected(m, q)
      PROVE  NoTimeoutWhenConnected'
    BY <1>7 DEF ConnectWhenConnected
<1>8. ASSUME NEW m, NEW q, PauseWhenPlaying(m, q) \/ SwitchMode(m, q)
      PROVE  NoTimeoutWhenConnected'
    BY <1>8 DEF PauseWhenPlaying, SwitchMode, Switch, ConnectedFamily
<1> QED
    BY Zenon, <1>1, <1>2, <1>3, <1>4, <1>5, <1>6, <1>7, <1>8
    DEF HandleMessage, ProcessDeferredMessage

LEMMA NoTimeoutStep == NoTimeoutWhenConnected /\ [Next]_vars => NoTimeoutWhenConnected'
<1> SUFFICES ASSUME NoTimeoutWhenConnected, [Next]_vars PROVE NoTimeoutWhenConnected'
    OBVIOUS
<1>1. CASE LooperNext
    <2>1. CASE HandleMessage \/ ProcessDeferredMessage
        BY <2>1, NoTimeoutHandlers
    <2>2. CASE HandleConnectTimeout
        BY <2>2 DEF HandleConnectTimeout, NoTimeoutWhenConnected, loopVars
    <2>3. CASE LooperExits \/ TransferDone
        BY <2>3 DEF LooperExits, TransferDone, NoTimeoutWhenConnected
    <2> QED
        BY <1>1, <2>1, <2>2, <2>3 DEF LooperNext
<1>2. CASE CallerNext \/ LinkNext \/ ClientNext
    BY <1>2 DEF CallerNext, AddDeviceLookup, AddDevicePush, LinkNext, ReportConnected,
                ReportFailed, LinkDropped, ClientNext, PlayerCall, ClientCall,
                DisconnectSession, NoTimeoutWhenConnected, loopVars
<1>3. CASE ChannelNext
    BY <1>3 DEF ChannelNext, Receive, OnPeerMessage, OnSetup, ProcessStreamMode, OnTearDown,
                OnChannelRemoved, NoTimeoutWhenConnected, loopVars
<1>4. CASE StopNext
    BY <1>4 DEF StopNext, Release, StopRemovesTimeout, StopSafty, NoTimeoutWhenConnected,
                loopVars
<1>5. CASE UNCHANGED vars
    BY <1>5 DEF vars, loopVars, NoTimeoutWhenConnected
<1> QED
    BY <1>1, <1>2, <1>3, <1>4, <1>5 DEF Next, Stopped

\* A connect timeout never tears an established connection down: none is armed
\* in any state of the connected family, although an attempt that failed leaves
\* its own armed and the next attempt adds one more.
THEOREM NoTimeout == Spec => []NoTimeoutWhenConnected
<1>1. Init => NoTimeoutWhenConnected
    BY DEF Init, NoTimeoutWhenConnected
<1> QED
    BY <1>1, NoTimeoutStep, PTL DEF Spec

-----------------------------------------------------------------------------
(* The engine and the errors that announce its end *)

\* A message waiting in a queue stays in it when others are appended ...
LEMMA HasAppend ==
    ASSUME NEW q \in Seq(Message), NEW m \in Message, NEW what, Has(q, what)
    PROVE  Has(Append(q, m), what)
BY DEF Has

LEMMA HasConcat ==
    ASSUME NEW q \in Seq(Message), NEW r \in Seq(Message), NEW what, Has(q, what)
    PROVE  Has(q \o r, what)
BY DEF Has

\* ... and when a message of another kind is taken from its head.
LEMMA HasTail ==
    ASSUME NEW q \in Seq(Message), q # <<>>, NEW what, Has(q, what), Head(q).what # what
    PROVE  Has(Tail(q), what)
<1>1. PICK i \in 1 .. Len(q) : q[i].what = what
    BY DEF Has
<1>2. i # 1 /\ i - 1 \in 1 .. Len(Tail(q))
    BY <1>1
<1>3. Tail(q)[i - 1] = q[i]
    BY <1>2
<1>4. DOMAIN Tail(q) = 1 .. Len(Tail(q))
    OBVIOUS
<1> QED
    BY <1>1, <1>2, <1>3, <1>4 DEF Has

LEMMA HasErrors ==
    ASSUME NEW q \in Seq(Message), NEW n \in Nat, n > 0
    PROVE  Has(q \o Errors(n), "ERROR")
<1> DEFINE s == q \o Errors(n)
<1>1. Errors(n) \in Seq(Message) /\ Len(Errors(n)) = n
    BY ErrorsType
<1>2. Errors(n)[1].what = "ERROR"
    BY DEF Errors, ErrorMsg, Msg
<1>3. Len(q) + 1 \in 1 .. Len(s) /\ s[Len(q) + 1] = Errors(n)[1]
    BY <1>1
<1> QED
    BY <1>1, <1>2, <1>3 DEF Has

\* Tearing the engine down while it runs leaves the error that says so.
LEMMA TearDownWaits ==
    ASSUME TypeOK, NEW q \in Seq(Message), ProcessDisconnect(q),
           rtspActive \/ Has(q, "ERROR")
    PROVE  Waiting("ERROR")'
<1> DEFINE n == TearDownErrors + ChannelErrors
<1>1. TearDownErrors \in Nat /\ ChannelErrors \in Nat /\ n \in Nat
    BY DEF TearDownErrors, ChannelErrors, TypeOK
<1>2. queue' = q \o Errors(n)
    BY DEF ProcessDisconnect
<1>3. CASE rtspActive
    <2>1. TearDownErrors = 1
        BY <1>3 DEF TearDownErrors
    <2>2. n > 0
        BY <1>1, <2>1
    <2> HIDE DEF n
    <2> QED
        BY <1>1, <1>2, <2>2, HasErrors DEF Waiting
<1>4. CASE Has(q, "ERROR")
    <2> HIDE DEF n
    <2> QED
        BY <1>1, <1>2, <1>4, HasConcat, ErrorsType DEF Waiting
<1> QED
    BY <1>3, <1>4

\* The inductive invariant: the two invariants below need each other, for a
\* timeout that fires in CONNECTING relies on the engine or on its error.
EngineInv == EngagedHasEngine /\ ConnectingIsTimed

LEMMA EngineKept ==
    ASSUME EngineInv,
           state' = state \/ (state' # "CONNECTING" /\ state # "DISCONNECTED"),
           rtspActive => rtspActive' \/ Waiting("ERROR")',
           Waiting("ERROR") => Waiting("ERROR")',
           state' = "CONNECTING" => (UNCHANGED timers \/ Waiting("ERROR")'),
           UNCHANGED stopping
    PROVE  EngineInv'
<1>1. EngagedHasEngine'
    BY Zenon DEF EngineInv, EngagedHasEngine
<1>2. ConnectingIsTimed'
    <2>1. CASE state' = "CONNECTING"
        <3>1. timers > 0 \/ Waiting("ERROR") \/ stopping \in {"stopping", "stopped"}
            BY <2>1 DEF EngineInv, ConnectingIsTimed
        <3> QED
            BY <2>1, <3>1 DEF ConnectingIsTimed
    <2>2. CASE state' # "CONNECTING"
        BY <2>2 DEF ConnectingIsTimed
    <2> QED
        BY <2>1, <2>2
<1> QED
    BY <1>1, <1>2 DEF EngineInv

\* A handler that keeps the session engaged keeps the errors that are waiting.
LEMMA EngineHandlers ==
    ASSUME TypeOK, EngineInv, NEW m \in Message, NEW q \in Seq(Message), NEW dq,
           Waiting("ERROR") => Has(q, "ERROR"),
           \/ ConnectWhenDisconnected(m, q, dq) \/ DisconnectWhenDisconnected(m, q)
           \/ DeferWhenConnecting(m, q, dq) \/ SetupWhenConnecting(m, q)
           \/ DisconnectWhenConnecting(m, q) \/ RenderReadyWhenConnecting(m, q)
           \/ ErrorWhenEngaged(m, q) \/ ConnectWhenConnected(m, q)
           \/ DisconnectWhenConnected(m, q) \/ DeferPlayReqWhenConnected(m, q)
           \/ PlayWhenPaused(m, q, dq) \/ PauseWhenPlaying(m, q)
           \/ StreamChannelWhenStream(m, q) \/ SwitchMode(m, q) \/ Ignore(m, q)
           \/ DropReplayed(m, q, dq)
    PROVE  EngineInv'
<1>0. queue' = q => (Waiting("ERROR") => Waiting("ERROR")')
    BY Zenon DEF Waiting
<1>1. ASSUME state' = "DISCONNECTED" PROVE EngineInv'
    BY <1>1 DEF EngineInv, EngagedHasEngine, ConnectingIsTimed
<1>2. CASE ConnectWhenDisconnected(m, q, dq)
    <2>1. CASE ProcessConnectDone(m.dev, q) /\ timers' = timers + 1 /\ TransferTo("CONNECTING")
        <3>1. rtspActive' /\ timers' > 0
            BY <2>1 DEF ProcessConnectDone, TypeOK
        <3> QED
            BY <3>1 DEF EngineInv, EngagedHasEngine, ConnectingIsTimed
    <2>2. CASE state' = "DISCONNECTED"
        BY <1>1, <2>2
    <2> QED
        BY Zenon, <1>2, <2>1, <2>2 DEF ConnectWhenDisconnected, Stay
<1>3. CASE \/ SetupWhenConnecting(m, q) \/ DisconnectWhenConnecting(m, q)
           \/ ErrorWhenEngaged(m, q) \/ DisconnectWhenConnected(m, q)
           \/ DisconnectWhenDisconnected(m, q)
    <2>1. state' = "DISCONNECTED"
        BY Zenon, <1>3
        DEF SetupWhenConnecting, DisconnectWhenConnecting, ErrorWhenEngaged,
            DisconnectWhenConnected, DisconnectWhenDisconnected, TransferAndDrop, loopVars
    <2> QED
        BY <1>1, <2>1
<1>4. CASE \/ DeferWhenConnecting(m, q, dq) \/ DeferPlayReqWhenConnected(m, q)
           \/ Ignore(m, q) \/ DropReplayed(m, q, dq)
    <2>1. UNCHANGED <<state, rtspActive, timers, stopping>> /\ queue' = q
        BY Zenon, <1>4
        DEF DeferWhenConnecting, DeferPlayReqWhenConnected, Ignore, DropReplayed, Stay,
            loopVars, rtspVars, outsideVars
    <2> QED
        BY Zenon, <1>0, <2>1, EngineKept
<1>5. CASE PlayWhenPaused(m, q, dq) \/ PauseWhenPlaying(m, q) \/ SwitchMode(m, q)
    <2>1. UNCHANGED <<rtspActive, timers, stopping>> /\ queue' = q
        BY Zenon, <1>5 DEF PlayWhenPaused, PauseWhenPlaying, SwitchMode, rtspVars, outsideVars
    <2>2. state' # "CONNECTING" /\ state # "DISCONNECTED"
        BY <1>5 DEF PlayWhenPaused, PauseWhenPlaying, SwitchMode, Switch, TransferTo
    <2> QED
        BY Zenon, <1>0, <2>1, <2>2, EngineKept
<1>6. CASE RenderReadyWhenConnecting(m, q)
    <2>1. UNCHANGED <<rtspActive, stopping>> /\ queue' = q
        BY Zenon, <1>6 DEF RenderReadyWhenConnecting, rtspVars, outsideVars
    <2>2. /\ state # "DISCONNECTED"
          /\ (state' = state /\ timers' = timers) \/ state' # "CONNECTING"
        BY <1>6 DEF RenderReadyWhenConnecting, TransferTo, Stay
    <2> QED
        BY Zenon, <1>0, <2>1, <2>2, EngineKept
<1>7. CASE StreamChannelWhenStream(m, q)
    <2>1. UNCHANGED <<state, rtspActive, timers, stopping>>
        BY Zenon, <1>7 DEF StreamChannelWhenStream, loopVars, outsideVars
    <2>2. ErrorMsg \in Message
        BY MsgType DEF ErrorMsg, MessageIds, DeviceOrNone
    <2>3. Waiting("ERROR") => Waiting("ERROR")'
        BY Zenon, <1>0, <1>7, <2>2, HasAppend DEF StreamChannelWhenStream, Waiting
    <2> QED
        BY Zenon, <2>1, <2>3, EngineKept
<1>8. CASE ConnectWhenConnected(m, q)
    <2>1. UNCHANGED <<timers, stopping>>
        BY Zenon, <1>8 DEF ConnectWhenConnected, outsideVars
    <2>2. state' # "CONNECTING" /\ state # "DISCONNECTED"
        BY <1>8 DEF ConnectWhenConnected, ConnectedFamily, TransferTo, Stay
    <2>3. rtspActive' \/ Waiting("ERROR")' \/ (UNCHANGED rtspActive /\ queue' = q)
        <3>1. CASE ProcessConnectDone(m.dev, q)
            BY Zenon, <3>1 DEF ProcessConnectDone
        <3>2. CASE ProcessConnectNoChannel(m.dev, q)
            <4>1. queue' = q \o Errors(1)
                BY Zenon, <3>2 DEF ProcessConnectNoChannel
            <4> QED
                BY <4>1, HasErrors DEF Waiting
        <3>3. CASE ProcessConnectNoDevice(m.dev, q)
            BY Zenon, <3>3 DEF ProcessConnectNoDevice, rtspVars
        <3> QED
            BY Zenon, <1>8, <3>1, <3>2, <3>3 DEF ConnectWhenConnected, ProcessConnectFails
    <2>4. EngagedHasEngine'
        BY Zenon, <1>0, <2>2, <2>3 DEF EngineInv, EngagedHasEngine
    <2>5. ConnectingIsTimed'
        BY <2>2 DEF ConnectingIsTimed
    <2> QED
        BY <2>4, <2>5 DEF EngineInv
<1> QED
    BY Zenon, <1>2, <1>3, <1>4, <1>5, <1>6, <1>7, <1>8

\* The message taken from the queue is an error only when it is the one that
\* disconnects the session.
LEMMA EngineMessages ==
    ASSUME TypeOK, EngineInv, HandleMessage
    PROVE  EngineInv'
<1> DEFINE m == Head(queue)
<1> DEFINE q == Tail(queue)
<1>1. queue \in Seq(Message) /\ queue # <<>>
    BY DEF TypeOK, HandleMessage
<1>2. m \in Message /\ q \in Seq(Message)
    BY <1>1, QueueEnds
<1>3. \/ ConnectWhenDisconnected(m, q, deferred) \/ DisconnectWhenDisconnected(m, q)
      \/ DeferWhenConnecting(m, q, deferred) \/ SetupWhenConnecting(m, q)
      \/ DisconnectWhenConnecting(m, q) \/ RenderReadyWhenConnecting(m, q)
      \/ ErrorWhenEngaged(m, q) \/ ConnectWhenConnected(m, q)
      \/ DisconnectWhenConnected(m, q) \/ DeferPlayReqWhenConnected(m, q)
      \/ PlayWhenPaused(m, q, deferred) \/ PauseWhenPlaying(m, q)
      \/ StreamChannelWhenStream(m, q) \/ SwitchMode(m, q) \/ Ignore(m, q)
    BY Zenon DEF HandleMessage
<1>4. CASE m.what # "ERROR"
    <2>1. Waiting("ERROR") => Has(q, "ERROR")
        BY <1>1, <1>4, HasTail DEF Waiting
    <2> QED
        BY Zenon, <1>2, <1>3, <2>1, EngineHandlers
<1>5. CASE m.what = "ERROR"
    <2> HIDE DEF m, q
    <2>1. ErrorWhenEngaged(m, q) \/ Ignore(m, q)
        BY <1>3, <1>5
        DEF ConnectWhenDisconnected, DisconnectWhenDisconnected, DeferWhenConnecting,
            SetupWhenConnecting, DisconnectWhenConnecting, RenderReadyWhenConnecting,
            ConnectWhenConnected, DisconnectWhenConnected, DeferPlayReqWhenConnected,
            PlayWhenPaused, PauseWhenPlaying, StreamChannelWhenStream, SwitchMode, Switch
    <2>2. ASSUME Ignore(m, q) PROVE state = "DISCONNECTED" /\ UNCHANGED state
        BY <1>5, <2>2 DEF Ignore, Handled, TypeOK, SessionStates, ConnectedFamily, loopVars
    <2>3. state' = "DISCONNECTED"
        BY <2>1, <2>2 DEF ErrorWhenEngaged, TransferAndDrop
    <2> QED
        BY <2>3 DEF EngineInv, EngagedHasEngine, ConnectingIsTimed
<1> QED
    BY <1>4, <1>5

LEMMA EngineLooper ==
    ASSUME TypeOK, EngineInv, LooperNext
    PROVE  EngineInv'
<1>1. CASE HandleMessage
    BY <1>1, EngineMessages
<1>2. CASE ProcessDeferredMessage
    <2>1. Head(deferred) \in Message /\ queue \in Seq(Message)
        BY <1>2, QueueEnds DEF ProcessDeferredMessage, TypeOK
    <2> DEFINE m == Head(deferred)
    <2> DEFINE dq == Tail(deferred)
    <2>2. \/ ConnectWhenDisconnected(m, queue, dq) \/ DeferWhenConnecting(m, queue, dq)
          \/ PlayWhenPaused(m, queue, dq) \/ DropReplayed(m, queue, dq)
        BY Zenon, <1>2 DEF ProcessDeferredMessage
    <2> QED
        BY Zenon, <2>1, <2>2, EngineHandlers DEF Waiting
<1>3. CASE HandleConnectTimeout
    <2>1. ProcessDisconnect(queue) /\ UNCHANGED <<state, stopping>>
        BY Zenon, <1>3 DEF HandleConnectTimeout, loopVars, outsideVars
    <2>2. CASE state = "DISCONNECTED"
        BY <2>1, <2>2 DEF EngineInv, EngagedHasEngine, ConnectingIsTimed
    <2>3. CASE state # "DISCONNECTED"
        <3>1. rtspActive \/ Has(queue, "ERROR")
            BY Zenon, <2>3 DEF EngineInv, EngagedHasEngine, Waiting
        <3>2. Waiting("ERROR")'
            BY Zenon, <2>1, <3>1, TearDownWaits DEF TypeOK
        <3> QED
            BY Zenon, <3>2 DEF EngineInv, EngagedHasEngine, ConnectingIsTimed
    <2> QED
        BY <2>2, <2>3
<1>4. CASE LooperExits \/ TransferDone
    <2>1. UNCHANGED <<state, rtspActive, timers, stopping, queue>>
        BY Zenon, <1>4 DEF LooperExits, TransferDone, rtspVars, outsideVars
    <2> QED
        BY Zenon, <2>1, EngineKept DEF Waiting
<1> QED
    BY <1>1, <1>2, <1>3, <1>4 DEF LooperNext

LEMMA EngineEnvironment ==
    ASSUME TypeOK, EngineInv, CallerNext \/ LinkNext \/ ClientNext
    PROVE  EngineInv'
<1>1. UNCHANGED <<state, rtspActive, timers, stopping>>
    BY Zenon
    DEF CallerNext, AddDeviceLookup, AddDevicePush, LinkNext, ReportConnected, ReportFailed,
        LinkDropped, ClientNext, PlayerCall, ClientCall, DisconnectSession,
        loopVars, rtspVars, outsideVars
<1>2. \/ queue' = queue
      \/ \E what \in MessageIds, d \in DeviceOrNone : Post(Msg(what, d))
    BY DEF CallerNext, AddDeviceLookup, AddDevicePush, LinkNext, ReportConnected, ReportFailed,
           LinkDropped, ClientNext, PlayerCall, ClientCall, DisconnectSession,
           MessageIds, DeviceOrNone
<1>3. Waiting("ERROR") => Waiting("ERROR")'
    <2>1. CASE queue' = queue
        BY Zenon, <2>1 DEF Waiting
    <2>2. ASSUME NEW what \in MessageIds, NEW d \in DeviceOrNone, Post(Msg(what, d))
          PROVE  Waiting("ERROR") => Waiting("ERROR")'
        BY Zenon, <2>2, MsgType, HasAppend DEF Post, Waiting, TypeOK
    <2> QED
        BY Zenon, <1>2, <2>1, <2>2
<1> QED
    BY Zenon, <1>1, <1>3, EngineKept

LEMMA EngineChannels ==
    ASSUME TypeOK, EngineInv, ChannelNext
    PROVE  EngineInv'
<1>1. UNCHANGED <<state, timers, stopping>>
    BY Zenon
    DEF ChannelNext, Receive, OnPeerMessage, OnSetup, ProcessStreamMode, OnTearDown,
        OnChannelRemoved, loopVars
<1>2. CASE OnTearDown
    <2>1. PICK reports \in 1 .. 2 : queue' = queue \o Errors(reports)
        BY <1>2 DEF OnTearDown
    <2>2. queue \in Seq(Message) /\ reports \in Nat /\ reports > 0
        BY DEF TypeOK
    <2>3. Waiting("ERROR")'
        BY <2>1, <2>2, HasErrors DEF Waiting
    <2> QED
        BY Zenon, <2>3 DEF EngineInv, EngagedHasEngine, ConnectingIsTimed
<1>3. CASE ~OnTearDown
    <2>1. UNCHANGED rtspActive
        BY Zenon, <1>3
        DEF ChannelNext, Receive, OnPeerMessage, OnSetup, ProcessStreamMode,
            OnChannelRemoved, rtspVars
    <2>2. rtspDevice \in DeviceOrNone /\ NoDevice \in DeviceOrNone
        BY DEF TypeOK, DeviceOrNone
    <2>3. PeerMessages \subseteq Message /\ ErrorMsg \in Message
          /\ Msg("SETUP", rtspDevice) \in Message /\ Msg("PEER_RENDER_READY", rtspDevice) \in Message
        BY <2>2, MsgType DEF PeerMessages, ErrorMsg, MessageIds
    <2>4. queue' = queue \/ \E m \in Message : queue' = Append(queue, m)
        BY Zenon, <1>3, <2>3
        DEF ChannelNext, Receive, OnPeerMessage, OnSetup, ProcessStreamMode,
            OnChannelRemoved, Post
    <2>5. Waiting("ERROR") => Waiting("ERROR")'
        BY Zenon, <2>4, HasAppend DEF Waiting, TypeOK
    <2> QED
        BY Zenon, <1>1, <2>1, <2>5, EngineKept
<1> QED
    BY <1>2, <1>3

LEMMA EngineStop ==
    ASSUME TypeOK, EngineInv, StopNext
    PROVE  EngineInv'
<1>1. UNCHANGED <<state, rtspActive>>
    BY Zenon DEF StopNext, Release, StopRemovesTimeout, StopSafty, loopVars, rtspVars
<1>2. Waiting("ERROR") => Waiting("ERROR")'
    <2>1. CASE Release
        <3> DEFINE r == [i \in DOMAIN remoteDeviceList |->
                            Msg("DISCONNECT", remoteDeviceList[i].dev)]
        <3>1. queue' = queue \o r
            BY Zenon, <2>1 DEF Release
        <3>2. r \in Seq(Message)
            BY ReleaseType
        <3> HIDE DEF r
        <3> QED
            BY Zenon, <3>1, <3>2, HasConcat DEF Waiting, TypeOK
    <2>2. CASE StopRemovesTimeout \/ StopSafty
        BY Zenon, <2>2 DEF StopRemovesTimeout, StopSafty, Waiting
    <2> QED
        BY <2>1, <2>2 DEF StopNext
<1>3. EngagedHasEngine'
    BY Zenon, <1>1, <1>2 DEF EngineInv, EngagedHasEngine
<1>4. CASE Release
    <2>1. UNCHANGED timers /\ stopping = "no"
        BY <1>4 DEF Release
    <2> QED
        BY <1>1, <1>2, <1>3, <2>1 DEF EngineInv, ConnectingIsTimed
<1>5. CASE StopRemovesTimeout \/ StopSafty
    <2>1. stopping' \in {"stopping", "stopped"}
        BY <1>5 DEF StopRemovesTimeout, StopSafty
    <2> QED
        BY <1>3, <2>1 DEF EngineInv, ConnectingIsTimed
<1> QED
    BY <1>4, <1>5 DEF StopNext

LEMMA EngineStep == TypeOK /\ EngineInv /\ [Next]_vars => EngineInv'
<1> SUFFICES ASSUME TypeOK, EngineInv, [Next]_vars PROVE EngineInv'
    OBVIOUS
<1>1. CASE UNCHANGED vars
    <2>1. UNCHANGED <<state, rtspActive, timers, stopping, queue>>
        BY Zenon, <1>1 DEF vars, loopVars, rtspVars, outsideVars
    <2> QED
        BY Zenon, <2>1, EngineKept DEF Waiting
<1> QED
    BY <1>1, EngineLooper, EngineEnvironment, EngineChannels, EngineStop DEF Next, Stopped

LEMMA EngineAlways == Spec => []EngineInv
<1>1. Init => EngineInv
    BY DEF Init, EngineInv, EngagedHasEngine, ConnectingIsTimed
<1> QED
    BY <1>1, EngineStep, TypeCorrect, PTL DEF Spec

\* A session that is not disconnected has a running engine or the error of its
\* end in its queue, however handlers, callbacks and stops interleave.
THEOREM EngineOrError == Spec => []EngagedHasEngine
<1>1. EngineInv => EngagedHasEngine
    BY DEF EngineInv
<1> QED
    BY <1>1, EngineAlways, PTL

\* An attempt to connect always has its end in sight: a timeout, an error, or a
\* Stop that has taken the timeout away.
THEOREM ConnectingTimed == Spec => []ConnectingIsTimed
<1>1. EngineInv => ConnectingIsTimed
    BY DEF EngineInv
<1> QED
    BY <1>1, EngineAlways, PTL

-----------------------------------------------------------------------------
(* What a disconnected session has left behind it *)

\* A disconnected session runs no engine and, at rest, has nothing deferred.
RestInv == EngineStopsWithSession /\ DeferredAwaitsTransfer

\* Steps that leave the session's state and its deferred messages alone, and
\* start no engine.
LEMMA RestKept ==
    ASSUME RestInv, UNCHANGED <<state, looper, deferred>>, rtspActive' => rtspActive
    PROVE  RestInv'
BY Zenon DEF RestInv, EngineStopsWithSession, DeferredAwaitsTransfer

LEMMA RestEngaged ==
    ASSUME state' # "DISCONNECTED"
    PROVE  RestInv'
BY Zenon DEF RestInv, EngineStopsWithSession, DeferredAwaitsTransfer

LEMMA RestHandlers ==
    ASSUME RestInv, looper # "exited", NEW m, NEW q, NEW dq,
           looper = "transfer" \/ dq = deferred,
           \/ ConnectWhenDisconnected(m, q, dq) \/ DisconnectWhenDisconnected(m, q)
           \/ DeferWhenConnecting(m, q, dq) \/ SetupWhenConnecting(m, q)
           \/ DisconnectWhenConnecting(m, q) \/ RenderReadyWhenConnecting(m, q)
           \/ ErrorWhenEngaged(m, q) \/ ConnectWhenConnected(m, q)
           \/ DisconnectWhenConnected(m, q) \/ DeferPlayReqWhenConnected(m, q)
           \/ PlayWhenPaused(m, q, dq) \/ PauseWhenPlaying(m, q)
           \/ StreamChannelWhenStream(m, q) \/ SwitchMode(m, q) \/ Ignore(m, q)
           \/ (looper = "transfer" /\ DropReplayed(m, q, dq))
    PROVE  RestInv'
<1>1. CASE ConnectWhenDisconnected(m, q, dq)
    <2>1. CASE TransferTo("CONNECTING")
        BY <2>1, RestEngaged DEF TransferTo
    <2>2. CASE ProcessConnectFails(m.dev, q) /\ Stay
        <3>1. rtspActive' => rtspActive
            BY Zenon, <2>2 DEF ProcessConnectFails, ProcessConnectNoChannel,
                               ProcessConnectNoDevice, rtspVars
        <3>2. deferred' = dq /\ UNCHANGED <<state, looper>>
            BY Zenon, <1>1, <2>2 DEF ConnectWhenDisconnected, Stay
        <3>3. CASE dq = deferred
            BY Zenon, <3>1, <3>2, <3>3, RestKept
        <3>4. CASE looper = "transfer"
            <4>1. EngineStopsWithSession'
                BY Zenon, <3>1, <3>2 DEF RestInv, EngineStopsWithSession
            <4>2. looper' # "idle"
                BY <3>2, <3>4
            <4> QED
                BY Zenon, <4>1, <4>2 DEF RestInv, DeferredAwaitsTransfer
        <3> QED
            BY <3>3, <3>4
    <2> QED
        BY Zenon, <1>1, <2>1, <2>2 DEF ConnectWhenDisconnected
<1>2. CASE \/ SetupWhenConnecting(m, q) \/ DisconnectWhenConnecting(m, q)
           \/ ErrorWhenEngaged(m, q) \/ DisconnectWhenConnected(m, q)
    <2>1. looper' = "transfer"
        BY Zenon, <1>2
        DEF SetupWhenConnecting, DisconnectWhenConnecting, ErrorWhenEngaged,
            DisconnectWhenConnected, TransferAndDrop
    <2>2. ~rtspActive'
        BY Zenon, <1>2
        DEF SetupWhenConnecting, DisconnectWhenConnecting, ErrorWhenEngaged,
            DisconnectWhenConnected, ActionTearDown, ProcessDisconnect
    <2>3. looper' # "idle"
        BY <2>1
    <2> QED
        BY Zenon, <2>2, <2>3 DEF RestInv, EngineStopsWithSession, DeferredAwaitsTransfer
<1>3. CASE DisconnectWhenDisconnected(m, q) \/ Ignore(m, q) \/ StreamChannelWhenStream(m, q)
    <2>1. UNCHANGED <<state, looper, deferred, rtspActive>>
        BY Zenon, <1>3
        DEF DisconnectWhenDisconnected, Ignore, StreamChannelWhenStream, loopVars, rtspVars
    <2> QED
        BY Zenon, <2>1, RestKept
<1>4. CASE \/ DeferWhenConnecting(m, q, dq) \/ RenderReadyWhenConnecting(m, q)
           \/ ConnectWhenConnected(m, q) \/ DeferPlayReqWhenConnected(m, q)
           \/ PlayWhenPaused(m, q, dq) \/ PauseWhenPlaying(m, q) \/ SwitchMode(m, q)
    <2>1. state' # "DISCONNECTED"
        BY <1>4 DEF DeferWhenConnecting, RenderReadyWhenConnecting, ConnectWhenConnected,
                    DeferPlayReqWhenConnected, PlayWhenPaused, PauseWhenPlaying, SwitchMode,
                    Switch, TransferTo, Stay, ConnectedFamily
    <2> QED
        BY <2>1, RestEngaged
<1>5. CASE looper = "transfer" /\ DropReplayed(m, q, dq)
    <2>1. UNCHANGED <<state, looper, rtspActive>>
        BY Zenon, <1>5 DEF DropReplayed, Stay, rtspVars
    <2>2. looper' # "idle"
        BY <1>5, <2>1
    <2> QED
        BY Zenon, <2>1, <2>2 DEF RestInv, EngineStopsWithSession, DeferredAwaitsTransfer
<1> QED
    BY Zenon, <1>1, <1>2, <1>3, <1>4, <1>5

LEMMA RestStep == RestInv /\ [Next]_vars => RestInv'
<1> SUFFICES ASSUME RestInv, [Next]_vars PROVE RestInv'
    OBVIOUS
<1>1. CASE HandleMessage
    <2>1. looper # "exited"
        BY <1>1 DEF HandleMessage
    <2> DEFINE m == Head(queue)
    <2> DEFINE q == Tail(queue)
    <2>2. \/ ConnectWhenDisconnected(m, q, deferred) \/ DisconnectWhenDisconnected(m, q)
          \/ DeferWhenConnecting(m, q, deferred) \/ SetupWhenConnecting(m, q)
          \/ DisconnectWhenConnecting(m, q) \/ RenderReadyWhenConnecting(m, q)
          \/ ErrorWhenEngaged(m, q) \/ ConnectWhenConnected(m, q)
          \/ DisconnectWhenConnected(m, q) \/ DeferPlayReqWhenConnected(m, q)
          \/ PlayWhenPaused(m, q, deferred) \/ PauseWhenPlaying(m, q)
          \/ StreamChannelWhenStream(m, q) \/ SwitchMode(m, q) \/ Ignore(m, q)
        BY Zenon, <1>1 DEF HandleMessage
    <2> HIDE DEF m, q
    <2> QED
        BY Zenon, <2>1, <2>2, RestHandlers
<1>2. CASE ProcessDeferredMessage
    <2>1. looper = "transfer" /\ looper # "exited"
        BY <1>2 DEF ProcessDeferredMessage
    <2> DEFINE m == Head(deferred)
    <2> DEFINE dq == Tail(deferred)
    <2>2. \/ ConnectWhenDisconnected(m, queue, dq) \/ DeferWhenConnecting(m, queue, dq)
          \/ PlayWhenPaused(m, queue, dq) \/ DropReplayed(m, queue, dq)
        BY Zenon, <1>2 DEF ProcessDeferredMessage
    <2> HIDE DEF m, dq
    <2> QED
        BY Zenon, <2>1, <2>2, RestHandlers
<1>3. CASE TransferDone \/ LooperExits
    <2>1. UNCHANGED <<state, rtspActive, deferred>>
        BY Zenon, <1>3 DEF TransferDone, LooperExits, rtspVars
    <2>2. looper' = "idle" => deferred = <<>>
        BY <1>3 DEF TransferDone, LooperExits
    <2> QED
        BY Zenon, <2>1, <2>2 DEF RestInv, EngineStopsWithSession, DeferredAwaitsTransfer
<1>4. CASE HandleConnectTimeout \/ ChannelNext
    <2>1. UNCHANGED <<state, looper, deferred>>
        BY Zenon, <1>4
        DEF HandleConnectTimeout, ChannelNext, Receive, OnPeerMessage, OnSetup,
            ProcessStreamMode, OnTearDown, OnChannelRemoved, loopVars
    <2>2. rtspActive' => rtspActive
        BY Zenon, <1>4
        DEF HandleConnectTimeout, ChannelNext, Receive, OnPeerMessage, OnSetup,
            ProcessStreamMode, OnTearDown, OnChannelRemoved, ProcessDisconnect, rtspVars
    <2> QED
        BY Zenon, <2>1, <2>2, RestKept
<1>5. CASE CallerNext \/ LinkNext \/ ClientNext \/ StopNext \/ UNCHANGED vars
    <2>1. UNCHANGED <<state, looper, deferred, rtspActive>>
        BY Zenon, <1>5
        DEF CallerNext, AddDeviceLookup, AddDevicePush, LinkNext, ReportConnected,
            ReportFailed, LinkDropped, ClientNext, PlayerCall, ClientCall,
            DisconnectSession, StopNext, Release, StopRemovesTimeout, StopSafty,
            vars, loopVars, rtspVars
    <2> QED
        BY Zenon, <2>1, RestKept
<1> QED
    BY <1>1, <1>2, <1>3, <1>4, <1>5 DEF Next, LooperNext, Stopped

LEMMA RestAlways == Spec => []RestInv
<1>1. Init => RestInv
    BY Zenon DEF Init, RestInv, EngineStopsWithSession, DeferredAwaitsTransfer
<1> QED
    BY <1>1, RestStep, PTL DEF Spec

\* By whichever exit a session gets back to DISCONNECTED, its engine is down.
THEOREM EngineStops == Spec => []EngineStopsWithSession
<1>1. RestInv => EngineStopsWithSession
    BY DEF RestInv
<1> QED
    BY <1>1, RestAlways, PTL

\* A session at rest in DISCONNECTED has no message left deferred.
THEOREM DeferredReplayed == Spec => []DeferredAwaitsTransfer
<1>1. RestInv => DeferredAwaitsTransfer
    BY DEF RestInv
<1> QED
    BY <1>1, RestAlways, PTL

-----------------------------------------------------------------------------
(* What the clients were told last: with one device, and two entries for it  *)
(* at times, only the first is ever told anything but DISCONNECTED.          *)

OneDevice == \A a \in Devices, b \in Devices : a = b

Later(list) == \A i \in DOMAIN list : i # 1 => list[i].st = "DISCONNECTED"
Agree(list) == \A i \in DOMAIN list : list[i].st = "DISCONNECTED"

LEMMA ListedDevices ==
    ASSUME NEW list \in Seq(RemoteDevice)
    PROVE  \A i \in DOMAIN list : list[i].dev \in Devices
<1>1. \A i \in DOMAIN list : list[i] \in RemoteDevice
    OBVIOUS
<1> QED
    BY <1>1 DEF RemoteDevice

\* A report changes the first entry, if any ...
LEMMA ChangedList ==
    ASSUME OneDevice, NEW list \in Seq(RemoteDevice), NEW d \in DeviceOrNone, NEW st
    PROVE  /\ Later(list) => Later(ChangeDeviceState(list, d, st))
           /\ Agree(list) /\ st = "DISCONNECTED" => Agree(ChangeDeviceState(list, d, st))
<1> DEFINE changed == ChangeDeviceState(list, d, st)
<1>1. DOMAIN changed = DOMAIN list /\ DOMAIN list = 1 .. Len(list)
    BY DEF ChangeDeviceState
<1>2. ASSUME NEW i \in DOMAIN list
      PROVE  changed[i].st = st \/ changed[i].st = list[i].st
    <2>1. list[i] \in RemoteDevice
        BY <1>2
    <2>2. [list[i] EXCEPT !.st = st].st = st
        BY <2>1 DEF RemoteDevice
    <2> QED
        BY <1>2, <2>2 DEF ChangeDeviceState
<1>3. ASSUME NEW i \in DOMAIN list, i # 1
      PROVE  changed[i] = list[i]
    <2>1. 1 \in DOMAIN list /\ 1 < i
        BY <1>1, <1>3
    <2>2. list[i].dev \in Devices /\ list[1].dev \in Devices
        BY <1>3, <2>1, ListedDevices
    <2>3. list[i].dev = list[1].dev
        BY <2>2 DEF OneDevice
    <2>4. ~IsFirst(list, d, i)
        BY <2>1, <2>3 DEF IsFirst
    <2> QED
        BY <1>3, <2>4 DEF ChangeDeviceState
<1> HIDE DEF changed
<1>4. Later(list) => Later(changed)
    BY <1>1, <1>3 DEF Later
<1>5. Agree(list) /\ st = "DISCONNECTED" => Agree(changed)
    BY <1>1, <1>2 DEF Agree
<1> QED
    BY <1>4, <1>5 DEF changed

\* ... and what is dropped is the first, or nothing.
LEMMA DroppedList ==
    ASSUME OneDevice, NEW list \in Seq(RemoteDevice), NEW d \in DeviceOrNone
    PROVE  /\ Later(list) => Later(RemoveRemoteDevice(list, d))
           /\ Agree(list) => Agree(RemoveRemoteDevice(list, d))
           /\ Later(list) /\ d # NoDevice => Agree(RemoveRemoteDevice(list, d))
<1> DEFINE found == \E i \in DOMAIN list : list[i].dev = d
<1> DEFINE n == IF found THEN Len(list) - 1 ELSE Len(list)
<1> DEFINE rest == RemoveRemoteDevice(list, d)
<1>1. DOMAIN list = 1 .. Len(list) /\ Len(list) \in Nat
    OBVIOUS
<1>2. DOMAIN rest = 1 .. n
    BY DEF RemoveRemoteDevice
<1>3. \A i \in DOMAIN list : list[i].dev \in Devices
    BY ListedDevices
<1>4. CASE found
    <2>1. \A i \in DOMAIN list : list[i].dev = d
        BY <1>3, <1>4 DEF OneDevice
    <2>2. ASSUME NEW k \in DOMAIN rest
          PROVE  k + 1 \in DOMAIN list /\ k + 1 # 1 /\ rest[k] = list[k + 1]
        <3>1. k \in 1 .. Len(list) - 1
            BY <1>2, <1>4, <2>2
        <3>2. k + 1 \in 1 .. Len(list) /\ k + 1 # 1 /\ 1 \in 1 .. k /\ 1 \in 1 .. Len(list)
            BY <1>1, <3>1
        <3>3. \E j \in 1 .. k : list[j].dev = d
            BY <1>1, <2>1, <3>2
        <3>4. rest[k] = list[k + 1]
            BY <1>4, <3>1, <3>3 DEF RemoveRemoteDevice
        <3> QED
            BY <1>1, <3>2, <3>4
    <2> HIDE DEF rest
    <2>3. Later(list) => Agree(rest)
        BY <2>2 DEF Later, Agree
    <2> QED
        BY <2>2, <2>3 DEF Later, Agree, rest
<1>5. CASE ~found
    <2>1. ASSUME NEW k \in DOMAIN rest PROVE k \in DOMAIN list /\ rest[k] = list[k]
        <3>1. k \in 1 .. Len(list)
            BY <1>2, <1>5, <2>1
        <3>2. ~ \E j \in 1 .. k : list[j].dev = d
            BY <1>1, <1>5, <3>1
        <3> QED
            BY <1>1, <1>5, <3>1, <3>2 DEF RemoveRemoteDevice
    <2>2. Later(list) => Later(rest)
        <3> HIDE DEF rest
        <3> QED
            BY <2>1 DEF Later
    <2>3. Agree(list) => Agree(rest)
        <3> HIDE DEF rest
        <3> QED
            BY <2>1 DEF Agree
    <2>4. d # NoDevice => Agree(rest)
        <3>1. ASSUME d # NoDevice PROVE DOMAIN list = {}
            <4>1. d \in Devices
                BY <3>1 DEF DeviceOrNone
            <4> QED
                BY <1>3, <1>5, <4>1 DEF OneDevice
        <3> HIDE DEF rest
        <3> QED
            BY <2>1, <3>1 DEF Agree
    <2> QED
        BY <2>2, <2>3, <2>4
<1> QED
    BY <1>4, <1>5

LEMMA AppendedList ==
    ASSUME NEW list \in Seq(RemoteDevice), NEW d
    PROVE  LET longer == Append(list, [dev |-> d, st |-> "DISCONNECTED"]) IN
           (Later(list) => Later(longer)) /\ (Agree(list) => Agree(longer))
<1> DEFINE r == [dev |-> d, st |-> "DISCONNECTED"]
<1> DEFINE longer == Append(list, r)
<1>1. r.st = "DISCONNECTED"
    OBVIOUS
<1>2. ASSUME NEW i \in DOMAIN longer
      PROVE  (i \in DOMAIN list /\ longer[i] = list[i]) \/ longer[i] = r
    OBVIOUS
<1> HIDE DEF longer, r
<1>3. (Later(list) => Later(longer)) /\ (Agree(list) => Agree(longer))
    BY <1>1, <1>2 DEF Later, Agree
<1> QED
    BY <1>3 DEF longer, r

\* Messages that end an attempt name their device, and so does the engine, from
\* the first attempt on.
Names(m) == m.what \in {"DISCONNECT", "SETUP"} => m.dev # NoDevice
AllName(q) == \A i \in DOMAIN q : Names(q[i])
EngineNamed == state # "DISCONNECTED" \/ channels > 0 \/ receiving => rtspDevice # NoDevice
NameInv == AllName(queue) /\ EngineNamed

LEMMA NamesAppend ==
    ASSUME NEW q \in Seq(Message), AllName(q), NEW m \in Message, Names(m)
    PROVE  AllName(Append(q, m))
<1>1. ASSUME NEW i \in DOMAIN Append(q, m)
      PROVE  (i \in DOMAIN q /\ Append(q, m)[i] = q[i]) \/ Append(q, m)[i] = m
    OBVIOUS
<1> QED
    BY <1>1 DEF AllName

LEMMA NamesConcat ==
    ASSUME NEW q \in Seq(Message), NEW r \in Seq(Message), AllName(q), AllName(r)
    PROVE  AllName(q \o r)
<1>1. ASSUME NEW i \in DOMAIN (q \o r)
      PROVE  \/ i \in DOMAIN q /\ (q \o r)[i] = q[i]
             \/ i - Len(q) \in DOMAIN r /\ (q \o r)[i] = r[i - Len(q)]
    OBVIOUS
<1> QED
    BY <1>1 DEF AllName

LEMMA NamesErrors ==
    ASSUME NEW q \in Seq(Message), NEW n \in Nat, AllName(q)
    PROVE  AllName(q \o Errors(n))
<1>1. AllName(Errors(n))
    BY DEF AllName, Names, Errors, ErrorMsg, Msg
<1> QED
    BY <1>1, ErrorsType, NamesConcat

LEMMA NamesTail ==
    ASSUME NEW q \in Seq(Message), q # <<>>, AllName(q)
    PROVE  Names(Head(q)) /\ AllName(Tail(q))
<1>1. 1 \in DOMAIN q /\ Head(q) = q[1]
    OBVIOUS
<1>2. ASSUME NEW i \in DOMAIN Tail(q)
      PROVE  i + 1 \in DOMAIN q /\ Tail(q)[i] = q[i + 1]
    OBVIOUS
<1> QED
    BY <1>1, <1>2 DEF AllName

LEMMA NamesTearDown ==
    ASSUME TypeOK, NEW q \in Seq(Message), AllName(q), ActionTearDown(q) \/ ProcessDisconnect(q)
    PROVE  /\ AllName(queue') /\ UNCHANGED rtspDevice
           /\ channels' > 0 => channels > 0
<1>1. TearDownErrors \in Nat /\ TearDownErrors + ChannelErrors \in Nat
    BY DEF TearDownErrors, ChannelErrors, TypeOK
<1>2. AllName(queue')
    BY <1>1, NamesErrors DEF ActionTearDown, ProcessDisconnect
<1> QED
    BY <1>2 DEF ActionTearDown, ProcessDisconnect

\* What becomes of the name of the engine when one is started, or cannot be.
LEMMA NamesConnect ==
    ASSUME TypeOK, NEW q \in Seq(Message), AllName(q), NEW d \in DeviceOrNone
    PROVE  /\ ProcessConnectDone(d, q) => AllName(queue') /\ rtspDevice' # NoDevice
           /\ ProcessConnectFails(d, q) => AllName(queue') /\ UNCHANGED <<rtspDevice, channels>>
<1>1. ASSUME ProcessConnectDone(d, q) PROVE AllName(queue') /\ rtspDevice' # NoDevice
    <2>1. d \in Devices
        BY <1>1, ListedDevices DEF ProcessConnectDone, Listed, TypeOK
    <2> QED
        BY <1>1, <2>1, DevicesAssumption DEF ProcessConnectDone
<1>2. ASSUME ProcessConnectFails(d, q)
      PROVE  AllName(queue') /\ UNCHANGED <<rtspDevice, channels>>
    <2>1. queue' = q \/ queue' = q \o Errors(1)
        BY <1>2 DEF ProcessConnectFails, ProcessConnectNoChannel, ProcessConnectNoDevice
    <2>2. AllName(queue')
        BY <2>1, NamesErrors
    <2>3. UNCHANGED <<rtspDevice, channels>>
        BY <1>2 DEF ProcessConnectFails, ProcessConnectNoChannel, ProcessConnectNoDevice, rtspVars
    <2> QED
        BY <2>2, <2>3
<1> QED
    BY <1>1, <1>2

LEMMA NamesHandlers ==
    ASSUME TypeOK, NameInv, NEW m \in Message, NEW q \in Seq(Message), AllName(q), NEW dq,
           \/ ConnectWhenDisconnected(m, q, dq) \/ DisconnectWhenDisconnected(m, q)
           \/ DeferWhenConnecting(m, q, dq) \/ SetupWhenConnecting(m, q)
           \/ DisconnectWhenConnecting(m, q) \/ RenderReadyWhenConnecting(m, q)
           \/ ErrorWhenEngaged(m, q) \/ ConnectWhenConnected(m, q)
           \/ DisconnectWhenConnected(m, q) \/ DeferPlayReqWhenConnected(m, q)
           \/ PlayWhenPaused(m, q, dq) \/ PauseWhenPlaying(m, q)
           \/ StreamChannelWhenStream(m, q) \/ SwitchMode(m, q) \/ Ignore(m, q)
           \/ DropReplayed(m, q, dq)
    PROVE  NameInv'
<1>0. m.dev \in DeviceOrNone
    BY DEF Message
<1>1. CASE ConnectWhenDisconnected(m, q, dq)
    <2>1. receiving' = receiving
        BY <1>1 DEF ConnectWhenDisconnected, outsideVars
    <2>2. CASE ProcessConnectDone(m.dev, q)
        BY <1>0, <2>2, NamesConnect DEF NameInv, EngineNamed
    <2>3. CASE ProcessConnectFails(m.dev, q) /\ Stay
        <3>1. AllName(queue') /\ UNCHANGED <<rtspDevice, channels, state>>
            BY <1>0, <2>3, NamesConnect DEF Stay
        <3> QED
            BY <2>1, <3>1 DEF NameInv, EngineNamed
    <2> QED
        BY <1>1, <2>2, <2>3 DEF ConnectWhenDisconnected
<1>2. CASE \/ SetupWhenConnecting(m, q) \/ DisconnectWhenConnecting(m, q)
           \/ ErrorWhenEngaged(m, q) \/ DisconnectWhenConnected(m, q)
    <2>1. (ActionTearDown(q) \/ ProcessDisconnect(q)) /\ receiving' = receiving
          /\ state' = "DISCONNECTED"
        BY <1>2 DEF SetupWhenConnecting, DisconnectWhenConnecting, ErrorWhenEngaged,
                    DisconnectWhenConnected, TransferAndDrop, outsideVars
    <2> QED
        BY <2>1, NamesTearDown DEF NameInv, EngineNamed
<1>3. CASE ConnectWhenConnected(m, q)
    <2>1. state # "DISCONNECTED" /\ rtspDevice # NoDevice
        BY <1>3 DEF ConnectWhenConnected, ConnectedFamily, NameInv, EngineNamed
    <2>2. AllName(queue') /\ rtspDevice' # NoDevice
        BY <1>0, <1>3, <2>1, NamesConnect DEF ConnectWhenConnected
    <2> QED
        BY <2>2 DEF NameInv, EngineNamed
<1>4. CASE StreamChannelWhenStream(m, q)
    <2>1. UNCHANGED <<rtspDevice, state>> /\ rtspDevice # NoDevice
        BY <1>4 DEF StreamChannelWhenStream, NameInv, EngineNamed, loopVars
    <2>2. queue' = q \/ queue' = Append(q, ErrorMsg)
        BY <1>4 DEF StreamChannelWhenStream
    <2>3. ErrorMsg \in Message /\ Names(ErrorMsg)
        BY DEF ErrorMsg, Msg, Message, MessageIds, DeviceOrNone, Names
    <2>4. AllName(queue')
        BY <2>2, <2>3, NamesAppend
    <2> QED
        BY <2>1, <2>4 DEF NameInv, EngineNamed
<1>5. CASE \/ DisconnectWhenDisconnected(m, q) \/ DeferWhenConnecting(m, q, dq)
           \/ RenderReadyWhenConnecting(m, q) \/ DeferPlayReqWhenConnected(m, q)
           \/ PlayWhenPaused(m, q, dq) \/ PauseWhenPlaying(m, q) \/ SwitchMode(m, q)
           \/ Ignore(m, q) \/ DropReplayed(m, q, dq)
    <2>1. /\ queue' = q /\ UNCHANGED <<rtspDevice, channels, receiving>>
          /\ state' # "DISCONNECTED" => state # "DISCONNECTED"
        BY <1>5 DEF DisconnectWhenDisconnected, DeferWhenConnecting, RenderReadyWhenConnecting,
                    DeferPlayReqWhenConnected, PlayWhenPaused, PauseWhenPlaying, SwitchMode,
                    Switch, Ignore, DropReplayed, Stay, TransferTo, loopVars, rtspVars,
                    outsideVars
    <2> QED
        BY <2>1 DEF NameInv, EngineNamed
<1> QED
    BY <1>1, <1>2, <1>3, <1>4, <1>5

LEMMA NamesCallbacks ==
    ASSUME TypeOK, NameInv, ChannelNext
    PROVE  NameInv'
<1>1. /\ UNCHANGED <<state, channels, rtspDevice>>
      /\ rtspDevice \in DeviceOrNone
      /\ receiving' => receiving \/ channels > 0
    BY DEF ChannelNext, Receive, CallbackEnds, OnPeerMessage, OnSetup, ProcessStreamMode,
           OnTearDown, OnChannelRemoved, loopVars, rtspVars, TypeOK
<1>2. ErrorMsg \in Message /\ Names(ErrorMsg)
    BY DEF ErrorMsg, Msg, Message, MessageIds, DeviceOrNone, Names
<1>3. ASSUME Receive PROVE AllName(queue')
    BY <1>3 DEF Receive, NameInv
<1>4. ASSUME OnPeerMessage PROVE AllName(queue')
    <2>1. PICK m \in PeerMessages : Post(m)
        BY <1>4 DEF OnPeerMessage
    <2>2. m.what \notin {"DISCONNECT", "SETUP"}
        BY DEF PeerMessages, ErrorMsg, Msg
    <2>3. m \in Message
        BY <1>1, <1>2 DEF PeerMessages, Msg, Message, MessageIds, DeviceOrNone
    <2> QED
        BY <2>1, <2>2, <2>3, NamesAppend DEF Post, Names, NameInv, TypeOK
<1>5. ASSUME OnSetup \/ ProcessStreamMode PROVE AllName(queue')
    <2>1. rtspDevice # NoDevice
        BY <1>5 DEF OnSetup, ProcessStreamMode, CallbackEnds, NameInv, EngineNamed
    <2>2. PICK what \in {"SETUP", "PEER_RENDER_READY"} : Post(Msg(what, rtspDevice))
        BY <1>5 DEF OnSetup, ProcessStreamMode
    <2>3. Msg(what, rtspDevice) \in Message /\ Names(Msg(what, rtspDevice))
        BY <1>1, <2>1 DEF Msg, Message, MessageIds, Names
    <2> QED
        BY <2>2, <2>3, NamesAppend DEF Post, NameInv, TypeOK
<1>6. ASSUME OnTearDown PROVE AllName(queue')
    <2>1. PICK n \in 1 .. 2 : queue' = queue \o Errors(n)
        BY <1>6 DEF OnTearDown
    <2> QED
        BY <2>1, NamesErrors DEF NameInv, TypeOK
<1>7. ASSUME OnChannelRemoved PROVE AllName(queue')
    <2>1. queue' = queue \/ queue' = Append(queue, ErrorMsg)
        BY <1>7 DEF OnChannelRemoved
    <2> QED
        BY <1>2, <2>1, NamesAppend DEF NameInv, TypeOK
<1>8. AllName(queue')
    BY <1>3, <1>4, <1>5, <1>6, <1>7 DEF ChannelNext, NameInv
<1> QED
    BY <1>1, <1>8 DEF NameInv, EngineNamed

LEMMA NamesPosted ==
    ASSUME TypeOK, NameInv, LinkNext \/ ClientNext \/ Release
    PROVE  NameInv'
<1>1. UNCHANGED <<state, channels, rtspDevice, receiving>>
    BY DEF LinkNext, ReportConnected, ReportFailed, LinkDropped, ClientNext, PlayerCall, ClientCall,
           DisconnectSession, Release, loopVars, rtspVars, outsideVars
<1>2. ASSUME LinkNext PROVE AllName(queue')
    <2>1. PICK d \in Devices : ReportConnected(d) \/ ReportFailed(d) \/ LinkDropped(d)
        BY <1>2 DEF LinkNext
    <2>2. queue' = queue \/ \E what \in {"CONNECT", "DISCONNECT"} : Post(Msg(what, d))
        BY <2>1 DEF ReportConnected, ReportFailed, LinkDropped
    <2>3. \A what \in {"CONNECT", "DISCONNECT"} :
            Msg(what, d) \in Message /\ Names(Msg(what, d))
        BY DevicesAssumption DEF Msg, Message, MessageIds, DeviceOrNone, Names
    <2> QED
        BY <2>2, <2>3, NamesAppend DEF Post, NameInv, TypeOK
<1>3. ASSUME ClientNext PROVE AllName(queue')
    <2>1. ASSUME PlayerCall PROVE AllName(queue')
        <3>1. PICK what \in {"PEER_RENDER_READY", "SWITCH_TO_STREAM"} : Post(Msg(what, NoDevice))
            BY <2>1 DEF PlayerCall
        <3>2. Msg(what, NoDevice) \in Message /\ Names(Msg(what, NoDevice))
            BY DEF Msg, Message, MessageIds, DeviceOrNone, Names
        <3> QED
            BY <3>1, <3>2, NamesAppend DEF Post, NameInv, TypeOK
    <2>2. ASSUME NEW d \in Devices, ClientCall(d) PROVE AllName(queue')
        <3>1. PICK what \in {"DISCONNECT", "PLAY", "PAUSE"} : Post(Msg(what, d))
            BY <2>2 DEF ClientCall
        <3>2. Msg(what, d) \in Message /\ Names(Msg(what, d))
            BY DevicesAssumption DEF Msg, Message, MessageIds, DeviceOrNone, Names
        <3> QED
            BY <3>1, <3>2, NamesAppend DEF Post, NameInv, TypeOK
    <2>3. ASSUME NEW d \in Devices, DisconnectSession(d) PROVE queue' = queue
        BY <2>3 DEF DisconnectSession
    <2> QED
        BY <1>3, <2>1, <2>2, <2>3 DEF ClientNext, NameInv
<1>4. ASSUME Release PROVE AllName(queue')
    <2> DEFINE s == [i \in DOMAIN remoteDeviceList |-> Msg("DISCONNECT", remoteDeviceList[i].dev)]
    <2>1. queue' = queue \o s
        BY <1>4 DEF Release
    <2>2. remoteDeviceList \in Seq(RemoteDevice) /\ queue \in Seq(Message)
        BY DEF TypeOK
    <2>3. \A i \in DOMAIN remoteDeviceList : remoteDeviceList[i].dev \in Devices
        BY <2>2, ListedDevices
    <2>4. ASSUME NEW i \in DOMAIN remoteDeviceList
          PROVE  s[i] \in Message /\ Names(s[i])
        BY <2>3, <2>4, DevicesAssumption DEF Msg, Message, MessageIds, DeviceOrNone, Names
    <2>5. s \in Seq(Message)
        <3>1. s \in [1 .. Len(remoteDeviceList) -> Message] /\ Len(remoteDeviceList) \in Nat
            BY <2>2, <2>4
        <3> QED
            BY <3>1
    <2>6. AllName(s)
        BY <2>4 DEF AllName
    <2> QED
        BY <2>1, <2>2, <2>5, <2>6, NamesConcat DEF NameInv
<1>5. AllName(queue')
    BY <1>2, <1>3, <1>4
<1> QED
    BY <1>1, <1>5 DEF NameInv, EngineNamed

LEMMA NamesStep == TypeOK /\ NameInv /\ [Next]_vars => NameInv'
<1> SUFFICES ASSUME TypeOK, NameInv, [Next]_vars PROVE NameInv'
    OBVIOUS
<1>0. queue \in Seq(Message) /\ deferred \in Seq(Message)
    BY DEF TypeOK
<1>1. CASE HandleMessage
    <2> DEFINE m == Head(queue)
    <2> DEFINE q == Tail(queue)
    <2>1. m \in Message /\ q \in Seq(Message) /\ AllName(q)
        BY <1>0, <1>1, QueueEnds, NamesTail DEF HandleMessage, NameInv
    <2>2. \/ ConnectWhenDisconnected(m, q, deferred) \/ DisconnectWhenDisconnected(m, q)
          \/ DeferWhenConnecting(m, q, deferred) \/ SetupWhenConnecting(m, q)
          \/ DisconnectWhenConnecting(m, q) \/ RenderReadyWhenConnecting(m, q)
          \/ ErrorWhenEngaged(m, q) \/ ConnectWhenConnected(m, q)
          \/ DisconnectWhenConnected(m, q) \/ DeferPlayReqWhenConnected(m, q)
          \/ PlayWhenPaused(m, q, deferred) \/ PauseWhenPlaying(m, q)
          \/ StreamChannelWhenStream(m, q) \/ SwitchMode(m, q) \/ Ignore(m, q)
        BY Zenon, <1>1 DEF HandleMessage
    <2> HIDE DEF m, q
    <2> QED
        BY <2>1, <2>2, NamesHandlers
<1>2. CASE ProcessDeferredMessage
    <2> DEFINE m == Head(deferred)
    <2> DEFINE dq == Tail(deferred)
    <2>1. m \in Message /\ AllName(queue)
        BY <1>0, <1>2, QueueEnds DEF ProcessDeferredMessage, NameInv
    <2>2. \/ ConnectWhenDisconnected(m, queue, dq) \/ DeferWhenConnecting(m, queue, dq)
          \/ PlayWhenPaused(m, queue, dq) \/ DropReplayed(m, queue, dq)
        BY Zenon, <1>2 DEF ProcessDeferredMessage
    <2> HIDE DEF m, dq
    <2> QED
        BY <1>0, <2>1, <2>2, NamesHandlers
<1>3. CASE HandleConnectTimeout
    <2>1. ProcessDisconnect(queue) /\ UNCHANGED <<state, receiving>>
        BY <1>3 DEF HandleConnectTimeout, loopVars, outsideVars
    <2> QED
        BY <1>0, <2>1, NamesTearDown DEF NameInv, EngineNamed
<1>4. CASE LinkNext \/ ClientNext \/ Release
    BY <1>4, NamesPosted
<1>5. CASE ChannelNext
    BY <1>5, NamesCallbacks
<1>6. CASE \/ LooperExits \/ TransferDone \/ CallerNext \/ StopRemovesTimeout \/ StopSafty
           \/ UNCHANGED vars
    <2>1. UNCHANGED <<queue, state, channels, rtspDevice, receiving>>
        BY <1>6 DEF LooperExits, TransferDone, CallerNext, AddDeviceLookup, AddDevicePush,
                    StopRemovesTimeout, StopSafty, vars, loopVars, rtspVars, outsideVars
    <2> QED
        BY <2>1 DEF NameInv, EngineNamed
<1> QED
    BY <1>1, <1>2, <1>3, <1>4, <1>5, <1>6 DEF Next, LooperNext, StopNext, Stopped

\* An attempt's device stays on the list until the attempt is over, and nothing
\* else of the list differs from DISCONNECTED.
ListInv ==
    /\ Later(remoteDeviceList)
    /\ state = "DISCONNECTED" /\ after = NoDevice => Agree(remoteDeviceList)
    /\ looper # "transfer" => after = NoDevice

LEMMA ListHandlers ==
    ASSUME OneDevice, TypeOK, ListInv, NEW m \in Message, NEW q, NEW dq,
           \/ looper = "idle" /\ Names(m)
           \/ looper = "transfer" /\ m.what \notin {"DISCONNECT", "SETUP"},
           \/ ConnectWhenDisconnected(m, q, dq) \/ DisconnectWhenDisconnected(m, q)
           \/ DeferWhenConnecting(m, q, dq) \/ SetupWhenConnecting(m, q)
           \/ DisconnectWhenConnecting(m, q) \/ RenderReadyWhenConnecting(m, q)
           \/ ErrorWhenEngaged(m, q) \/ ConnectWhenConnected(m, q)
           \/ DisconnectWhenConnected(m, q) \/ DeferPlayReqWhenConnected(m, q)
           \/ PlayWhenPaused(m, q, dq) \/ PauseWhenPlaying(m, q)
           \/ StreamChannelWhenStream(m, q) \/ SwitchMode(m, q) \/ Ignore(m, q)
           \/ DropReplayed(m, q, dq)
    PROVE  ListInv'
<1>0. m.dev \in DeviceOrNone /\ remoteDeviceList \in Seq(RemoteDevice)
    BY DEF Message, TypeOK
<1>1. CASE ConnectWhenDisconnected(m, q, dq)
    <2>1. CASE /\ remoteDeviceList' = ChangeDeviceState(remoteDeviceList, m.dev, "CONNECTING")
               /\ TransferTo("CONNECTING")
        BY <1>0, <2>1, ChangedList DEF TransferTo, ListInv
    <2>2. CASE /\ remoteDeviceList' = ChangeDeviceState(remoteDeviceList, m.dev, "DISCONNECTED")
               /\ Stay
        BY <1>0, <2>2, ChangedList DEF Stay, ListInv
    <2> QED
        BY <1>1, <2>1, <2>2 DEF ConnectWhenDisconnected
<1>2. CASE DisconnectWhenDisconnected(m, q)
    BY <1>0, <1>2, DroppedList DEF DisconnectWhenDisconnected, ListInv, loopVars
<1>3. CASE \/ SetupWhenConnecting(m, q) \/ DisconnectWhenConnecting(m, q)
           \/ DisconnectWhenConnected(m, q)
    <2>1. m.what \in {"DISCONNECT", "SETUP"} /\ TransferAndDrop(m.dev) /\ UNCHANGED remoteDeviceList
        BY <1>3 DEF SetupWhenConnecting, DisconnectWhenConnecting, DisconnectWhenConnected
    <2>2. m.dev # NoDevice
        BY <2>1 DEF Names
    <2> QED
        BY <2>1, <2>2 DEF TransferAndDrop, ListInv
<1>4. CASE ErrorWhenEngaged(m, q)
    <2>1. remoteDeviceList' = <<>> /\ looper' = "transfer"
        BY <1>4 DEF ErrorWhenEngaged, TransferAndDrop
    <2> QED
        BY <2>1 DEF ListInv, Later, Agree
<1>5. CASE \/ RenderReadyWhenConnecting(m, q) \/ ConnectWhenConnected(m, q)
           \/ PlayWhenPaused(m, q, dq) \/ PauseWhenPlaying(m, q)
    <2>1. /\ state' # "DISCONNECTED"
          /\ looper' = "transfer" \/ UNCHANGED <<looper, after>>
          /\ \/ UNCHANGED remoteDeviceList
             \/ \E st \in DeviceStates :
                    remoteDeviceList' = ChangeDeviceState(remoteDeviceList, m.dev, st)
        BY <1>5 DEF RenderReadyWhenConnecting, ConnectWhenConnected, PlayWhenPaused,
                    PauseWhenPlaying, TransferTo, Stay, ConnectedFamily, DeviceStates
    <2> QED
        BY <1>0, <2>1, ChangedList DEF ListInv
<1>6. CASE SwitchMode(m, q)
    <2>1. CurrentRemoteDevice \in DeviceOrNone
        <3>1. remoteDeviceList # <<>> => 1 \in DOMAIN remoteDeviceList
            BY <1>0
        <3> QED
            BY <1>0, <3>1, ListedDevices DEF CurrentRemoteDevice, DeviceOrNone
    <2>2. /\ state' # "DISCONNECTED" /\ looper' = "transfer"
          /\ \E st :
                remoteDeviceList' = ChangeDeviceState(remoteDeviceList, CurrentRemoteDevice, st)
        BY <1>6 DEF SwitchMode, Switch, TransferTo
    <2> QED
        BY <1>0, <2>1, <2>2, ChangedList DEF ListInv
<1>7. CASE \/ DeferWhenConnecting(m, q, dq) \/ DeferPlayReqWhenConnected(m, q)
           \/ StreamChannelWhenStream(m, q) \/ Ignore(m, q) \/ DropReplayed(m, q, dq)
    <2>1. UNCHANGED <<remoteDeviceList, state, looper, after>>
        BY <1>7 DEF DeferWhenConnecting, DeferPlayReqWhenConnected, StreamChannelWhenStream,
                    Ignore, DropReplayed, Stay, loopVars
    <2> QED
        BY <2>1 DEF ListInv
<1> QED
    BY <1>1, <1>2, <1>3, <1>4, <1>5, <1>6, <1>7

LEMMA ListStep ==
    ASSUME OneDevice, TypeOK, NameInv, ListInv, [Next]_vars
    PROVE  ListInv'
<1>0. /\ queue \in Seq(Message) /\ deferred \in Seq(Message)
      /\ remoteDeviceList \in Seq(RemoteDevice) /\ after \in DeviceOrNone
    BY DEF TypeOK
<1>1. CASE HandleMessage
    <2> DEFINE m == Head(queue)
    <2> DEFINE q == Tail(queue)
    <2>1. m \in Message /\ Names(m) /\ looper = "idle"
        BY <1>0, <1>1, QueueEnds, NamesTail DEF HandleMessage, NameInv
    <2>2. \/ ConnectWhenDisconnected(m, q, deferred) \/ DisconnectWhenDisconnected(m, q)
          \/ DeferWhenConnecting(m, q, deferred) \/ SetupWhenConnecting(m, q)
          \/ DisconnectWhenConnecting(m, q) \/ RenderReadyWhenConnecting(m, q)
          \/ ErrorWhenEngaged(m, q) \/ ConnectWhenConnected(m, q)
          \/ DisconnectWhenConnected(m, q) \/ DeferPlayReqWhenConnected(m, q)
          \/ PlayWhenPaused(m, q, deferred) \/ PauseWhenPlaying(m, q)
          \/ StreamChannelWhenStream(m, q) \/ SwitchMode(m, q) \/ Ignore(m, q)
        BY Zenon, <1>1 DEF HandleMessage
    <2> HIDE DEF m, q
    <2> QED
        BY <2>1, <2>2, ListHandlers
<1>2. CASE ProcessDeferredMessage
    <2> DEFINE m == Head(deferred)
    <2> DEFINE dq == Tail(deferred)
    <2>1. m \in Message /\ looper = "transfer"
        BY <1>0, <1>2, QueueEnds DEF ProcessDeferredMessage
    <2>2. \/ ConnectWhenDisconnected(m, queue, dq) \/ DeferWhenConnecting(m, queue, dq)
          \/ PlayWhenPaused(m, queue, dq) \/ DropReplayed(m, queue, dq)
        BY Zenon, <1>2 DEF ProcessDeferredMessage
    <2> HIDE DEF m, dq
    <2>3. CASE DropReplayed(m, queue, dq)
        BY <2>3 DEF DropReplayed, Stay, ListInv
    <2>4. CASE \/ ConnectWhenDisconnected(m, queue, dq) \/ DeferWhenConnecting(m, queue, dq)
               \/ PlayWhenPaused(m, queue, dq)
        <3>1. m.what \notin {"DISCONNECT", "SETUP"}
            BY <2>4 DEF ConnectWhenDisconnected, DeferWhenConnecting, PlayWhenPaused
        <3> QED
            BY <2>1, <2>4, <3>1, ListHandlers
    <2> QED
        BY <2>2, <2>3, <2>4
<1>3. CASE TransferDone
    <2>1. /\ remoteDeviceList' = RemoveRemoteDevice(remoteDeviceList, after)
          /\ after' = NoDevice /\ state' = state
        BY <1>3 DEF TransferDone
    <2> QED
        BY <1>0, <2>1, DroppedList DEF ListInv
<1>4. CASE \E c \in Callers : AddDevicePush(c)
    <2>1. PICK d : remoteDeviceList' = Append(remoteDeviceList, [dev |-> d, st |-> "DISCONNECTED"])
        BY <1>4 DEF AddDevicePush
    <2>2. UNCHANGED <<state, looper, after>>
        BY <1>4 DEF AddDevicePush, loopVars
    <2> QED
        BY <1>0, <2>1, <2>2, AppendedList DEF ListInv
<1>5. CASE \E d \in Devices : DisconnectSession(d)
    <2>1. PICK d \in Devices :
            remoteDeviceList' = ChangeDeviceState(remoteDeviceList, d, "DISCONNECTED")
        BY <1>5 DEF DisconnectSession
    <2>2. UNCHANGED <<state, looper, after>> /\ d \in DeviceOrNone
        BY <1>5 DEF DisconnectSession, loopVars, DeviceOrNone
    <2> QED
        BY <1>0, <2>1, <2>2, ChangedList DEF ListInv
<1>6. CASE LooperExits
    BY <1>6 DEF LooperExits, ListInv
<1>7. CASE \/ HandleConnectTimeout \/ LinkNext \/ PlayerCall \/ ChannelNext \/ StopNext
           \/ \E d \in Devices : ClientCall(d)
           \/ \E c \in Callers, d \in Devices : AddDeviceLookup(c, d)
           \/ UNCHANGED vars
    <2>1. UNCHANGED <<remoteDeviceList, state, looper, after>>
        BY <1>7
        DEF HandleConnectTimeout, LinkNext, ReportConnected, ReportFailed, LinkDropped,
            PlayerCall, ChannelNext, Receive, OnPeerMessage, OnSetup, ProcessStreamMode,
            OnTearDown, OnChannelRemoved, StopNext, Release, StopRemovesTimeout, StopSafty,
            ClientCall, AddDeviceLookup, vars, loopVars
    <2> QED
        BY <2>1 DEF ListInv
<1> QED
    BY <1>1, <1>2, <1>3, <1>4, <1>5, <1>6, <1>7
    DEF Next, LooperNext, CallerNext, ClientNext, Stopped

\* A session of one device that is at rest in DISCONNECTED lists it, if at all,
\* as disconnected, however often AddDevice listed it, and whatever ended the
\* last attempt: the list tells clients nothing the session does not.
THEOREM DevicesDisconnected ==
    ASSUME OneDevice
    PROVE  Spec => []DisconnectedDevicesAgree
<1>1. Init => NameInv /\ ListInv
    BY DEF Init, NameInv, AllName, EngineNamed, ListInv, Later, Agree
<1>2. TypeOK /\ NameInv /\ ListInv /\ [Next]_vars => NameInv' /\ ListInv'
    BY NamesStep, ListStep
<1>3. ListInv => DisconnectedDevicesAgree
    BY DEF ListInv, Agree, DisconnectedDevicesAgree
<1> QED
    BY <1>1, <1>2, <1>3, TypeCorrect, PTL DEF Spec

-----------------------------------------------------------------------------
(* The session's promise *)

Leaving == stopping \in {"stopping", "stopped"}

\* What a step of the promise says of the session.
LEMMA PhaseIs ==
    ASSUME TypeOK
    PROVE  /\ Phase \in {"down", "trying", "up"}
           /\ Phase = "down" <=> state = "DISCONNECTED"
           /\ Phase = "trying" <=> state = "CONNECTING"
           /\ Phase = "up" <=> state \in ConnectedFamily
BY DEF Phase, TypeOK, SessionStates, ConnectedFamily

LEMMA PhaseBecomes ==
    ASSUME TypeOK'
    PROVE  /\ Phase' \in {"down", "trying", "up"}
           /\ Phase' = "down" <=> state' = "DISCONNECTED"
           /\ Phase' = "trying" <=> state' = "CONNECTING"
           /\ Phase' = "up" <=> state' \in ConnectedFamily
BY DEF Phase, TypeOK, SessionStates, ConnectedFamily

\* A step that keeps the phase, the engine and the timeout, and the errors that
\* wait, is none of the promise's, or a report.
Still ==
    /\ Phase' = Phase
    /\ rtspActive' = rtspActive
    /\ timers' > 0 <=> timers > 0
    /\ Leaving' <=> Leaving
    /\ looper' = "exited" <=> looper = "exited"

LEMMA StillPromised ==
    ASSUME Still, Waiting("ERROR") => Waiting("ERROR")'
    PROVE  [Promise!Next]_(Promise!vars)
<1>1. CASE Waiting("ERROR")' 
    <2>1. Promise!Report
        BY <1>1 DEF Promise!Report, Still, Leaving, Waiting, Has
    <2> QED
        BY Zenon, <2>1 DEF Promise!Next
<1>2. CASE ~Waiting("ERROR")'
    <2>1. UNCHANGED Promise!vars
        BY <1>2 DEF Promise!vars, Still, Leaving, Waiting, Has
    <2> QED
        BY <2>1
<1> QED
    BY <1>1, <1>2

LEMMA EndPromised ==
    ASSUME TypeOK, TypeOK', state # "DISCONNECTED", state' = "DISCONNECTED", looper # "exited",
           looper' # "exited", rtspActive' = FALSE, timers' = timers \/ timers' = 0, stopping' = stopping
    PROVE  [Promise!Next]_(Promise!vars)
<1>1. Phase # "down" /\ Phase' = "down"
    BY PhaseIs, PhaseBecomes
<1>2. (timers' > 0) \in {timers > 0, FALSE}
    <2>1. CASE timers' = timers
        BY <2>1
    <2>2. CASE timers' = 0
        <3>1. ~(timers' > 0)
            BY <2>2
        <3>2. (timers' > 0) = FALSE
            BY <3>1
        <3> QED
            BY Zenon, <3>2
    <2> QED
        BY <2>1, <2>2
<1>3. Waiting("ERROR")' \in BOOLEAN
    BY Zenon DEF Waiting, Has
<1>4. (looper' = "exited") = (looper = "exited")
    OBVIOUS
<1>5. Promise!End
    BY Zenon, <1>1, <1>2, <1>3, <1>4 DEF Promise!End
<1> QED
    BY Zenon, <1>5 DEF Promise!Next

LEMMA AttemptPromised ==
    ASSUME TypeOK, TypeOK', state = "DISCONNECTED", state' = "CONNECTING", ~rtspActive,
           looper # "exited", looper' # "exited", rtspActive' = TRUE, timers' > 0, stopping' = stopping,
           Waiting("ERROR")' <=> Waiting("ERROR")
    PROVE  [Promise!Next]_(Promise!vars)
<1>1. Phase = "down" /\ Phase' = "trying"
    BY PhaseIs, PhaseBecomes
<1>2. Promise!Attempt
    BY <1>1 DEF Promise!Attempt, Waiting, Has
<1> QED
    BY Zenon, <1>2 DEF Promise!Next

LEMMA EstablishPromised ==
    ASSUME TypeOK, TypeOK', state = "CONNECTING", state' \in ConnectedFamily,
           looper # "exited", looper' # "exited", rtspActive' = rtspActive, timers' = 0,
           stopping' = stopping, Waiting("ERROR")' <=> Waiting("ERROR")
    PROVE  [Promise!Next]_(Promise!vars)
<1>1. Phase = "trying" /\ Phase' = "up"
    BY PhaseIs, PhaseBecomes
<1>2. ~(timers' > 0)
    OBVIOUS
<1>3. Promise!Establish
    BY <1>1, <1>2 DEF Promise!Establish, Waiting, Has
<1> QED
    BY Zenon, <1>3 DEF Promise!Next

LEMMA JoinPromised ==
    ASSUME TypeOK, TypeOK', state \in ConnectedFamily, state' \in ConnectedFamily,
           looper # "exited", looper' # "exited", UNCHANGED <<timers, stopping>>,
           \/ rtspActive' = TRUE /\ (Waiting("ERROR")' <=> Waiting("ERROR"))
           \/ rtspActive' = FALSE /\ Waiting("ERROR")'
    PROVE  [Promise!Next]_(Promise!vars)
<1>1. Phase = "up" /\ Phase' = "up"
    BY PhaseIs, PhaseBecomes
<1>2. Promise!Join
    BY <1>1 DEF Promise!Join, Waiting, Has
<1> QED
    BY Zenon, <1>2 DEF Promise!Next

LEMMA TimeOutPromised ==
    ASSUME TypeOK, TypeOK', state \notin ConnectedFamily, state' = state, looper = "idle", looper' = looper,
           timers > 0, rtspActive' = FALSE, stopping' = stopping,
           Waiting("ERROR") \/ rtspActive => Waiting("ERROR")'
    PROVE  [Promise!Next]_(Promise!vars)
<1>1. Phase # "up" /\ Phase' = Phase
    BY PhaseIs DEF Phase
<1>2. (timers' > 0) \in BOOLEAN
    OBVIOUS
<1>3. Waiting("ERROR")' \in {Waiting("ERROR"), TRUE} /\ (rtspActive => Waiting("ERROR")')
    BY DEF Waiting, Has
<1>4. Promise!TimeOut
    BY <1>1, <1>2, <1>3 DEF Promise!TimeOut
<1> QED
    BY Zenon, <1>4 DEF Promise!Next

\* A disconnected session takes an error for nothing.
LEMMA DisregardPromised ==
    ASSUME TypeOK, state = "DISCONNECTED", looper = "idle",
           UNCHANGED <<state, looper, rtspActive, timers, stopping>>
    PROVE  [Promise!Next]_(Promise!vars)
<1>1. CASE Waiting("ERROR")'
    BY <1>1, StillPromised DEF Still, Phase, Leaving
<1>2. CASE ~Waiting("ERROR")'
    <2>1. Phase = "down" /\ Phase' = Phase
        BY PhaseIs DEF Phase
    <2>2. Promise!Disregard
        BY <1>2, <2>1 DEF Promise!Disregard, Waiting, Has
    <2> QED
        BY Zenon, <2>2 DEF Promise!Next
<1> QED
    BY <1>1, <1>2

-----------------------------------------------------------------------------
(* Every handler is a step of it *)

Standing == TypeOK /\ NoTimeoutWhenConnected /\ EngineInv /\ RestInv

LEMMA HandlersPromised ==
    ASSUME Standing, TypeOK', NEW m \in Message, NEW q \in Seq(Message), NEW dq,
           looper # "exited", Waiting("ERROR") <=> Has(q, "ERROR"),
           \/ ConnectWhenDisconnected(m, q, dq) \/ DisconnectWhenDisconnected(m, q)
           \/ DeferWhenConnecting(m, q, dq) \/ SetupWhenConnecting(m, q)
           \/ DisconnectWhenConnecting(m, q) \/ RenderReadyWhenConnecting(m, q)
           \/ ConnectWhenConnected(m, q) \/ ErrorWhenEngaged(m, q)
           \/ DisconnectWhenConnected(m, q) \/ DeferPlayReqWhenConnected(m, q)
           \/ PlayWhenPaused(m, q, dq) \/ PauseWhenPlaying(m, q)
           \/ StreamChannelWhenStream(m, q) \/ SwitchMode(m, q) \/ Ignore(m, q)
           \/ DropReplayed(m, q, dq)
    PROVE  [Promise!Next]_(Promise!vars)
<1>0. queue' = q => (Waiting("ERROR")' <=> Waiting("ERROR"))
    BY Zenon DEF Waiting
<1>t. TypeOK /\ rtspActive \in BOOLEAN
    BY DEF Standing, TypeOK
<1>1. CASE ConnectWhenDisconnected(m, q, dq)
    <2>0. state = "DISCONNECTED" /\ stopping' = stopping /\ ~rtspActive
        BY <1>1 DEF ConnectWhenDisconnected, Standing, RestInv, EngineStopsWithSession, outsideVars
    <2>1. CASE ProcessConnectDone(m.dev, q) /\ timers' = timers + 1 /\ TransferTo("CONNECTING")
        <3>1. rtspActive' = TRUE /\ timers' > 0 /\ queue' = q
            BY <1>t, <2>1 DEF ProcessConnectDone, TypeOK
        <3>2. state' = "CONNECTING" /\ looper' # "exited"
            BY <2>1 DEF TransferTo
        <3> QED
            BY <1>0, <1>t, <2>0, <3>1, <3>2, AttemptPromised
    <2>2. CASE ProcessConnectFails(m.dev, q) /\ UNCHANGED timers /\ Stay
        <3>1. CASE ProcessConnectNoChannel(m.dev, q)
            <4>1. queue' = q \o Errors(1) /\ rtspActive' = FALSE
                BY Zenon, <3>1 DEF ProcessConnectNoChannel
            <4>2. Waiting("ERROR")'
                BY <4>1, HasErrors DEF Waiting
            <4> QED
                BY <1>t, <2>0, <2>2, <4>1, <4>2, StillPromised DEF Still, Stay, Phase, Leaving
        <3>2. CASE ProcessConnectNoDevice(m.dev, q)
            BY <1>0, <2>0, <2>2, <3>2, StillPromised
            DEF ProcessConnectNoDevice, rtspVars, Still, Stay, Phase, Leaving
        <3> QED
            BY <2>2, <3>1, <3>2 DEF ProcessConnectFails
    <2> QED
        BY Zenon, <1>1, <2>1, <2>2 DEF ConnectWhenDisconnected
<1>2. CASE \/ SetupWhenConnecting(m, q) \/ DisconnectWhenConnecting(m, q)
           \/ ErrorWhenEngaged(m, q) \/ DisconnectWhenConnected(m, q)
    <2>1. /\ state # "DISCONNECTED" /\ state' = "DISCONNECTED" /\ looper' # "exited"
          /\ rtspActive' = FALSE /\ stopping' = stopping
          /\ timers' = timers \/ timers' = 0
        BY <1>2
        DEF SetupWhenConnecting, DisconnectWhenConnecting, ErrorWhenEngaged, DisconnectWhenConnected,
            TransferAndDrop, ActionTearDown, ProcessDisconnect, ConnectedFamily, outsideVars
    <2> QED
        BY <1>t, <2>1, EndPromised
<1>3. CASE \/ DisconnectWhenDisconnected(m, q) \/ DeferWhenConnecting(m, q, dq)
           \/ DeferPlayReqWhenConnected(m, q) \/ Ignore(m, q) \/ DropReplayed(m, q, dq)
    <2>1. UNCHANGED <<state, looper, rtspActive, timers, stopping>> /\ queue' = q
        BY Zenon, <1>3
        DEF DisconnectWhenDisconnected, DeferWhenConnecting, DeferPlayReqWhenConnected, Ignore,
            DropReplayed, Stay, loopVars, rtspVars, outsideVars
    <2> QED
        BY <1>0, <2>1, StillPromised DEF Still, Phase, Leaving
<1>4. CASE PlayWhenPaused(m, q, dq) \/ PauseWhenPlaying(m, q) \/ SwitchMode(m, q)
    <2>1. UNCHANGED <<rtspActive, timers, stopping>> /\ queue' = q
        BY Zenon, <1>4 DEF PlayWhenPaused, PauseWhenPlaying, SwitchMode, rtspVars, outsideVars
    <2>2. state \in ConnectedFamily /\ state' \in ConnectedFamily /\ looper' # "exited"
        BY <1>4 DEF PlayWhenPaused, PauseWhenPlaying, SwitchMode, Switch, TransferTo, ConnectedFamily
    <2>3. Phase' = Phase
        BY <2>2 DEF Phase, ConnectedFamily
    <2> QED
        BY <1>0, <2>1, <2>2, <2>3, StillPromised DEF Still, Leaving
<1>5. CASE RenderReadyWhenConnecting(m, q)
    <2>1. UNCHANGED <<rtspActive, stopping>> /\ queue' = q /\ state = "CONNECTING"
        BY Zenon, <1>5 DEF RenderReadyWhenConnecting, rtspVars, outsideVars
    <2>2. CASE timers' = 0 /\ TransferTo("STREAM")
        <3>1. state' \in ConnectedFamily /\ looper' # "exited"
            BY <2>2 DEF TransferTo, ConnectedFamily
        <3> QED
            BY <1>0, <1>t, <2>1, <2>2, <3>1, EstablishPromised
    <2>3. CASE Stay /\ UNCHANGED timers
        BY <1>0, <2>1, <2>3, StillPromised DEF Still, Stay, Phase, Leaving
    <2> QED
        BY Zenon, <1>5, <2>2, <2>3 DEF RenderReadyWhenConnecting
<1>6. CASE StreamChannelWhenStream(m, q)
    <2>1. UNCHANGED <<state, looper, rtspActive, timers, stopping>>
        BY Zenon, <1>6 DEF StreamChannelWhenStream, loopVars, outsideVars
    <2>2. ErrorMsg \in Message
        BY MsgType DEF ErrorMsg, MessageIds, DeviceOrNone
    <2>3. Waiting("ERROR") => Waiting("ERROR")'
        BY Zenon, <1>0, <1>6, <2>2, HasAppend DEF StreamChannelWhenStream, Waiting
    <2> QED
        BY <2>1, <2>3, StillPromised DEF Still, Phase, Leaving
<1>7. CASE ConnectWhenConnected(m, q)
    <2>1. UNCHANGED <<timers, stopping>> /\ state \in ConnectedFamily
        BY Zenon, <1>7 DEF ConnectWhenConnected, outsideVars
    <2>2. state' \in ConnectedFamily /\ looper' # "exited"
        BY <1>7 DEF ConnectWhenConnected, ConnectedFamily, TransferTo, Stay
    <2>3. CASE ProcessConnectDone(m.dev, q)
        <3>1. rtspActive' = TRUE /\ queue' = q
            BY Zenon, <2>3 DEF ProcessConnectDone
        <3> QED
            BY <1>0, <1>t, <2>1, <2>2, <3>1, JoinPromised
    <2>4. CASE ProcessConnectNoChannel(m.dev, q)
        <3>1. queue' = q \o Errors(1) /\ rtspActive' = FALSE
            BY Zenon, <2>4 DEF ProcessConnectNoChannel
        <3>2. Waiting("ERROR")'
            BY <3>1, HasErrors DEF Waiting
        <3> QED
            BY <1>t, <2>1, <2>2, <3>1, <3>2, JoinPromised
    <2>5. CASE ProcessConnectNoDevice(m.dev, q)
        <3>1. rtspActive' = rtspActive /\ queue' = q
            BY Zenon, <2>5 DEF ProcessConnectNoDevice, rtspVars
        <3>2. Phase' = Phase
            BY <2>1, <2>2 DEF Phase, ConnectedFamily
        <3> QED
            BY <1>0, <2>1, <2>2, <3>1, <3>2, StillPromised DEF Still, Leaving
    <2> QED
        BY Zenon, <1>7, <2>3, <2>4, <2>5 DEF ConnectWhenConnected, ProcessConnectFails
<1> QED
    BY Zenon, <1>1, <1>2, <1>3, <1>4, <1>5, <1>6, <1>7

LEMMA HadTail ==
    ASSUME NEW q \in Seq(Message), q # <<>>, NEW what, Has(Tail(q), what)
    PROVE  Has(q, what)
<1>1. PICK i \in 1 .. Len(Tail(q)) : Tail(q)[i].what = what
    BY DEF Has
<1>2. i + 1 \in 1 .. Len(q) /\ q[i + 1] = Tail(q)[i]
    BY <1>1
<1> QED
    BY <1>1, <1>2 DEF Has

LEMMA MessagesPromised ==
    ASSUME Standing, TypeOK', HandleMessage
    PROVE  [Promise!Next]_(Promise!vars)
<1> DEFINE m == Head(queue)
<1> DEFINE q == Tail(queue)
<1>1. queue \in Seq(Message) /\ queue # <<>> /\ looper = "idle" /\ TypeOK
    BY DEF Standing, TypeOK, HandleMessage
<1>2. m \in Message /\ q \in Seq(Message)
    BY <1>1, QueueEnds
<1>3. \/ ConnectWhenDisconnected(m, q, deferred) \/ DisconnectWhenDisconnected(m, q)
      \/ DeferWhenConnecting(m, q, deferred) \/ SetupWhenConnecting(m, q)
      \/ DisconnectWhenConnecting(m, q) \/ RenderReadyWhenConnecting(m, q)
      \/ ErrorWhenEngaged(m, q) \/ ConnectWhenConnected(m, q)
      \/ DisconnectWhenConnected(m, q) \/ DeferPlayReqWhenConnected(m, q)
      \/ PlayWhenPaused(m, q, deferred) \/ PauseWhenPlaying(m, q)
      \/ StreamChannelWhenStream(m, q) \/ SwitchMode(m, q) \/ Ignore(m, q)
    BY Zenon DEF HandleMessage
<1>4. CASE m.what # "ERROR"
    <2>1. Waiting("ERROR") <=> Has(q, "ERROR")
        BY <1>1, <1>4, HasTail, HadTail DEF Waiting
    <2> QED
        BY Zenon, <1>1, <1>2, <1>3, <2>1, HandlersPromised
<1>5. CASE m.what = "ERROR"
    <2> HIDE DEF m, q
    <2>1. ErrorWhenEngaged(m, q) \/ Ignore(m, q)
        BY <1>3, <1>5
        DEF ConnectWhenDisconnected, DisconnectWhenDisconnected, DeferWhenConnecting,
            SetupWhenConnecting, DisconnectWhenConnecting, RenderReadyWhenConnecting,
            ConnectWhenConnected, DisconnectWhenConnected, DeferPlayReqWhenConnected,
            PlayWhenPaused, PauseWhenPlaying, StreamChannelWhenStream, SwitchMode, Switch
    <2>2. CASE Ignore(m, q)
        <3>1. state = "DISCONNECTED"
            BY <1>1, <1>5, <2>2 DEF Ignore, Handled, TypeOK, SessionStates, ConnectedFamily
        <3>2. UNCHANGED <<state, looper, rtspActive, timers, stopping>>
            BY Zenon, <2>2 DEF Ignore, loopVars, rtspVars, outsideVars
        <3> QED
            BY <1>1, <3>1, <3>2, DisregardPromised
    <2>3. CASE ErrorWhenEngaged(m, q)
        <3>1. /\ state # "DISCONNECTED" /\ state' = "DISCONNECTED" /\ looper' # "exited"
              /\ rtspActive' = FALSE /\ stopping' = stopping /\ timers' = timers
            BY <2>3 DEF ErrorWhenEngaged, TransferAndDrop, ProcessDisconnect, outsideVars
        <3> QED
            BY <1>1, <3>1, EndPromised
    <2> QED
        BY <2>1, <2>2, <2>3
<1> QED
    BY <1>4, <1>5

LEMMA LooperPromised ==
    ASSUME Standing, TypeOK', LooperNext
    PROVE  [Promise!Next]_(Promise!vars)
<1>t. TypeOK
    BY DEF Standing
<1>1. CASE HandleMessage
    BY <1>1, MessagesPromised
<1>2. CASE ProcessDeferredMessage
    <2>1. Head(deferred) \in Message /\ queue \in Seq(Message) /\ looper # "exited"
        BY <1>t, <1>2, QueueEnds DEF ProcessDeferredMessage, TypeOK
    <2> DEFINE m == Head(deferred)
    <2> DEFINE dq == Tail(deferred)
    <2>2. \/ ConnectWhenDisconnected(m, queue, dq) \/ DeferWhenConnecting(m, queue, dq)
          \/ PlayWhenPaused(m, queue, dq) \/ DropReplayed(m, queue, dq)
        BY Zenon, <1>2 DEF ProcessDeferredMessage
    <2> QED
        BY Zenon, <2>1, <2>2, HandlersPromised DEF Waiting
<1>3. CASE HandleConnectTimeout
    <2>1. /\ ProcessDisconnect(queue) /\ UNCHANGED <<state, looper, stopping>>
          /\ looper = "idle" /\ timers > 0
        BY Zenon, <1>3 DEF HandleConnectTimeout, loopVars, outsideVars
    <2>2. state \notin ConnectedFamily /\ rtspActive' = FALSE
        BY <1>t, <2>1 DEF Standing, NoTimeoutWhenConnected, ProcessDisconnect, TypeOK
    <2>3. Waiting("ERROR") \/ rtspActive => Waiting("ERROR")'
        BY Zenon, <1>t, <2>1, TearDownWaits DEF Waiting, TypeOK
    <2> QED
        BY <1>t, <2>1, <2>2, <2>3, TimeOutPromised
<1>4. CASE LooperExits
    <2>1. Leaving /\ looper # "exited" /\ looper' = "exited" /\ ~(timers > 0) /\ ~Waiting("ERROR")
        BY <1>4 DEF LooperExits, Leaving, Waiting, Has
    <2>2. UNCHANGED <<state, rtspActive, queue, timers, stopping>>
        BY Zenon, <1>4 DEF LooperExits, rtspVars, outsideVars
    <2>3. Phase' = Phase /\ ~Waiting("ERROR")'
        BY <2>1, <2>2 DEF Phase, Waiting
    <2>4. Promise!Go
        BY <2>1, <2>2, <2>3 DEF Promise!Go, Leaving, Waiting, Has
    <2> QED
        BY Zenon, <2>4 DEF Promise!Next
<1>5. CASE TransferDone
    <2>1. UNCHANGED <<state, rtspActive, timers, stopping, queue>>
        BY Zenon, <1>5 DEF TransferDone, rtspVars, outsideVars
    <2>2. looper # "exited" /\ looper' # "exited"
        BY <1>5 DEF TransferDone
    <2> QED
        BY <2>1, <2>2, StillPromised DEF Still, Phase, Leaving, Waiting
<1> QED
    BY <1>1, <1>2, <1>3, <1>4, <1>5 DEF LooperNext

LEMMA OthersPost ==
    ASSUME TypeOK, CallerNext \/ LinkNext \/ ClientNext \/ ChannelNext \/ Release \/ StopSafty
    PROVE  queue' = queue \/ \E r \in Seq(Message) : queue' = queue \o r
<1>1. queue \in Seq(Message) /\ \A m \in Message : <<m>> \in Seq(Message) /\ Append(queue, m) = queue \o <<m>>
    BY DEF TypeOK
<1>2. rtspDevice \in DeviceOrNone /\ NoDevice \in DeviceOrNone /\ Devices \subseteq DeviceOrNone
    BY DEF TypeOK, DeviceOrNone
<1>3. PeerMessages \subseteq Message /\ ErrorMsg \in Message
      /\ Msg("SETUP", rtspDevice) \in Message /\ Msg("PEER_RENDER_READY", rtspDevice) \in Message
    BY <1>2, MsgType DEF PeerMessages, ErrorMsg, MessageIds
<1>4. CASE CallerNext \/ LinkNext \/ ClientNext
    <2>1. \/ queue' = queue
          \/ \E what \in MessageIds, d \in DeviceOrNone : Post(Msg(what, d))
        BY <1>4
        DEF CallerNext, AddDeviceLookup, AddDevicePush, LinkNext, ReportConnected, ReportFailed,
            LinkDropped, ClientNext, PlayerCall, ClientCall, DisconnectSession, MessageIds, DeviceOrNone
    <2> QED
        BY Zenon, <1>1, <2>1, MsgType DEF Post
<1>5. CASE ChannelNext /\ ~OnTearDown
    <2>1. queue' = queue \/ \E m \in Message : queue' = Append(queue, m)
        BY Zenon, <1>3, <1>5
        DEF ChannelNext, Receive, OnPeerMessage, OnSetup, ProcessStreamMode, OnChannelRemoved, Post
    <2> QED
        BY Zenon, <1>1, <2>1
<1>6. CASE OnTearDown
    <2>1. PICK reports \in 1 .. 2 : queue' = queue \o Errors(reports)
        BY <1>6 DEF OnTearDown
    <2> QED
        BY <2>1, ErrorsType
<1>7. CASE Release
    BY Zenon, <1>7, ReleaseType DEF Release
<1>8. CASE StopSafty
    BY <1>8 DEF StopSafty
<1> QED
    BY <1>4, <1>5, <1>6, <1>7, <1>8

\* What others do reports an error, or nothing to the promise; or stops the session.
LEMMA OthersPromised ==
    ASSUME Standing, TypeOK', CallerNext \/ LinkNext \/ ClientNext \/ ChannelNext \/ Release \/ StopSafty
    PROVE  [Promise!Next]_(Promise!vars)
<1>1. UNCHANGED <<state, looper, timers, rtspActive>>
    BY Zenon
    DEF CallerNext, AddDeviceLookup, AddDevicePush, LinkNext, ReportConnected, ReportFailed,
        LinkDropped, ClientNext, PlayerCall, ClientCall, DisconnectSession, ChannelNext, Receive,
        OnPeerMessage, OnSetup, ProcessStreamMode, OnTearDown, OnChannelRemoved, Release, StopSafty,
        loopVars, rtspVars, outsideVars
<1>2. Leaving' <=> Leaving
    BY DEF CallerNext, AddDeviceLookup, AddDevicePush, LinkNext, ReportConnected, ReportFailed,
        LinkDropped, ClientNext, PlayerCall, ClientCall, DisconnectSession, ChannelNext, Receive,
        OnPeerMessage, OnSetup, ProcessStreamMode, OnTearDown, OnChannelRemoved, Release, StopSafty,
        outsideVars, Leaving
<1>3. queue' = queue \/ \E r \in Seq(Message) : queue' = queue \o r
    BY OthersPost DEF Standing
<1>4. Waiting("ERROR") => Waiting("ERROR")'
    BY Zenon, <1>3, HasConcat DEF Waiting, Standing, TypeOK
<1> QED
    BY <1>1, <1>2, <1>4, StillPromised DEF Still, Phase

LEMMA StopPromised ==
    ASSUME Standing, TypeOK', StopRemovesTimeout
    PROVE  [Promise!Next]_(Promise!vars)
<1>1. ~Leaving /\ Leaving' /\ ~(timers' > 0) /\ UNCHANGED <<state, looper, rtspActive, queue>>
    BY DEF StopRemovesTimeout, Leaving, loopVars, rtspVars
<1>2. Phase' = Phase /\ (looper' = "exited") = (looper = "exited")
    BY <1>1 DEF Phase
<1>3. Promise!Leave
    BY <1>1, <1>2 DEF Promise!Leave, Leaving, Waiting, Has
<1> QED
    BY Zenon, <1>3 DEF Promise!Next

LEMMA StepPromised == Standing /\ [Next]_vars => [Promise!Next]_(Promise!vars)
<1> SUFFICES ASSUME Standing, [Next]_vars
             PROVE  [Promise!Next]_(Promise!vars)
    OBVIOUS
<1>1. TypeOK'
    BY TypeStep DEF Standing
<1>2. CASE UNCHANGED vars
    <2>1. UNCHANGED <<state, looper, rtspActive, timers, stopping, queue>>
        BY Zenon, <1>2 DEF vars, loopVars, rtspVars, outsideVars
    <2> QED
        BY <2>1, StillPromised DEF Still, Phase, Leaving, Waiting
<1> QED
    BY <1>1, <1>2, LooperPromised, OthersPromised, StopPromised DEF Next, StopNext, Stopped

LEMMA InitPromised == Init => Promise!Init
BY DEF Init, Promise!Init, Phase, Waiting, Has

\* The session implements its promise: its connection is down, tried or up, its
\* engine runs from an attempt to the end of the connection or the error that
\* brings it, no error that waits is lost before that end, no timeout comes once
\* the connection is up, and a session that has stopped changes no more
\* (cast_session_state.cpp, cast_session_impl.cpp).
THEOREM SessionKeepsPromise == Spec => LivesAsPromised
<1>1. Spec => []Standing
    BY TypeCorrect, NoTimeout, EngineAlways, RestAlways, PTL DEF Standing
<1> QED
    BY <1>1, InitPromised, StepPromised, PTL DEF Spec, LivesAsPromised, Promise!Spec

(***************************************************************************)
(* StreamPlayer.                                                           *)
(***************************************************************************)
-----------------------------------------------------------------------------
(* The inductive invariant                                                   *)

\* Queues: no element is in S; the last one that is in S is in T.
Lacks(q, S) == \A i \in 1..Len(q) : q[i] \notin S
LastIn(q, S, T) ==
  \A i \in 1..Len(q) : q[i] \in S /\ (\A j \in (i + 1)..Len(q) : q[j] \notin S) => q[i] \in T

AppCalled == {NoCommand, Surface, [do |-> "stop"]} \cup [do : {"loop"}, mode : BOOLEAN]

TypeInv ==
  /\ StreamTypeOK
  /\ run["app"].call \in AppCalled
  /\ run["worker"].call # Surface
  /\ telling # None => telling = sink.state
  /\ \A t \in Threads : run[t].pc = "placeholder" => sink.mediaInfo = Placeholder
  /\ \A t \in Threads : run[t].pc \in {"announce", "source", "fail"} =>
       sink.surface /\ sink.mediaInfo # None /\ run[t].call.do # "stop"
  /\ sink.play \/ sink.load => sink.mediaInfo # None
  /\ sink.syncTimer => sink.curPosition # None
  /\ player.state \notin {"IDLE", "INITIALIZED"} => player.item \in Items

\* What the player's state is told by.
StateEvents == {e \in Event : e.tells = "state"}
ThatState == {e \in StateEvents : e.state = player.state}
EventInv ==
  /\ LastIn(events, StateEvents, ThatState)
  /\ Lacks(events, StateEvents) => sink.state = player.state

\* Of the calls that tell the source's state, the last tells that of the sink's
\* player, or that there is none; an item is not told last, unless the thread
\* that told it is at the player with it.
Trying == \E t \in Threads : run[t].pc \in {"source", "fail"}
Showing == {c \in Callback : c.tells \in {"state", "item", "error"}}
Shows == {c \in Showing : \/ c.tells = "state" /\ c.state = sink.state
                          \/ c.tells = "error"
                          \/ c.tells = "item" /\ c.item = Placeholder}
ShownInv ==
  telling = None /\ Lacks(events, StateEvents) /\ ~Trying =>
    /\ LastIn(toSource, Showing, Shows)
    /\ Lacks(toSource, Showing) =>
         \/ source.error \/ source.item = Placeholder
         \/ source.state = sink.state /\ (source.timer <=> source.state = "STARTED")

\* The loop mode.
LoopCalls == {c \in Callback : c.tells = "loop"}
ThatMode == {c \in LoopCalls : c.mode = player.looping}
LoopInv ==
  /\ LastIn(toSource, LoopCalls, ThatMode)
  /\ Lacks(toSource, LoopCalls) => source.loop = player.looping

LockInv ==
  /\ \A t \in Threads : loopMutex = t <=> run[t].pc = "loop"
  /\ \A t \in Threads : run[t].pc = "loop" => run[t].call.mode = player.looping
  /\ loopMutex = None => sink.loopMode = player.looping

\* With a surface and something that was played there is something in the
\* player, but where the surface has just come.
FlagInv ==
  sink.surface /\ (sink.load \/ sink.play) =>
    \/ player.state # "IDLE"
    \/ \E t \in Threads : run[t].pc \in {"announce", "source"} /\ run[t].call.do = "surface"

\* What was asked for last: on its way, with the worker, or with the player.
Deciding == {c \in Command : c.do \in {"load", "play", "stop"}
                             \/ (asked.play /\ c.do = "pause")}
Asking == {c \in Command : /\ c.do = "play" \/ (c.do = "load" /\ ~asked.play)
                           /\ c.item = asked.item}

ItemOrError == {c \in Callback : c.tells \in {"item", "error"}}
AnError == {c \in Callback : c.tells = "error"}
ErrorEvents == {e \in Event : e.tells = "error"}

ErrorShown ==
  LastIn(toSource, ItemOrError, AnError) /\ (Lacks(toSource, ItemOrError) => source.error)

AtPlayer ==
  /\ \A t \in Threads : run[t].pc \in {"announce", "source"} =>
       (asked.play => ~IsLoading(t) \/ player.state # "IDLE")
  /\ (\A t \in Threads : run[t].pc \notin {"announce", "source", "fail"}) =>
       \/ ErrorShown
       \/ ~Lacks(events, ErrorEvents)
       \/ /\ player.item = asked.item
          /\ asked.play => player.state \in {"STARTED", "PLAYBACK_COMPLETE"}

Reached ==
  /\ sink.mediaInfo = asked.item
  /\ IF sink.surface THEN AtPlayer ELSE sink.play \/ (sink.load /\ ~asked.play)

AskedInv ==
  asked.item \in Items =>
    /\ LastIn(toSink, Deciding, Asking)
    /\ Lacks(toSink, Deciding) =>
         IF run["worker"].pc = "lock" THEN run["worker"].call \in Asking ELSE Reached

StreamIInv == TypeInv /\ LockInv /\ EventInv /\ FlagInv /\ (~missed => ShownInv /\ LoopInv /\ AskedInv)

-----------------------------------------------------------------------------
(* Queues                                                                    *)

\* What a queue lacks, it lacks with an element that is not of it.
LEMMA LacksAppend ==
  ASSUME NEW A, NEW q \in Seq(A), NEW e \in A, NEW S
  PROVE  /\ Lacks(Append(q, e), S) <=> Lacks(q, S) /\ e \notin S
         /\ Append(q, e) \in Seq(A)
<1>1. /\ Len(Append(q, e)) = Len(q) + 1 /\ Len(q) \in Nat /\ Append(q, e)[Len(q) + 1] = e
      /\ \A i \in 1..Len(q) : Append(q, e)[i] = q[i]
  OBVIOUS
<1> QED
  BY <1>1 DEF Lacks

\* The last of a kind is the new one, or the one it was.
LEMMA LastAppend ==
  ASSUME NEW A, NEW q \in Seq(A), NEW e \in A, NEW S, NEW T,
         e \in S => e \in T, e \notin S => LastIn(q, S, T)
  PROVE  LastIn(Append(q, e), S, T)
<1>1. /\ Len(Append(q, e)) = Len(q) + 1 /\ Len(q) \in Nat /\ Append(q, e)[Len(q) + 1] = e
      /\ \A i \in 1..Len(q) : Append(q, e)[i] = q[i]
  OBVIOUS
<1>2. ASSUME NEW i \in 1..Len(Append(q, e)), Append(q, e)[i] \in S,
             \A j \in (i + 1)..Len(Append(q, e)) : Append(q, e)[j] \notin S
      PROVE  Append(q, e)[i] \in T
  <2>1. CASE i = Len(q) + 1
    BY <1>1, <1>2, <2>1
  <2>2. CASE i \in 1..Len(q)
    <3>1. e \notin S
      BY <1>1, <1>2, <2>2
    <3>2. \A j \in (i + 1)..Len(q) : q[j] \notin S
      BY <1>1, <1>2, <2>2
    <3> QED
      BY <1>1, <1>2, <2>2, <3>1, <3>2 DEF LastIn
  <2> QED
    BY <1>1, <1>2, <2>1, <2>2
<1> QED
  BY <1>2 DEF LastIn

\* Taking the head of a queue leaves the last of each kind alone, or there was
\* no other.
LEMMA QueueTail ==
  ASSUME NEW A, NEW q \in Seq(A), q # <<>>, NEW S, NEW T
  PROVE  /\ Head(q) \in A /\ Tail(q) \in Seq(A)
         /\ Lacks(q, S) <=> Head(q) \notin S /\ Lacks(Tail(q), S)
         /\ LastIn(q, S, T) => /\ LastIn(Tail(q), S, T)
                               /\ Lacks(Tail(q), S) /\ Head(q) \in S => Head(q) \in T
<1>1. /\ Len(q) \in Nat /\ Len(q) >= 1 /\ Head(q) = q[1] /\ Tail(q) \in Seq(A)
      /\ Len(Tail(q)) = Len(q) - 1 /\ \A i \in 1..(Len(q) - 1) : Tail(q)[i] = q[i + 1]
      /\ Head(q) \in A
  OBVIOUS
<1>2. \A j \in 2..Len(q) : j - 1 \in 1..(Len(q) - 1) /\ Tail(q)[j - 1] = q[j]
  BY <1>1
<1>3. Lacks(q, S) <=> Head(q) \notin S /\ Lacks(Tail(q), S)
  BY <1>1, <1>2 DEF Lacks
<1>4. ASSUME LastIn(q, S, T)
      PROVE  LastIn(Tail(q), S, T)
  <2>1. ASSUME NEW i \in 1..Len(Tail(q)), Tail(q)[i] \in S,
               \A j \in (i + 1)..Len(Tail(q)) : Tail(q)[j] \notin S
        PROVE  Tail(q)[i] \in T
    <3>1. i + 1 \in 1..Len(q) /\ q[i + 1] \in S
      BY <1>1, <2>1
    <3>2. ASSUME NEW j \in (i + 2)..Len(q)
          PROVE  q[j] \notin S
      <4>1. j \in 2..Len(q) /\ j - 1 \in (i + 1)..Len(Tail(q))
        BY <1>1, <2>1
      <4>2. Tail(q)[j - 1] = q[j]
        BY <1>2, <4>1
      <4> QED
        BY <2>1, <4>1, <4>2
    <3>3. i + 1 + 1 = i + 2
      BY <1>1
    <3> QED
      BY <1>1, <1>4, <3>1, <3>2, <3>3 DEF LastIn
  <2> QED
    BY <2>1 DEF LastIn
<1>5. ASSUME LastIn(q, S, T), Lacks(Tail(q), S), Head(q) \in S
      PROVE  Head(q) \in T
  <2>1. \A j \in 2..Len(q) : q[j] \notin S
    BY <1>1, <1>2, <1>5 DEF Lacks
  <2> QED
    BY <1>1, <1>5, <2>1 DEF LastIn
<1> QED
  BY <1>1, <1>3, <1>4, <1>5

\* The last of a kind in two queues is the last in the second that has one.
LEMMA QueueConcat ==
  ASSUME NEW A, NEW q \in Seq(A), NEW r \in Seq(A), NEW S, NEW T
  PROVE  /\ q \o r \in Seq(A)
         /\ Lacks(q \o r, S) <=> Lacks(q, S) /\ Lacks(r, S)
         /\ LastIn(r, S, T) /\ (Lacks(r, S) => LastIn(q, S, T)) => LastIn(q \o r, S, T)
<1>1. /\ Len(q) \in Nat /\ Len(r) \in Nat /\ Len(q \o r) = Len(q) + Len(r) /\ q \o r \in Seq(A)
      /\ \A i \in 1..Len(q) : (q \o r)[i] = q[i]
      /\ \A i \in 1..Len(r) : (q \o r)[Len(q) + i] = r[i]
  OBVIOUS
<1>2. \A i \in 1..Len(q \o r) : i \in 1..Len(q) \/ (i - Len(q) \in 1..Len(r)
                                                  /\ (q \o r)[i] = r[i - Len(q)])
  BY <1>1
<1>3. Lacks(q \o r, S) <=> Lacks(q, S) /\ Lacks(r, S)
  <2>1. Lacks(q \o r, S) => Lacks(q, S) /\ Lacks(r, S)
    <3>1. \A i \in 1..Len(r) : Len(q) + i \in 1..Len(q \o r)
      BY <1>1
    <3>2. \A i \in 1..Len(q) : i \in 1..Len(q \o r)
      BY <1>1
    <3> QED
      BY <1>1, <3>1, <3>2 DEF Lacks
  <2> QED
    BY <1>1, <1>2, <2>1 DEF Lacks
<1>4. ASSUME LastIn(r, S, T), Lacks(r, S) => LastIn(q, S, T),
             NEW i \in 1..Len(q \o r), (q \o r)[i] \in S,
             \A j \in (i + 1)..Len(q \o r) : (q \o r)[j] \notin S
      PROVE  (q \o r)[i] \in T
  <2>1. CASE i \in 1..Len(q)
    <3>1. Lacks(r, S)
      <4>1. \A k \in 1..Len(r) : Len(q) + k \in (i + 1)..Len(q \o r)
        BY <1>1, <2>1
      <4> QED
        BY <1>1, <1>4, <4>1 DEF Lacks
    <3>2. \A j \in (i + 1)..Len(q) : q[j] \notin S
      BY <1>1, <1>4, <2>1
    <3> QED
      BY <1>1, <1>4, <2>1, <3>1, <3>2 DEF LastIn
  <2>2. CASE i \notin 1..Len(q)
    <3>1. i - Len(q) \in 1..Len(r) /\ (q \o r)[i] = r[i - Len(q)]
      BY <1>2, <2>2
    <3>2. ASSUME NEW j \in (i - Len(q) + 1)..Len(r)
          PROVE  r[j] \notin S
      <4>1. Len(q) + j \in (i + 1)..Len(q \o r) /\ j \in 1..Len(r)
        BY <1>1, <3>1
      <4> QED
        BY <1>1, <1>4, <4>1
    <3> QED
      BY <1>4, <3>1, <3>2 DEF LastIn
  <2> QED
    BY <2>1, <2>2
<1> QED
  BY <1>1, <1>3, <1>4 DEF LastIn

\* There is a last one if there is one.
LEMMA LastExists ==
  ASSUME NEW A, NEW q \in Seq(A), NEW S, ~Lacks(q, S)
  PROVE  \E i \in 1..Len(q) : q[i] \in S /\ \A j \in (i + 1)..Len(q) : q[j] \notin S
<1> DEFINE D == {n \in Nat : n < Len(q) /\ q[Len(q) - n] \in S}
<1>1. Len(q) \in Nat
  OBVIOUS
<1>2. D # {}
  <2>1. PICK i \in 1..Len(q) : q[i] \in S
    BY DEF Lacks
  <2>2. Len(q) - i \in Nat /\ Len(q) - i < Len(q) /\ Len(q) - (Len(q) - i) = i
    BY <1>1
  <2>3. Len(q) - i \in D
    BY <2>1, <2>2
  <2> QED
    BY <2>3
<1>3. \E n \in D : \A k \in D : <<k, n>> \notin OpToRel(<, Nat)
  BY <1>2, NatLessThanWellFounded, WFMin
<1>4. \A k, n \in Nat : k < n => <<k, n>> \in OpToRel(<, Nat)
  BY DEF OpToRel
<1>5. PICK n \in D : \A k \in D : ~(k < n)
  BY <1>3, <1>4
<1>6. Len(q) - n \in 1..Len(q)
  BY <1>1
<1>7. ASSUME NEW j \in (Len(q) - n + 1)..Len(q)
      PROVE  q[j] \notin S
  <2>1. Len(q) - j \in Nat /\ Len(q) - j < n /\ Len(q) - j < Len(q) /\ Len(q) - (Len(q) - j) = j
    BY <1>1
  <2> QED
    BY <1>5, <2>1
<1> QED
  BY <1>6, <1>7

\* Fewer that are looked for, if the last of them is still among them.
LEMMA LastNarrowed ==
  ASSUME NEW A, NEW q \in Seq(A), NEW S, NEW T, NEW V, NEW W, LastIn(q, S, T),
         V \subseteq S, T \subseteq V, T \subseteq W
  PROVE  LastIn(q, V, W) /\ (Lacks(q, V) => Lacks(q, S))
<1>1. ASSUME NEW k \in 1..Len(q), q[k] \in S
      PROVE  \E i \in k..Len(q) : q[i] \in T
  <2>1. PICK i \in 1..Len(q) : q[i] \in S /\ \A j \in (i + 1)..Len(q) : q[j] \notin S
    BY <1>1, LastExists DEF Lacks
  <2>2. q[i] \in T /\ i >= k
    BY <1>1, <2>1 DEF LastIn
  <2> QED
    BY <2>1, <2>2
<1>2. Lacks(q, V) => Lacks(q, S)
  BY <1>1 DEF Lacks
<1>3. ASSUME NEW i \in 1..Len(q), q[i] \in V, \A j \in (i + 1)..Len(q) : q[j] \notin V
      PROVE  q[i] \in W
  <2>1. PICK k \in i..Len(q) : q[k] \in T
    BY <1>1, <1>3
  <2>2. k = i
    BY <1>3, <2>1
  <2> QED
    BY <2>1, <2>2
<1> QED
  BY <1>2, <1>3 DEF LastIn

-----------------------------------------------------------------------------
(* What the media player tells                                               *)

StateIs(s) == {e \in StateEvents : e.state = s}

\* Events of a state, of an error and of a position are told apart.
LEMMA EventKinds ==
  /\ \A s \in PlayerStates : [tells |-> "state", state |-> s] \in StateIs(s)
  /\ \A s \in PlayerStates : [tells |-> "state", state |-> s] \notin ErrorEvents
  /\ [tells |-> "error"] \in ErrorEvents /\ [tells |-> "error"] \notin StateEvents
  /\ \A item \in Items : [tells |-> "position", item |-> item] \in Event \ (StateEvents \cup ErrorEvents)
  /\ StateEvents \subseteq Event /\ ErrorEvents \subseteq Event
<1>1. \A s \in PlayerStates : [tells |-> "state", state |-> s] \in Event
  BY DEF Event
<1>2. [tells |-> "error"] \in Event
  BY DEF Event
<1>3. \A item \in Items : [tells |-> "position", item |-> item] \in Event
  BY DEF Event
<1> QED
  BY <1>1, <1>2, <1>3 DEF StateIs, StateEvents, ErrorEvents

\* The events of some states are told in their order.
LEMMA StatesTold ==
  ASSUME NEW s \in Seq(PlayerStates)
  PROVE  /\ States(s) \in Seq(Event) /\ Lacks(States(s), ErrorEvents)
         /\ Len(s) = 0 => Lacks(States(s), StateEvents)
         /\ Len(s) # 0 => ~Lacks(States(s), StateEvents)
                          /\ LastIn(States(s), StateEvents, StateIs(s[Len(s)]))
<1>1. Len(s) \in Nat /\ \A i \in 1..Len(s) : s[i] \in PlayerStates
  OBVIOUS
<1>2. \A i \in 1..Len(s) : States(s)[i] \in StateIs(s[i]) /\ States(s)[i] \notin ErrorEvents
  BY <1>1, EventKinds DEF States
<1>3. States(s) = [i \in 1..Len(s) |-> [tells |-> "state", state |-> s[i]]]
      /\ \A i \in 1..Len(s) : States(s)[i] \in Event
  BY <1>2 DEF States, StateIs, StateEvents
<1>4. States(s) \in Seq(Event) /\ Len(States(s)) = Len(s)
  BY <1>1, <1>3
<1>5. Len(s) # 0 => ~Lacks(States(s), StateEvents)
                    /\ LastIn(States(s), StateEvents, StateIs(s[Len(s)]))
  <2>1. ASSUME Len(s) # 0
        PROVE  Len(s) \in 1..Len(s) /\ States(s)[Len(s)] \in StateEvents
    BY <1>1, <1>2, <2>1 DEF StateIs
  <2>2. ASSUME NEW i \in 1..Len(s), \A j \in (i + 1)..Len(s) : States(s)[j] \notin StateEvents
        PROVE  i = Len(s)
    BY <1>1, <1>2, <2>2 DEF StateIs
  <2> QED
    BY <1>2, <1>4, <2>1, <2>2 DEF Lacks, LastIn
<1> QED
  BY <1>2, <1>4, <1>5 DEF Lacks, StateIs

\* The events a step adds end with the state the player is in then.
Tells(r, s) ==
  /\ r \in Seq(Event)
  /\ IF Lacks(r, StateEvents) THEN s = player.state ELSE LastIn(r, StateEvents, StateIs(s))

\* EventInv is kept by what tells its last state.
LEMMA EventsAdded ==
  ASSUME TypeInv, EventInv, NEW r, events' = events \o r, Tells(r, player'.state),
         sink'.state = sink.state
  PROVE  EventInv'
<1>1. ThatState = StateIs(player.state) /\ ThatState' = StateIs(player'.state)
      /\ events \in Seq(Event) /\ StateEvents' = StateEvents
  BY DEF ThatState, StateIs, StateEvents, TypeInv, StreamTypeOK
<1>2. CASE Lacks(r, StateEvents)
  <2>1. LastIn(r, StateEvents, ThatState') /\ player'.state = player.state
    BY <1>2 DEF Lacks, LastIn, Tells
  <2> QED
    BY <1>1, <1>2, <2>1, QueueConcat DEF EventInv, Tells
<1>3. CASE ~Lacks(r, StateEvents)
  BY <1>1, <1>3, QueueConcat DEF EventInv, Tells
<1> QED
  BY <1>2, <1>3

\* The events of a stop.
LEMMA StopTells ==
  ASSUME TypeInv
  PROVE  /\ Tells(StopEvents, "IDLE") /\ StoppedPlayer.state = "IDLE"
         /\ Lacks(StopEvents, ErrorEvents)
         /\ StoppedPlayer \in [state : PlayerStates, item : Media \cup {None}, looping : BOOLEAN]
         /\ StoppedPlayer.looping = player.looping
<1>0. player \in [state : PlayerStates, item : Media \cup {None}, looping : BOOLEAN]
  BY DEF TypeInv, StreamTypeOK
<1>1. StoppedPlayer.state = "IDLE" /\ StoppedPlayer.looping = player.looping
      /\ StoppedPlayer \in [state : PlayerStates, item : Media \cup {None}, looping : BOOLEAN]
  BY <1>0 DEF StoppedPlayer, PlayerStates
<1> DEFINE s == (IF CanStop THEN <<"STOPPED">> ELSE <<>>) \o (IF CanReset THEN <<"IDLE">> ELSE <<>>)
<1>2. s \in Seq(PlayerStates) /\ (Len(s) = 0 => player.state = "IDLE")
      /\ (Len(s) # 0 => s[Len(s)] = "IDLE")
  <2>0. \A x, y \in Seq(PlayerStates) : x \o y \in Seq(PlayerStates)
    OBVIOUS
  <2>1. CASE player.state = "IDLE"
    <3>1. s = <<>> \o <<>>
      BY <2>1 DEF CanStop, CanReset
    <3>2. s = <<>>
      BY <3>1
    <3> QED
      BY <2>1, <3>2
  <2>2. CASE player.state # "IDLE"
    <3>1. PICK x \in Seq(PlayerStates) : s = x \o <<"IDLE">>
      <4>1. <<"STOPPED">> \in Seq(PlayerStates) /\ <<>> \in Seq(PlayerStates)
        BY DEF PlayerStates
      <4>2. s = (IF CanStop THEN <<"STOPPED">> ELSE <<>>) \o <<"IDLE">>
        BY <2>2 DEF CanReset
      <4> QED
        BY <4>1, <4>2
    <3>2. <<"IDLE">> \in Seq(PlayerStates)
      BY DEF PlayerStates
    <3>3. s \in Seq(PlayerStates) /\ Len(s) = Len(x) + 1 /\ s[Len(x) + 1] = "IDLE"
      BY <3>1, <3>2
    <3> QED
      BY <3>3
  <2> QED
    BY <2>1, <2>2
<1>3. StopEvents = States(s)
  BY DEF StopEvents
<1> HIDE DEF s
<1> QED
  BY <1>1, <1>2, <1>3, StatesTold DEF Tells

-----------------------------------------------------------------------------
(* Types                                                                     *)

Locking == {"lock", "announce", "source", "fail", "placeholder"}
LockingCalls == [do : {"load", "play"}, item : Media] \cup {Surface, [do |-> "stop"]}
AtWork == {"announce", "source", "fail", "placeholder"}

RunTypes ==
  /\ run \in [Threads -> Called]
  /\ mutex \in Threads \cup {None} /\ loopMutex \in Threads \cup {None}
  /\ \A t \in Threads : mutex = t <=> run[t].pc \in AtWork
  /\ run["app"].call \in AppCalled /\ run["worker"].call # Surface

\* No names are taken for two things.
LEMMA Apart ==
  /\ None \notin Threads /\ None \notin PlayerStates /\ None \notin Media
  /\ NoCommand \in AppCalled /\ NoCommand # Surface
  BY StreamAssumption DEF AppCalled, NoCommand, Surface

\* What a thread is called with depends on where it is.
LEMMA CallIs ==
  ASSUME TypeInv, NEW t \in Threads
  PROVE  /\ run[t].pc \in Locking \cup {"idle", "loop"}
         /\ run[t].pc \in Locking => run[t].call \in LockingCalls
         /\ run[t].pc = "loop" => run[t].call \in [do : {"loop"}, mode : BOOLEAN]
         /\ run[t] = [pc |-> run[t].pc, call |-> run[t].call]
<1>1. run[t] \in Called
  BY DEF TypeInv, StreamTypeOK
<1> QED
  BY <1>1 DEF Called, Locking, LockingCalls

\* A thread that goes on keeps its call; the other stays.
LEMMA GoesTo ==
  ASSUME TypeInv, NEW t \in Threads, run[t].pc \in Locking, NEW pc \in Locking, Goes(t, pc)
  PROVE  /\ run' \in [Threads -> Called] /\ run'[t] = [pc |-> pc, call |-> run[t].call]
         /\ run'[t].pc = pc /\ run'[t].call = run[t].call
         /\ \A u \in Threads : u # t => run'[u] = run[u]
<1>1. run \in [Threads -> Called] /\ run[t].call \in LockingCalls
      /\ run[t] = [pc |-> run[t].pc, call |-> run[t].call]
  BY CallIs DEF TypeInv, StreamTypeOK
<1>2. run' = [run EXCEPT ![t] = [pc |-> pc, call |-> run[t].call]]
  <2>1. run' = [run EXCEPT ![t] = [run[t] EXCEPT !.pc = pc]]
    BY <1>1 DEF Goes
  <2>2. PICK p, call : run[t] = [pc |-> p, call |-> call]
    BY <1>1
  <2>3. [[pc |-> p, call |-> call] EXCEPT !.pc = pc] = [pc |-> pc, call |-> call]
    OBVIOUS
  <2> QED
    BY <2>1, <2>2, <2>3
<1>3. [pc |-> pc, call |-> run[t].call] \in Called
  BY <1>1 DEF Called, Locking, LockingCalls
<1>4. run'[t] = [pc |-> pc, call |-> run[t].call]
  BY <1>1, <1>2
<1>5. run'[t].pc = pc /\ run'[t].call = run[t].call
  BY <1>4
<1> QED
  BY <1>1, <1>2, <1>3, <1>4, <1>5

\* A call of a thread is its own.
LEMMA CalledWith ==
  ASSUME TypeInv, NEW t \in Threads, NEW r \in Called, run' = [run EXCEPT ![t] = r]
  PROVE  /\ run' \in [Threads -> Called] /\ run'[t] = r
         /\ \A u \in Threads : u # t => run'[u] = run[u]
<1>1. run \in [Threads -> Called]
  BY DEF TypeInv, StreamTypeOK
<1> QED
  BY <1>1

\* A thread that returns is idle; the other stays.
LEMMA ReturnsFrom ==
  ASSUME TypeInv, NEW t \in Threads, Returns(t)
  PROVE  /\ run' \in [Threads -> Called] /\ run'[t] = [pc |-> "idle", call |-> NoCommand]
         /\ \A u \in Threads : u # t => run'[u] = run[u]
<1>1. [pc |-> "idle", call |-> NoCommand] \in Called
  BY DEF Called
<1> QED
  BY <1>1, CalledWith DEF Returns

\* The mutexes are taken and left by who moves.
LEMMA RunKeeps ==
  ASSUME TypeInv, StreamNext, run' = run
  PROVE  UNCHANGED <<mutex, loopMutex>>
<1>0. ASSUME NEW t \in Threads, NEW pc, Goes(t, pc)
      PROVE  run[t].pc = pc
  <2>1. run[t] = [run[t] EXCEPT !.pc = pc]
    BY <1>0 DEF Goes, TypeInv, StreamTypeOK
  <2>2. run[t] = [pc |-> run[t].pc, call |-> run[t].call]
    BY CallIs
  <2>3. [run[t] EXCEPT !.pc = pc].pc = pc
    BY <2>2
  <2> QED
    BY <2>1, <2>3
<1>1. \A t \in Threads : run[t].pc # "idle" => ~Returns(t)
  BY DEF Returns, TypeInv, StreamTypeOK
<1>2. \A t \in Threads : ~Playing(t)
  BY <1>0, <1>1 DEF Playing, Lock, LoadLocked, SurfaceLocked, StopLocked, LoadPlaceholder, Announce,
     InnerPlayFails, InnerPlayLocked, Fail, StoreLoopMode
<1>3. \A t \in Threads : \A mode : run[t].pc = "idle" => ~SetLoopMode(t, mode)
  BY DEF SetLoopMode, TypeInv, StreamTypeOK
<1> QED
  BY <1>2, <1>3 DEF StreamNext, SourceApp, ControllerLoad, ControllerPlay, ControllerSend,
     ControllerSetLoopMode, SetListener, SwitchToStream, PlayerListenerGetter, Worker,
     ProcessLocking, ProcessActionPause, ProcessActionResume, ProcessActionSetRepeatMode,
     PlayerGetter, Takes, SinkApp, CreateStreamPlayer, RegisterListener, AppPauses, AppLocks,
     AppSetsLoopMode, AppCalls, Threads, Telling, SetState, TellState, OnPositionChanged, OnError,
     AutoSyncPosition, PlaybackCompletes, PlaybackBreaks, PositionUpdate, sinkVars

\* Who moves a thread.
LEMMA RunMoves ==
  ASSUME TypeInv, StreamNext, run' # run
  PROVE  \/ \E t \in Threads : Playing(t)
         \/ ProcessLocking \/ ProcessActionSetRepeatMode
         \/ \E call \in {Surface, [do |-> "stop"]} : AppLocks(call)
         \/ \E mode \in BOOLEAN : AppSetsLoopMode(mode)
  BY DEF StreamNext, SourceApp, ControllerLoad, ControllerPlay, ControllerSend, ControllerSetLoopMode,
     SetListener, SwitchToStream, PlayerListenerGetter, Worker, ProcessActionPause,
     ProcessActionResume, PlayerGetter, SinkApp, CreateStreamPlayer, RegisterListener, AppPauses,
     Telling, SetState, TellState, OnPositionChanged, OnError, AutoSyncPosition, PlaybackCompletes,
     PlaybackBreaks, PositionUpdate, sinkVars

\* Who changes the sink's player.
LEMMA SinkMoves ==
  ASSUME StreamNext, sink' # sink
  PROVE  \/ \E t \in Threads : Lock(t) \/ InnerPlayLocked(t) \/ StoreLoopMode(t)
         \/ CreateStreamPlayer \/ \E there \in BOOLEAN : RegisterListener(there)
         \/ SetState \/ TellState \/ OnPositionChanged
  BY DEF StreamNext, SourceApp, ControllerLoad, ControllerPlay, ControllerSend, ControllerSetLoopMode,
     SetListener, SwitchToStream, PlayerListenerGetter, Worker, ProcessActionPause, ProcessLocking,
     ProcessActionResume, ProcessActionSetRepeatMode, PlayerGetter, SinkApp, AppPauses, AppLocks,
     AppSetsLoopMode, Playing, LoadPlaceholder, Announce, InnerPlayFails, Fail,
     Telling, OnError, AutoSyncPosition, PlaybackCompletes, PlaybackBreaks, PositionUpdate, sinkVars

\* Who calls the source, or takes a call.
LEMMA ToSourceMoves ==
  ASSUME StreamNext, toSource' # toSource
  PROVE  \/ PlayerListenerGetter
         \/ \E t \in Threads : LoadPlaceholder(t) \/ Announce(t) \/ Fail(t)
         \/ ProcessActionSetRepeatMode \/ \E mode \in BOOLEAN : AppSetsLoopMode(mode)
         \/ TellState \/ OnPositionChanged \/ OnError \/ AutoSyncPosition
  BY DEF StreamNext, SourceApp, ControllerLoad, ControllerPlay, ControllerSend, ControllerSetLoopMode,
     SetListener, SwitchToStream, Worker, ProcessActionPause, ProcessLocking,
     ProcessActionResume, PlayerGetter, SinkApp, AppPauses, AppLocks, CreateStreamPlayer,
     RegisterListener, Playing, Lock, InnerPlayFails, InnerPlayLocked, StoreLoopMode,
     Telling, SetState, PlaybackCompletes, PlaybackBreaks, PositionUpdate

\* Who changes the media player or its events.
LEMMA PlayerMoves ==
  ASSUME StreamNext, ~UNCHANGED playerVars
  PROVE  \/ \E t \in Threads : Lock(t) \/ InnerPlayFails(t) \/ InnerPlayLocked(t)
         \/ ProcessActionPause \/ ProcessActionResume \/ ProcessActionSetRepeatMode
         \/ AppPauses \/ \E mode \in BOOLEAN : AppSetsLoopMode(mode)
         \/ SetState \/ OnPositionChanged \/ OnError
         \/ PlaybackCompletes \/ PlaybackBreaks \/ PositionUpdate
  BY DEF StreamNext, SourceApp, ControllerLoad, ControllerPlay, ControllerSend, ControllerSetLoopMode,
     SetListener, SwitchToStream, PlayerListenerGetter, Worker, ProcessLocking, PlayerGetter,
     SinkApp, AppLocks, CreateStreamPlayer, RegisterListener, Playing, LoadPlaceholder, Announce,
     Fail, StoreLoopMode, Telling, TellState, AutoSyncPosition

\* Who asks, and who takes what was asked for.
LEMMA AskedMoves ==
  ASSUME StreamNext, asked' # asked \/ toSink' # toSink
  PROVE  SourceApp \/ Worker \/ AppPauses \/ \E t \in Threads : Lock(t)
  BY DEF StreamNext, SwitchToStream, PlayerListenerGetter, SinkApp, AppLocks, AppSetsLoopMode,
     CreateStreamPlayer, RegisterListener, Playing, LoadPlaceholder, Announce, InnerPlayFails,
     InnerPlayLocked, Fail, StoreLoopMode, Telling, SetState, TellState, OnPositionChanged, OnError,
     AutoSyncPosition, PlaybackCompletes, PlaybackBreaks, PositionUpdate

\* Places, calls and mutexes of the threads stay of their types.
LEMMA RunTyped ==
  ASSUME TypeInv, LockInv, StreamNext
  PROVE  RunTypes'
<1>0. RunTypes
  BY DEF TypeInv, StreamTypeOK, RunTypes, AtWork
<1>1. CASE run' = run
  <2>1. mutex' = mutex /\ loopMutex' = loopMutex
    BY <1>1, RunKeeps DEF RunTypes
  <2> QED
    BY <1>0, <1>1, <2>1 DEF RunTypes
<1>2. ASSUME NEW t \in Threads, Playing(t)
      PROVE  RunTypes'
  <2>0. run[t].pc = "lock" => mutex # t
    BY <1>0 DEF RunTypes, AtWork
  <2>1. CASE Lock(t)
    <3>1. mutex = None /\ run[t].pc = "lock" /\ loopMutex' = loopMutex
      BY <2>1 DEF Lock
    <3>2. \/ mutex' = None /\ Returns(t)
          \/ mutex' = t /\ \E pc \in {"announce", "placeholder"} : Goes(t, pc)
      BY <2>1 DEF Lock, LoadLocked, SurfaceLocked, StopLocked
    <3>3. CASE mutex' = None /\ Returns(t)
      BY <1>0, <3>1, <3>3, ReturnsFrom, Apart DEF RunTypes, AtWork, Threads
    <3>4. ASSUME NEW pc \in {"announce", "placeholder"}, Goes(t, pc), mutex' = t
          PROVE  RunTypes'
      <4>1. /\ run' \in [Threads -> Called] /\ run'[t] = [pc |-> pc, call |-> run[t].call]
            /\ \A u \in Threads : u # t => run'[u] = run[u]
        BY <3>1, <3>4, GoesTo DEF Locking
      <4> QED
        BY <1>0, <3>1, <3>4, <4>1, Apart DEF RunTypes, AtWork, Threads
    <3> QED
      BY <3>2, <3>3, <3>4
  <2>2. CASE LoadPlaceholder(t) \/ InnerPlayLocked(t) \/ Fail(t)
    <3>1. mutex = t /\ mutex' = None /\ Returns(t) /\ loopMutex' = loopMutex
      BY <1>0, <2>2 DEF LoadPlaceholder, InnerPlayLocked, Fail, RunTypes, AtWork
    <3> QED
      BY <1>0, <3>1, ReturnsFrom, Apart DEF RunTypes, AtWork, Threads
  <2>3. CASE Announce(t) \/ InnerPlayFails(t)
    <3>1. PICK pc \in {"source", "fail"} : Goes(t, pc)
      BY <2>3 DEF Announce, InnerPlayFails
    <3>2. run[t].pc \in Locking /\ run[t].pc \in AtWork /\ UNCHANGED <<mutex, loopMutex>>
      BY <2>3 DEF Announce, InnerPlayFails, Locking, AtWork
    <3>3. /\ run' \in [Threads -> Called] /\ run'[t] = [pc |-> pc, call |-> run[t].call]
          /\ \A u \in Threads : u # t => run'[u] = run[u]
      BY <3>1, <3>2, GoesTo DEF Locking
    <3> QED
      BY <1>0, <3>2, <3>3 DEF RunTypes, AtWork, Threads
  <2>4. CASE StoreLoopMode(t)
    <3>1. run[t].pc = "loop" /\ mutex' = mutex /\ loopMutex' = None /\ Returns(t)
      BY <2>4 DEF StoreLoopMode
    <3> QED
      BY <1>0, <3>1, ReturnsFrom, Apart DEF RunTypes, AtWork, Threads
  <2> QED
    BY <1>2, <2>1, <2>2, <2>3, <2>4 DEF Playing
<1>3. ASSUME NEW t \in Threads, NEW mode \in BOOLEAN, SetLoopMode(t, mode), run[t].pc = "idle",
             mutex' = mutex
      PROVE  RunTypes'
  <2> DEFINE r == [pc |-> "loop", call |-> [do |-> "loop", mode |-> mode]]
  <2>1. r \in Called /\ r.pc = "loop" /\ r.call \in AppCalled /\ r.call # Surface
    BY DEF Called, AppCalled, Surface
  <2>2. run' = [run EXCEPT ![t] = r] /\ loopMutex' = t
    BY <1>3 DEF SetLoopMode
  <2> HIDE DEF r
  <2>3. run' \in [Threads -> Called] /\ run'[t] = r /\ \A u \in Threads : u # t => run'[u] = run[u]
    BY <2>1, <2>2, CalledWith
  <2> QED
    BY <1>0, <1>3, <2>1, <2>2, <2>3 DEF RunTypes, AtWork
<1>4. CASE ProcessActionSetRepeatMode
  <2>1. Head(toSink) \in Command /\ Head(toSink).do = "loop"
    BY <1>4, QueueTail DEF ProcessActionSetRepeatMode, Takes, TypeInv, StreamTypeOK
  <2>2. Head(toSink).mode \in BOOLEAN
    BY <2>1 DEF Command
  <2> QED
    BY <1>3, <1>4, <2>2 DEF ProcessActionSetRepeatMode, Takes, Threads
<1>5. ASSUME NEW mode \in BOOLEAN, AppSetsLoopMode(mode)
      PROVE  RunTypes'
  BY <1>3, <1>5 DEF AppSetsLoopMode, AppCalls, Threads
<1>6. ASSUME NEW t \in Threads, NEW call \in LockingCalls, run[t].pc = "idle",
             run' = [run EXCEPT ![t] = [pc |-> "lock", call |-> call]],
             t = "app" => call \in AppCalled, t = "worker" => call # Surface,
             UNCHANGED <<mutex, loopMutex>>
      PROVE  RunTypes'
  <2> DEFINE r == [pc |-> "lock", call |-> call]
  <2>1. r \in Called /\ r.pc = "lock" /\ r.call = call
    BY DEF Called, LockingCalls
  <2> HIDE DEF r
  <2>2. run' \in [Threads -> Called] /\ run'[t] = r /\ \A u \in Threads : u # t => run'[u] = run[u]
    BY <1>6, <2>1, CalledWith DEF r
  <2> QED
    BY <1>0, <1>6, <2>1, <2>2 DEF RunTypes, AtWork, Threads
<1>7. CASE ProcessLocking
  <2>1. Head(toSink) \in Command /\ Head(toSink).do \in {"load", "play", "stop"}
    BY <1>7, QueueTail DEF ProcessLocking, Takes, TypeInv, StreamTypeOK
  <2>2. Head(toSink) \in LockingCalls /\ Head(toSink) # Surface
    BY <2>1 DEF Command, LockingCalls, Surface
  <2> QED
    BY <1>6, <1>7, <2>2 DEF ProcessLocking, Takes, Threads
<1>8. ASSUME NEW call \in {Surface, [do |-> "stop"]}, AppLocks(call)
      PROVE  RunTypes'
  <2>1. call \in LockingCalls /\ call \in AppCalled
    BY DEF LockingCalls, AppCalled
  <2> QED
    BY <1>6, <1>8, <2>1 DEF AppLocks, AppCalls, Threads
<1> QED
  BY <1>1, <1>2, <1>4, <1>5, <1>7, <1>8, RunMoves

\* The types of flags and counters are kept.
LEMMA ScalarsTyped ==
  ASSUME TypeInv, StreamNext
  PROVE  /\ streaming' \in BOOLEAN /\ commands' \in 0..MaxCommands
         /\ calls' \in 0..MaxCalls /\ missed' \in BOOLEAN
         /\ asked' \in [item : Media \cup {None}, play : BOOLEAN]
<1>0. /\ streaming \in BOOLEAN /\ commands \in 0..MaxCommands /\ calls \in 0..MaxCalls
      /\ missed \in BOOLEAN /\ MaxCommands \in Nat /\ MaxCalls \in Nat
      /\ asked \in [item : Media \cup {None}, play : BOOLEAN] /\ sink.listener \in BOOLEAN
      /\ source.listener \in BOOLEAN
  BY StreamAssumption DEF TypeInv, StreamTypeOK
<1>1. streaming' \in {streaming, TRUE} /\ commands' \in {commands, commands + 1}
      /\ (commands' # commands => commands < MaxCommands)
  BY DEF StreamNext, SourceApp, ControllerLoad, ControllerPlay, ControllerSend, ControllerSetLoopMode, Calls,
     SetListener, SwitchToStream, PlayerListenerGetter, Worker, ProcessActionPause, ProcessLocking,
     ProcessActionResume, ProcessActionSetRepeatMode, PlayerGetter, SinkApp, AppPauses, AppLocks,
     AppSetsLoopMode, CreateStreamPlayer, RegisterListener, Playing, Lock, LoadPlaceholder, Announce,
     InnerPlayFails, InnerPlayLocked, Fail, StoreLoopMode, Telling, SetState, TellState,
     OnPositionChanged, OnError, AutoSyncPosition, PlaybackCompletes, PlaybackBreaks, PositionUpdate,
     sourceVars
<1>2. calls' \in {calls, calls + 1} /\ (calls' # calls => calls < MaxCalls)
  BY DEF StreamNext, SourceApp, ControllerLoad, ControllerPlay, ControllerSend, ControllerSetLoopMode,
     SetListener, SwitchToStream, PlayerListenerGetter, Worker, ProcessActionPause, ProcessLocking,
     ProcessActionResume, ProcessActionSetRepeatMode, PlayerGetter, SinkApp, AppPauses, AppLocks, AppCalls,
     AppSetsLoopMode, CreateStreamPlayer, RegisterListener, Playing, Lock, LoadPlaceholder, Announce,
     InnerPlayFails, InnerPlayLocked, Fail, StoreLoopMode, Telling, SetState, TellState,
     OnPositionChanged, OnError, AutoSyncPosition, PlaybackCompletes, PlaybackBreaks, PositionUpdate,
     Ends, sinkVars
<1>3. missed' \in {missed, TRUE, missed \/ ~streaming, missed \/ ~sink.listener, missed \/ ~source.listener}
  BY DEF StreamNext, SourceApp, ControllerLoad, ControllerPlay, ControllerSend, ControllerSetLoopMode,
     SetListener, SwitchToStream, PlayerListenerGetter, Worker, ProcessActionPause, ProcessLocking,
     ProcessActionResume, ProcessActionSetRepeatMode, PlayerGetter, SinkApp, AppPauses, AppLocks,
     AppSetsLoopMode, CreateStreamPlayer, RegisterListener, Playing, Lock, LoadPlaceholder, Announce,
     InnerPlayFails, InnerPlayLocked, Fail, StoreLoopMode, Telling, SetState, TellState,
     OnPositionChanged, OnError, AutoSyncPosition, PlaybackCompletes, PlaybackBreaks, PositionUpdate,
     SendControlAction, NotifyPeerLoad, NotifyPeerPlay, NotifyPeer, NotifyPeerSetRepeatMode, Reported,
     OnMediaItemChanged, OnPlayerError, OnLoopModeChanged, SetLoopMode, OnStateChanged
<1>4. asked' \in [item : Media \cup {None}, play : BOOLEAN]
  <2>1. CASE asked' = asked
    BY <1>0, <2>1
  <2>2. ASSUME NEW item \in Media \cup {None}, NEW play \in BOOLEAN, asked' = [item |-> item, play |-> play]
        PROVE  asked' \in [item : Media \cup {None}, play : BOOLEAN]
    BY <2>2
  <2>3. CASE SourceApp
    BY <1>0, <2>1, <2>2, <2>3 DEF SourceApp, ControllerLoad, ControllerPlay, ControllerSend,
       ControllerSetLoopMode, SetListener, Media
  <2>4. CASE AppPauses
    BY <1>0, <2>4 DEF AppPauses
  <2>6. ASSUME NEW t \in Threads, Lock(t)
        PROVE  asked' \in [item : Media \cup {None}, play : BOOLEAN]
    BY <2>1, <2>2, <2>6 DEF Lock
  <2>5. CASE Worker
    BY <2>1, <2>5 DEF Worker, ProcessActionPause, ProcessLocking, ProcessActionResume,
       ProcessActionSetRepeatMode, PlayerGetter
  <2> QED
    BY <2>1, <2>3, <2>4, <2>5, <2>6, AskedMoves
<1>5. commands' \in 0..MaxCommands /\ calls' \in 0..MaxCalls
  BY <1>0, <1>1, <1>2
<1> QED
  BY <1>0, <1>1, <1>3, <1>4, <1>5

\* What is sent to the sink.
LEMMA ToSinkSteps ==
  ASSUME TypeInv, StreamNext
  PROVE  /\ \/ toSink' = toSink
            \/ toSink # <<>> /\ toSink' = Tail(toSink) /\ Worker
            \/ \E c \in Command : toSink' = Append(toSink, c)
         /\ toSink' \in Seq(Command)
<1> DEFINE Step == \/ toSink' = toSink
                   \/ toSink # <<>> /\ toSink' = Tail(toSink) /\ Worker
                   \/ \E c \in Command : toSink' = Append(toSink, c)
<1>0. toSink \in Seq(Command)
  BY DEF TypeInv, StreamTypeOK
<1>1. ASSUME NEW c \in Command, SendControlAction(c)
      PROVE  toSink' = toSink \/ toSink' = Append(toSink, c)
  BY <1>1 DEF SendControlAction
<1>2. /\ \A item \in Media : [do |-> "load", item |-> item] \in Command /\ [do |-> "play", item |-> item] \in Command
      /\ \A do \in {"pause", "resume", "stop"} : [do |-> do] \in Command
      /\ \A mode \in BOOLEAN : [do |-> "loop", mode |-> mode] \in Command
      /\ Items \subseteq Media
  BY DEF Command, Media
<1>3. ASSUME SourceApp
      PROVE  Step
  BY <1>1, <1>2, <1>3 DEF SourceApp, ControllerLoad, ControllerPlay, ControllerSend,
     ControllerSetLoopMode, SetListener, NotifyPeerLoad, NotifyPeerPlay, NotifyPeer, NotifyPeerSetRepeatMode
<1>4. ASSUME Worker
      PROVE  Step
  BY <1>4 DEF Worker, ProcessActionPause, ProcessLocking, ProcessActionResume,
       ProcessActionSetRepeatMode, PlayerGetter, Takes
<1>5. ASSUME AppPauses \/ \E t \in Threads : Lock(t)
      PROVE  Step
  BY <1>5 DEF AppPauses, Lock
<1>6. Step
  BY <1>3, <1>4, <1>5, AskedMoves
<1> QED
  BY <1>0, <1>6, QueueTail, LacksAppend

\* What is sent to the source.
LEMMA CallbackKinds ==
  /\ \A item \in Media : /\ [tells |-> "item", item |-> item] \in Callback
                         /\ [tells |-> "position", item |-> item] \in Callback
  /\ \A s \in PlayerStates : [tells |-> "state", state |-> s] \in Callback
  /\ [tells |-> "error"] \in Callback
  /\ \A mode \in BOOLEAN : [tells |-> "loop", mode |-> mode] \in Callback
  BY DEF Callback

\* A callback reaches the channel, or is missed.
LEMMA ReportedOne ==
  ASSUME TypeInv, NEW c \in Callback, Reported(<<c>>)
  PROVE  /\ toSource' = toSource \/ toSource' = Append(toSource, c)
         /\ ~missed' => toSource' = Append(toSource, c) /\ ~missed
<1>1. toSource \in Seq(Callback)
  BY DEF TypeInv, StreamTypeOK
<1>2. toSource \o <<c>> = Append(toSource, c)
  BY <1>1
<1> QED
  BY <1>2 DEF Reported

\* The channel to the source gains one callback, loses its head, or stays.
LEMMA ToSourceSteps ==
  ASSUME TypeInv, StreamNext
  PROVE  /\ \/ toSource' = toSource
            \/ PlayerListenerGetter
            \/ \E c \in Callback : toSource' = Append(toSource, c)
         /\ toSource' \in Seq(Callback)
<1> DEFINE Step == \/ toSource' = toSource
                   \/ PlayerListenerGetter
                   \/ \E c \in Callback : toSource' = Append(toSource, c)
<1>0. toSource \in Seq(Callback)
  BY DEF TypeInv, StreamTypeOK
<1>1. ASSUME NEW item \in Media, OnMediaItemChanged(item)
      PROVE  Step
  BY <1>1, CallbackKinds, ReportedOne DEF OnMediaItemChanged
<1>2. ASSUME OnPlayerError
      PROVE  Step
  BY <1>2, CallbackKinds, ReportedOne DEF OnPlayerError
<1>3. ASSUME NEW mode \in BOOLEAN, OnLoopModeChanged(mode)
      PROVE  Step
  BY <1>3, CallbackKinds, ReportedOne DEF OnLoopModeChanged
<1>4. ASSUME NEW t \in Threads, LoadPlaceholder(t) \/ Announce(t) \/ Fail(t)
      PROVE  Step
  <2>1. Announce(t) => sink.mediaInfo \in Media
    BY DEF Announce, TypeInv, StreamTypeOK
  <2> QED
    BY <1>1, <1>2, <1>4, <2>1 DEF LoadPlaceholder, Announce, Fail, Media
<1>5. ASSUME ProcessActionSetRepeatMode
      PROVE  Step
  <2>1. Head(toSink) \in Command /\ Head(toSink).do = "loop"
    BY <1>5, QueueTail DEF ProcessActionSetRepeatMode, Takes, TypeInv, StreamTypeOK
  <2>2. Head(toSink).mode \in BOOLEAN
    BY <2>1 DEF Command
  <2> QED
    BY <1>3, <1>5, <2>2 DEF ProcessActionSetRepeatMode, SetLoopMode
<1>6. ASSUME NEW mode \in BOOLEAN, AppSetsLoopMode(mode)
      PROVE  Step
  BY <1>3, <1>6 DEF AppSetsLoopMode, SetLoopMode
<1>7. ASSUME TellState
      PROVE  Step
  <2>1. telling \in PlayerStates
    BY <1>7 DEF TellState, TypeInv, StreamTypeOK
  <2> QED
    BY <1>7, <2>1, CallbackKinds, ReportedOne DEF TellState, OnStateChanged
<1>8. ASSUME OnPositionChanged
      PROVE  Step
  <2>1. Head(events) \in Event /\ Head(events).tells = "position"
    BY <1>8, QueueTail DEF OnPositionChanged, TypeInv, StreamTypeOK
  <2>2. Head(events).item \in Media
    BY <2>1 DEF Event, Media
  <2> QED
    BY <1>8, <2>2, CallbackKinds DEF OnPositionChanged
<1>9. ASSUME AutoSyncPosition
      PROVE  Step
  <2>1. sink.curPosition \in Media
    BY <1>9 DEF AutoSyncPosition, TypeInv, StreamTypeOK
  <2> QED
    BY <1>9, <2>1, CallbackKinds DEF AutoSyncPosition
<1>10. Step
  BY <1>2, <1>4, <1>5, <1>6, <1>7, <1>8, <1>9, ToSourceMoves DEF OnError
<1> QED
  BY <1>0, <1>10, QueueTail, LacksAppend DEF PlayerListenerGetter

\* The source's stream manager.
SourceType == [listener : BOOLEAN, state : PlayerStates, item : Media \cup {None}, error : BOOLEAN,
               timer : BOOLEAN, position : Media \cup {None}, loop : BOOLEAN]

\* The source changes by its listener, or by a callback.
LEMMA SourceSteps ==
  ASSUME StreamNext, source' # source
  PROVE  \/ source' = Forget(source)
         \/ \E there \in BOOLEAN : source' = [source EXCEPT !.listener = there]
         \/ PlayerListenerGetter
  BY DEF StreamNext, SourceApp, ControllerLoad, ControllerPlay, ControllerSend, ControllerSetLoopMode,
     SetListener, SwitchToStream, Worker, ProcessActionPause, ProcessLocking, NotifyPeerLoad, NotifyPeerPlay,
     ProcessActionResume, ProcessActionSetRepeatMode, PlayerGetter, SinkApp, AppPauses, AppLocks,
     AppSetsLoopMode, CreateStreamPlayer, RegisterListener, Playing, Lock, LoadPlaceholder, Announce,
     InnerPlayFails, InnerPlayLocked, Fail, StoreLoopMode, Telling, SetState, TellState,
     OnPositionChanged, OnError, AutoSyncPosition, PlaybackCompletes, PlaybackBreaks, PositionUpdate,
     sourceVars

\* What a callback makes of the source is of its type.
LEMMA ToldTyped ==
  ASSUME TypeInv, NEW c \in Callback
  PROVE  Told(c) \in SourceType
<1>0. source \in SourceType
  BY DEF TypeInv, StreamTypeOK, SourceType
<1>1. CASE c.tells = "state"
  <2>1. c.state \in PlayerStates
    BY <1>1 DEF Callback
  <2> QED
    BY <1>0, <1>1, <2>1 DEF Told, PlayerStatusChanged, SourceType
<1>2. CASE c.tells = "position"
  <2>1. c.item \in Media
    BY <1>2 DEF Callback
  <2> QED
    BY <1>0, <1>2, <2>1 DEF Told, PositionChanged, SourceType
<1>3. CASE c.tells = "item"
  <2>1. c.item \in Media /\ "IDLE" \in PlayerStates
    BY <1>3 DEF Callback, PlayerStates
  <2> QED
    BY <1>0, <1>3, <2>1 DEF Told, MediaItemChanged, SourceType
<1>4. CASE c.tells = "error"
  BY <1>0, <1>4 DEF Told, PlayerError, SourceType
<1>5. CASE c.tells = "loop"
  <2>1. c.mode \in BOOLEAN
    BY <1>5 DEF Callback
  <2> QED
    BY <1>0, <1>5, <2>1 DEF Told, RepeatModeChanged, SourceType
<1> QED
  BY <1>1, <1>2, <1>3, <1>4, <1>5 DEF Callback

\* The type of the source is kept.
LEMMA SourceTyped ==
  ASSUME TypeInv, StreamNext
  PROVE  source' \in SourceType
<1>0. source \in SourceType
  BY DEF TypeInv, StreamTypeOK, SourceType
<1>1. ASSUME NEW there \in BOOLEAN, source' = [source EXCEPT !.listener = there]
      PROVE  source' \in SourceType
  BY <1>0, <1>1 DEF SourceType
<1>2. CASE source' = Forget(source)
  BY <1>0, <1>2 DEF Forget, SourceType
<1>3. CASE PlayerListenerGetter
  <2>1. Head(toSource) \in Callback
    BY <1>3, QueueTail DEF PlayerListenerGetter, TypeInv, StreamTypeOK
  <2> QED
    BY <1>0, <1>3, <2>1, ToldTyped DEF PlayerListenerGetter
<1> QED
  BY <1>0, <1>1, <1>2, <1>3, SourceSteps

\* The media player, and what it has to tell.
PlayerType == [state : PlayerStates, item : Media \cup {None}, looping : BOOLEAN]
HasItem(p) == p.state \notin {"IDLE", "INITIALIZED"} => p.item \in Items

EventStep ==
  \E r : events' = events \o r /\ Tells(r, player'.state) /\ player' \in PlayerType /\ HasItem(player')

\* A sequence of states tells its last.
LEMMA StatesTell ==
  ASSUME NEW s \in Seq(PlayerStates), Len(s) # 0
  PROVE  Tells(States(s), s[Len(s)])
  BY StatesTold DEF Tells

\* One state tells itself.
LEMMA StateTold ==
  ASSUME NEW x \in PlayerStates
  PROVE  LET r == States(<<x>>)
         IN  /\ Tells(r, x) /\ r \in Seq(Event) /\ ~Lacks(r, StateEvents)
             /\ LastIn(r, StateEvents, StateIs(x))
<1> DEFINE s == <<x>>
<1>1. s \in Seq(PlayerStates) /\ Len(s) = 1 /\ s[1] = x
  OBVIOUS
<1> HIDE DEF s
<1>2. Tells(States(s), x) /\ States(s) \in Seq(Event) /\ ~Lacks(States(s), StateEvents)
      /\ LastIn(States(s), StateEvents, StateIs(x))
  <2>1. Len(s) # 0 /\ s[Len(s)] = x
    BY <1>1
  <2> QED
    BY <1>1, <2>1, StatesTell, StatesTold
<1> QED
  BY <1>2 DEF s

\* What the type of the state says of player and sink.
LEMMA PlayerIs ==
  ASSUME TypeInv
  PROVE  /\ player \in PlayerType /\ HasItem(player) /\ sink.mediaInfo \in Media \cup {None}
         /\ events \in Seq(Event) /\ sink \in [created : BOOLEAN, listener : BOOLEAN, surface : BOOLEAN,
               mediaInfo : Media \cup {None}, load : BOOLEAN, play : BOOLEAN,
               state : PlayerStates, syncTimer : BOOLEAN,
               curPosition : Media \cup {None}, loopMode : BOOLEAN]
         /\ Items \subseteq Media
  BY DEF TypeInv, StreamTypeOK, PlayerType, HasItem, Media

\* A player that goes to a state tells that state.
LEMMA BecomesSteps ==
  ASSUME TypeInv, NEW s \in PlayerStates, Becomes(s), player.item \in Items
  PROVE  EventStep /\ player'.item = player.item /\ player'.looping = player.looping
         /\ player'.state = s
<1>1. player' \in PlayerType /\ player'.state = s /\ player'.item = player.item
      /\ player'.looping = player.looping
  BY PlayerIs DEF Becomes, PlayerType
<1>2. Tells(States(<<s>>), s)
  BY StateTold
<1> QED
  BY <1>1, <1>2 DEF EventStep, Becomes, HasItem

\* What the item in the player is, when it is given one.
LEMMA SourceSet ==
  ASSUME TypeInv, NEW item \in Media
  PROVE  /\ SetSource(item) \in PlayerType /\ Prepare(item) \in PlayerType /\ Start(item) \in PlayerType
         /\ SetSource(item).state = "INITIALIZED" /\ Prepare(item).state = "PREPARED"
         /\ Start(item).state = "STARTED"
         /\ \A p \in {SetSource(item), Prepare(item), Start(item)} :
              p.item = item /\ p.looping = player.looping
<1>1. player \in PlayerType /\ {"INITIALIZED", "PREPARED", "STARTED"} \subseteq PlayerStates
  BY PlayerIs DEF PlayerStates
<1>2. SetSource(item) = [state |-> "INITIALIZED", item |-> item, looping |-> player.looping]
  <2>1. /\ SetSource(item) \in PlayerType /\ SetSource(item).state = "INITIALIZED"
        /\ SetSource(item).item = item /\ SetSource(item).looping = player.looping
    BY <1>1 DEF SetSource, PlayerType
  <2> QED
    BY <2>1 DEF PlayerType
<1>3. Prepare(item) = [state |-> "PREPARED", item |-> item, looping |-> player.looping]
  BY <1>2 DEF Prepare
<1>4. Start(item) = [state |-> "STARTED", item |-> item, looping |-> player.looping]
  BY <1>2 DEF Start
<1> QED
  BY <1>1, <1>2, <1>3, <1>4 DEF PlayerType

\* A player that refuses its source or its surface is left alone or in a state
\* it tells.
LEMMA RefusedSteps ==
  ASSUME TypeInv, Refused, sink.mediaInfo # None
  PROVE  /\ UNCHANGED playerVars \/ EventStep
         /\ player'.looping = player.looping /\ player'.state # "IDLE"
<1>1. sink.mediaInfo \in Media
  BY PlayerIs
<1>2. CASE UNCHANGED playerVars /\ ~CanSetSource
  BY <1>2 DEF playerVars, CanSetSource
<1>3. CASE player' = SetSource(sink.mediaInfo) /\ events' = events \o States(<<"INITIALIZED">>)
  <2>1. Tells(States(<<"INITIALIZED">>), "INITIALIZED")
    BY StateTold DEF PlayerStates
  <2> QED
    BY <1>1, <1>3, <2>1, SourceSet DEF EventStep, HasItem
<1> QED
  BY <1>2, <1>3 DEF Refused

\* InnerPlayLocked leaves the media in the player, prepared or started.
LEMMA InnerPlaySteps ==
  ASSUME TypeInv, NEW t \in Threads, InnerPlayLocked(t)
  PROVE  /\ EventStep /\ player'.looping = player.looping /\ player'.item = sink.mediaInfo
         /\ player'.state = IF IsLoading(t) THEN "PREPARED" ELSE "STARTED"
<1>1. sink.mediaInfo \in Items
  BY PlayerIs DEF InnerPlayLocked, TypeInv, Media
<1>2. sink.mediaInfo \in Media
  BY <1>1, PlayerIs
<1>3. CASE IsLoading(t)
  <2> DEFINE s == <<"INITIALIZED", "PREPARED">>
  <2>1. s \in Seq(PlayerStates) /\ Len(s) = 2 /\ s[2] = "PREPARED"
    BY DEF PlayerStates
  <2>2. player' = Prepare(sink.mediaInfo) /\ events' = events \o States(s)
    BY <1>3 DEF InnerPlayLocked
  <2> HIDE DEF s
  <2>3. Tells(States(s), "PREPARED")
    BY <2>1, StatesTell
  <2> QED
    BY <1>1, <1>2, <1>3, <2>2, <2>3, SourceSet DEF EventStep, HasItem
<1>4. CASE ~IsLoading(t)
  <2> DEFINE s == <<"INITIALIZED", "PREPARED", "STARTED">>
  <2>1. s \in Seq(PlayerStates) /\ Len(s) = 3 /\ s[3] = "STARTED"
    BY DEF PlayerStates
  <2>2. player' = Start(sink.mediaInfo) /\ events' = events \o States(s)
    BY <1>4 DEF InnerPlayLocked
  <2> HIDE DEF s
  <2>3. Tells(States(s), "STARTED")
    BY <2>1, StatesTell
  <2> QED
    BY <1>1, <1>2, <1>4, <2>2, <2>3, SourceSet DEF EventStep, HasItem
<1> QED
  BY <1>3, <1>4

\* A thread that takes the mutex resets the player, or leaves it alone.
LEMMA LockSteps ==
  ASSUME TypeInv, NEW t \in Threads, Lock(t)
  PROVE  /\ UNCHANGED playerVars \/ (EventStep /\ player'.state = "IDLE")
         /\ player'.looping = player.looping
         /\ (run[t].call.do \in {"load", "play"} /\ IsNeededToReset) \/ run[t].call.do = "stop"
              => player'.state = "IDLE"
<1>1. ASSUME player' = StoppedPlayer, events' = events \o StopEvents
      PROVE  EventStep /\ player'.looping = player.looping /\ player'.state = "IDLE"
  BY <1>1, StopTells DEF EventStep, PlayerType, HasItem
<1>2. \/ player' = StoppedPlayer /\ events' = events \o StopEvents
      \/ UNCHANGED playerVars /\ ~(run[t].call.do \in {"load", "play"} /\ IsNeededToReset)
         /\ run[t].call.do # "stop"
  BY DEF Lock, LoadLocked, SurfaceLocked, StopLocked, playerVars
<1> QED
  BY <1>1, <1>2 DEF playerVars

\* The loop mode is the player's at once; its state and item stay.
LEMMA LoopModeSteps ==
  ASSUME TypeInv, NEW t \in Threads, NEW mode \in BOOLEAN, SetLoopMode(t, mode)
  PROVE  EventStep /\ player'.looping = mode /\ player'.item = player.item /\ player'.state = player.state
<1>1. player' \in PlayerType /\ HasItem(player') /\ player'.state = player.state
      /\ player'.looping = mode /\ player'.item = player.item
  BY PlayerIs DEF SetLoopMode, PlayerType, HasItem
<1>2. events' = events \o <<>> /\ Tells(<<>>, player'.state)
  <2>1. events' = events \o <<>>
    BY PlayerIs DEF SetLoopMode
  <2>2. <<>> \in Seq(Event) /\ Lacks(<<>>, StateEvents)
    BY DEF Lacks
  <2> QED
    BY <1>1, <2>1, <2>2 DEF Tells
<1> QED
  BY <1>1, <1>2 DEF EventStep

\* A player that breaks tells an error after its state.
LEMMA BreaksSteps ==
  ASSUME TypeInv, PlaybackBreaks
  PROVE  EventStep /\ player'.state = "STATE_ERROR" /\ ~Lacks(events', ErrorEvents)
         /\ player'.looping = player.looping
<1> DEFINE e == [tells |-> "error"]  r == <<e>> \o States(<<"STATE_ERROR">>)
<1>0. e \in Event /\ e \in ErrorEvents /\ e \notin StateEvents /\ <<e>> \in Seq(Event)
  BY EventKinds DEF ErrorEvents
<1>1. "STATE_ERROR" \in PlayerStates
  BY DEF PlayerStates
<1> DEFINE st == States(<<"STATE_ERROR">>)
<1>2. st \in Seq(Event) /\ ~Lacks(st, StateEvents)
      /\ LastIn(st, StateEvents, StateIs("STATE_ERROR"))
  BY <1>1, StateTold
<1>3. player' \in PlayerType /\ HasItem(player') /\ player'.state = "STATE_ERROR"
      /\ player'.looping = player.looping
  BY PlayerIs DEF PlaybackBreaks, PlayerType, HasItem, PlayerStates, Ends, Plays
<1>4. events' = events \o r
  <2>1. events' = (events \o <<e>>) \o st
    BY DEF PlaybackBreaks
  <2> HIDE DEF e, st
  <2> QED
    BY <1>0, <1>2, <2>1, PlayerIs DEF st
<1> HIDE DEF e, st
<1>5. ~Lacks(<<e>>, ErrorEvents)
  BY <1>0 DEF Lacks
<1>6. r \in Seq(Event) /\ ~Lacks(r, StateEvents) /\ ~Lacks(r, ErrorEvents)
      /\ LastIn(r, StateEvents, StateIs("STATE_ERROR"))
  BY <1>0, <1>2, <1>5, QueueConcat DEF st
<1> HIDE DEF r
<1>7. ~Lacks(events', ErrorEvents)
  BY <1>4, <1>6, PlayerIs, QueueConcat
<1> QED
  BY <1>3, <1>4, <1>6, <1>7 DEF EventStep, Tells

\* A position leaves the player as it was.
LEMMA PositionSteps ==
  ASSUME TypeInv, PositionUpdate
  PROVE  EventStep /\ player' = player
<1> DEFINE e == [tells |-> "position", item |-> player.item]
<1>1. player.item \in Items
  BY PlayerIs DEF PositionUpdate, Plays, HasItem
<1>2. e \in Event /\ e \notin StateEvents
  BY <1>1, EventKinds
<1>3. <<e>> \in Seq(Event) /\ Lacks(<<e>>, StateEvents)
  BY <1>2 DEF Lacks
<1>4. events' = Append(events, e) /\ player' = player
  BY DEF PositionUpdate
<1> HIDE DEF e
<1>5. events' = events \o <<e>>
  BY <1>2, <1>4, PlayerIs
<1> QED
  BY <1>3, <1>4, <1>5, PlayerIs DEF EventStep, Tells

\* Every step tells the state it leaves the player in, takes an event, or
\* leaves player and events alone.
LEMMA EventSteps ==
  ASSUME TypeInv, StreamNext
  PROVE  UNCHANGED playerVars \/ SetState \/ OnPositionChanged \/ OnError \/ EventStep
<1>1. ASSUME Pause \/ Resume
      PROVE  UNCHANGED playerVars \/ EventStep
  <2>1. "PAUSED" \in PlayerStates /\ "STARTED" \in PlayerStates
    BY DEF PlayerStates
  <2>2. CanPause \/ CanPlay => player.item \in Items
    BY PlayerIs DEF CanPause, CanPlay, HasItem
  <2> QED
    BY <1>1, <2>1, <2>2, BecomesSteps DEF Pause, Resume
<1>2. ASSUME PlaybackCompletes
      PROVE  EventStep
  <2>1. "PLAYBACK_COMPLETE" \in PlayerStates /\ player.item \in Items
    BY <1>2, PlayerIs DEF PlaybackCompletes, Ends, Plays, HasItem, PlayerStates
  <2> QED
    BY <1>2, <2>1, BecomesSteps DEF PlaybackCompletes
<1>3. ASSUME NEW t \in Threads, InnerPlayFails(t)
      PROVE  UNCHANGED playerVars \/ EventStep
  BY <1>3, RefusedSteps DEF InnerPlayFails, TypeInv
<1>4. ASSUME ProcessActionSetRepeatMode
      PROVE  EventStep
  <2>1. Head(toSink) \in Command /\ Head(toSink).do = "loop"
    BY <1>4, QueueTail DEF ProcessActionSetRepeatMode, Takes, TypeInv, StreamTypeOK
  <2>2. Head(toSink).mode \in BOOLEAN
    BY <2>1 DEF Command
  <2> QED
    BY <1>4, <2>2, LoopModeSteps DEF ProcessActionSetRepeatMode, Threads
<1>5. ASSUME NEW mode \in BOOLEAN, AppSetsLoopMode(mode)
      PROVE  EventStep
  BY <1>5, LoopModeSteps DEF AppSetsLoopMode, Threads
<1> QED
  BY <1>1, <1>2, <1>3, <1>4, <1>5, LockSteps, InnerPlaySteps, BreaksSteps, PositionSteps, PlayerMoves
  DEF ProcessActionPause, ProcessActionResume, AppPauses

\* Of the events, the first is taken or some are added.
LEMMA EventTaken ==
  ASSUME TypeInv, EventInv, SetState \/ OnPositionChanged \/ OnError
  PROVE  /\ events' \in Seq(Event) /\ player' = player /\ Head(events) \in Event
         /\ LastIn(events', StateEvents, ThatState')
         /\ SetState => Head(events) \in StateEvents /\ sink'.state = Head(events).state
         /\ ~SetState => Head(events) \notin StateEvents /\ sink'.state = sink.state
         /\ EventInv'
<1>1. events \in Seq(Event) /\ events # <<>> /\ events' = Tail(events) /\ player' = player
  BY DEF TypeInv, StreamTypeOK, SetState, OnPositionChanged, OnError
<1>2. ThatState' = ThatState /\ StateEvents' = StateEvents
  BY <1>1 DEF ThatState, StateEvents
<1>3. /\ Head(events) \in Event /\ Tail(events) \in Seq(Event)
      /\ Lacks(events, StateEvents) <=> Head(events) \notin StateEvents /\ Lacks(events', StateEvents)
      /\ LastIn(events', StateEvents, ThatState)
      /\ Lacks(events', StateEvents) /\ Head(events) \in StateEvents => Head(events) \in ThatState
  BY <1>1, QueueTail DEF EventInv
<1>4. CASE SetState
  <2>1. Head(events).tells = "state" /\ sink' = [sink EXCEPT !.state = Head(events).state]
    BY <1>4 DEF SetState
  <2>2. Head(events) \in StateEvents /\ sink'.state = Head(events).state
    BY <1>3, <2>1, PlayerIs DEF StateEvents
  <2>3. Lacks(events', StateEvents) => sink'.state = player'.state
    BY <1>1, <1>3, <2>2 DEF ThatState
  <2> QED
    BY <1>1, <1>2, <1>3, <1>4, <2>2, <2>3 DEF EventInv
<1>5. CASE OnPositionChanged \/ OnError
  <2>1. Head(events).tells \in {"position", "error"} /\ Head(events).tells # "state"
    BY <1>5 DEF OnPositionChanged, OnError
  <2>2. Head(events) \notin StateEvents /\ ~SetState
    BY <2>1 DEF StateEvents, SetState
  <2>3. sink'.state = sink.state
    BY <1>5, PlayerIs DEF OnPositionChanged, OnError, sinkVars
  <2> QED
    BY <1>1, <1>2, <1>3, <2>2, <2>3 DEF EventInv
<1> QED
  BY <1>4, <1>5

\* The sink's stream manager and player manager.
SinkType == [created : BOOLEAN, listener : BOOLEAN, surface : BOOLEAN,
             mediaInfo : Media \cup {None}, load : BOOLEAN, play : BOOLEAN,
             state : PlayerStates, syncTimer : BOOLEAN,
             curPosition : Media \cup {None}, loopMode : BOOLEAN]

\* What each step may change of the sink's player.
LEMMA SinkSteps ==
  ASSUME TypeInv, StreamNext
  PROVE  /\ sink' \in SinkType
         /\ sink'.play \/ sink'.load => sink'.mediaInfo # None
         /\ sink'.syncTimer => sink'.curPosition # None
         /\ ~SetState => sink'.state = sink.state
         /\ (\A t \in Threads : ~Lock(t)) => sink'.mediaInfo = sink.mediaInfo /\ sink'.surface = sink.surface
         /\ sink.surface => sink'.surface
         /\ (\A t \in Threads : ~Lock(t) /\ ~InnerPlayLocked(t)) =>
              sink'.load = sink.load /\ sink'.play = sink.play
         /\ (\A t \in Threads : ~StoreLoopMode(t)) => sink'.loopMode = sink.loopMode
         /\ ~CreateStreamPlayer => sink'.created = sink.created
<1> DEFINE Good(s) == /\ s \in SinkType
                      /\ s.play \/ s.load => s.mediaInfo # None
                      /\ s.syncTimer => s.curPosition # None
<1>0. sink \in SinkType /\ Good(sink)
  BY PlayerIs DEF SinkType, TypeInv
<1> USE DEF SinkType
<1>1. ASSUME NEW t \in Threads, Lock(t)
      PROVE  /\ Good(sink') /\ sink'.state = sink.state /\ sink'.loopMode = sink.loopMode
             /\ sink'.created = sink.created /\ (sink.surface => sink'.surface)
  <2>1. run[t].call \in LockingCalls
    BY <1>1, CallIs DEF Lock, Locking
  <2>2. ASSUME run[t].call.do \in {"load", "play"}
        PROVE  run[t].call.item \in Media /\ run[t].call.item # None
    BY <2>1, <2>2, Apart DEF LockingCalls, Surface
  <2>3. ASSUME NEW load \in BOOLEAN, NEW play \in BOOLEAN, run[t].call.do \in {"load", "play"},
               sink' = [sink EXCEPT !.mediaInfo = run[t].call.item, !.load = load, !.play = play]
        PROVE  /\ Good(sink') /\ sink'.state = sink.state /\ sink'.loopMode = sink.loopMode
               /\ sink'.created = sink.created /\ sink'.surface = sink.surface
    BY <1>0, <2>2, <2>3
  <2>4. CASE run[t].call.do \in {"load", "play"} /\ LoadLocked(t)
    <3>1. \E load, play \in BOOLEAN :
            sink' = [sink EXCEPT !.mediaInfo = run[t].call.item, !.load = load, !.play = play]
      <4>1. sink.load \in BOOLEAN /\ sink.play \in BOOLEAN
        BY <1>0
      <4> QED
        BY <2>4, <4>1 DEF LoadLocked
    <3> QED
      BY <2>3, <2>4, <3>1
  <2>5. CASE SurfaceLocked(t)
    BY <1>0, <2>5 DEF SurfaceLocked
  <2>6. CASE StopLocked(t)
    BY <1>0, <2>6 DEF StopLocked
  <2> QED
    BY <1>1, <2>4, <2>5, <2>6 DEF Lock
<1>2. ASSUME NEW t \in Threads, InnerPlayLocked(t)
      PROVE  /\ Good(sink') /\ sink'.state = sink.state /\ sink'.loopMode = sink.loopMode
             /\ sink'.created = sink.created /\ sink'.surface = sink.surface
             /\ sink'.mediaInfo = sink.mediaInfo
  <2>1. sink.mediaInfo # None /\ sink' = Flagged(run[t].call)
    BY <1>2 DEF InnerPlayLocked, TypeInv
  <2> QED
    BY <1>0, <2>1 DEF Flagged
<1>3. ASSUME NEW t \in Threads, StoreLoopMode(t)
      PROVE  /\ Good(sink') /\ sink'.state = sink.state /\ sink'.load = sink.load
             /\ sink'.created = sink.created /\ sink'.surface = sink.surface /\ sink'.play = sink.play
             /\ sink'.mediaInfo = sink.mediaInfo
  <2>1. run[t].call.mode \in BOOLEAN
    BY <1>3, CallIs DEF StoreLoopMode
  <2> QED
    BY <1>0, <1>3, <2>1 DEF StoreLoopMode
<1> DEFINE Same == /\ sink'.load = sink.load /\ sink'.play = sink.play
                   /\ sink'.surface = sink.surface /\ sink'.mediaInfo = sink.mediaInfo
                   /\ sink'.loopMode = sink.loopMode
<1>4. ASSUME CreateStreamPlayer
      PROVE  Good(sink') /\ Same /\ sink'.state = sink.state
  BY <1>0, <1>4 DEF CreateStreamPlayer
<1>5. ASSUME \E there \in BOOLEAN : RegisterListener(there)
      PROVE  Good(sink') /\ Same /\ sink'.state = sink.state /\ sink'.created = sink.created
  BY <1>0, <1>5 DEF RegisterListener
<1>6. ASSUME SetState
      PROVE  Good(sink') /\ Same /\ sink'.created = sink.created
  <2>1. Head(events) \in Event /\ Head(events).tells = "state"
    BY <1>6, PlayerIs, QueueTail DEF SetState
  <2>2. Head(events).state \in PlayerStates
    BY <2>1 DEF Event
  <2> QED
    BY <1>0, <1>6, <2>2 DEF SetState
<1>7. ASSUME TellState
      PROVE  Good(sink') /\ Same /\ sink'.state = sink.state /\ sink'.created = sink.created
  BY <1>0, <1>7 DEF TellState, OnStateChanged
<1>8. ASSUME OnPositionChanged
      PROVE  Good(sink') /\ Same /\ sink'.state = sink.state /\ sink'.created = sink.created
  <2>1. Head(events) \in Event /\ Head(events).tells = "position"
    BY <1>8, PlayerIs, QueueTail DEF OnPositionChanged
  <2>2. Head(events).item \in Items
    BY <2>1 DEF Event
  <2> DEFINE i == Head(events).item
  <2>3. i \in Media /\ i # None
    BY <2>2, Apart DEF Media
  <2>4. \/ sink' = sink
        \/ sink' = [sink EXCEPT !.syncTimer = TRUE, !.curPosition = i]
        \/ sink' = [sink EXCEPT !.curPosition = i]
    BY <1>8 DEF OnPositionChanged
  <2> HIDE DEF i
  <2>5. CASE sink' = [sink EXCEPT !.syncTimer = TRUE, !.curPosition = i]
    BY <1>0, <2>3, <2>5
  <2>6. CASE sink' = [sink EXCEPT !.curPosition = i]
    BY <1>0, <2>3, <2>6
  <2> QED
    BY <1>0, <2>4, <2>5, <2>6
<1>9. CASE sink' = sink
  BY <1>0, <1>9
<1> HIDE DEF Good, SinkType
<1>10. Good(sink')
  BY <1>1, <1>2, <1>3, <1>4, <1>5, <1>6, <1>7, <1>8, <1>0, SinkMoves
<1>11. /\ ~SetState => sink'.state = sink.state
       /\ (\A t \in Threads : ~Lock(t)) => sink'.mediaInfo = sink.mediaInfo /\ sink'.surface = sink.surface
       /\ sink.surface => sink'.surface
       /\ (\A t \in Threads : ~Lock(t) /\ ~InnerPlayLocked(t)) =>
              sink'.load = sink.load /\ sink'.play = sink.play
       /\ (\A t \in Threads : ~StoreLoopMode(t)) => sink'.loopMode = sink.loopMode
       /\ ~CreateStreamPlayer => sink'.created = sink.created
  BY <1>1, <1>2, <1>3, <1>4, <1>5, <1>6, <1>7, <1>8, <1>0, SinkMoves
<1> QED
  BY <1>10, <1>11 DEF Good

\* Where the threads go.
LEMMA LockGoes ==
  ASSUME TypeInv, NEW t \in Threads, Lock(t)
  PROVE  /\ \A u \in Threads : run[u].pc \notin AtWork
         /\ \A u \in Threads : u # t => run'[u] = run[u]
         /\ \/ run'[t].pc = "idle" /\ run'[t].call = NoCommand
            \/ /\ run'[t].pc = "placeholder" /\ run'[t].call = run[t].call
               /\ LoadLocked(t) /\ sink.surface /\ run[t].call.do = "load"
               /\ run[t].call.item = Placeholder
            \/ /\ run'[t].pc = "announce" /\ run'[t].call = run[t].call
               /\ run[t].call.do # "stop"
               /\ \/ run[t].call.do = "surface" /\ SurfaceLocked(t) /\ (sink.play \/ sink.load)
                  \/ /\ run[t].call.do \in {"load", "play"} /\ LoadLocked(t) /\ sink.surface
                     /\ ~(run[t].call.do = "load" /\ run[t].call.item = Placeholder)
<1>1. run[t].pc = "lock" /\ mutex = None /\ run[t].pc \in Locking
  BY DEF Lock, Locking
<1>2. \A u \in Threads : run[u].pc \notin AtWork
  BY <1>1, Apart DEF TypeInv, StreamTypeOK, AtWork
<1>3. ASSUME Returns(t)
      PROVE  run'[t].pc = "idle" /\ run'[t].call = NoCommand /\ \A u \in Threads : u # t => run'[u] = run[u]
  BY <1>3, ReturnsFrom
<1>4. ASSUME NEW pc \in Locking, Goes(t, pc)
      PROVE  run'[t].pc = pc /\ run'[t].call = run[t].call /\ \A u \in Threads : u # t => run'[u] = run[u]
  BY <1>1, <1>4, GoesTo
<1>5. {"announce", "placeholder"} \subseteq Locking
  BY DEF Locking
<1>6. CASE run[t].call.do \in {"load", "play"} /\ LoadLocked(t)
  BY <1>2, <1>3, <1>4, <1>5, <1>6 DEF LoadLocked
<1>7. CASE run[t].call.do = "surface" /\ SurfaceLocked(t)
  BY <1>2, <1>3, <1>4, <1>5, <1>7 DEF SurfaceLocked
<1>8. CASE run[t].call.do = "stop" /\ StopLocked(t)
  BY <1>2, <1>3, <1>8 DEF StopLocked
<1> QED
  BY <1>6, <1>7, <1>8 DEF Lock

\* Where a thread can go in a step.
LEMMA Moves ==
  ASSUME TypeInv, StreamNext, NEW t \in Threads, run'[t] # run[t]
  PROVE  \/ Lock(t)
         \/ Announce(t) /\ run'[t].pc = "source" /\ run'[t].call = run[t].call
         \/ InnerPlayFails(t) /\ run'[t].pc = "fail" /\ run'[t].call = run[t].call
         \/ /\ LoadPlaceholder(t) \/ InnerPlayLocked(t) \/ Fail(t) \/ StoreLoopMode(t)
            /\ run'[t].pc = "idle" /\ run'[t].call = NoCommand
         \/ /\ run[t].pc = "idle"
            /\ \/ t = "worker" /\ ProcessLocking /\ run'[t].pc = "lock" /\ run'[t].call = Head(toSink)
               \/ t = "app" /\ \E call \in {Surface, [do |-> "stop"]} :
                    AppLocks(call) /\ run'[t].pc = "lock" /\ run'[t].call = call
               \/ run'[t].pc = "loop"
<1>1. ASSUME NEW u \in Threads, Playing(u)
      PROVE  u = t
  <2>1. CASE Lock(u)
    BY <2>1, LockGoes
  <2>2. CASE Announce(u) \/ InnerPlayFails(u)
    <3>1. PICK pc \in {"source", "fail"} : Goes(u, pc)
      BY <2>2 DEF Announce, InnerPlayFails
    <3>2. run[u].pc \in Locking /\ pc \in Locking
      BY <2>2 DEF Announce, InnerPlayFails, Locking
    <3> QED
      BY <3>1, <3>2, GoesTo
  <2>3. CASE LoadPlaceholder(u) \/ InnerPlayLocked(u) \/ Fail(u) \/ StoreLoopMode(u)
    BY <2>3, ReturnsFrom DEF LoadPlaceholder, InnerPlayLocked, Fail, StoreLoopMode
  <2> QED
    BY <1>1, <2>1, <2>2, <2>3 DEF Playing
<1>2. ASSUME Announce(t)
      PROVE  run'[t].pc = "source" /\ run'[t].call = run[t].call
  BY <1>2, GoesTo DEF Announce, Locking
<1>3. ASSUME InnerPlayFails(t)
      PROVE  run'[t].pc = "fail" /\ run'[t].call = run[t].call
  BY <1>3, GoesTo DEF InnerPlayFails, Locking
<1>4. ASSUME LoadPlaceholder(t) \/ InnerPlayLocked(t) \/ Fail(t) \/ StoreLoopMode(t)
      PROVE  run'[t].pc = "idle" /\ run'[t].call = NoCommand
  BY <1>4, ReturnsFrom DEF LoadPlaceholder, InnerPlayLocked, Fail, StoreLoopMode
<1>5. run \in [Threads -> Called]
  BY DEF TypeInv, StreamTypeOK
<1>6. ASSUME NEW u, NEW r, run' = [run EXCEPT ![u] = r]
      PROVE  u = t /\ run'[t] = r
  BY <1>5, <1>6
<1>7. ASSUME ProcessLocking
      PROVE  t = "worker" /\ run[t].pc = "idle" /\ run'[t].pc = "lock" /\ run'[t].call = Head(toSink)
  BY <1>6, <1>7 DEF ProcessLocking, Takes
<1>8. ASSUME NEW call, AppLocks(call)
      PROVE  t = "app" /\ run[t].pc = "idle" /\ run'[t].pc = "lock" /\ run'[t].call = call
  BY <1>6, <1>8 DEF AppLocks, AppCalls
<1>9. ASSUME ProcessActionSetRepeatMode \/ \E mode \in BOOLEAN : AppSetsLoopMode(mode)
      PROVE  run'[t].pc = "loop" /\ run[t].pc = "idle"
  <2>1. PICK u \in Threads : \E mode : SetLoopMode(u, mode) /\ run[u].pc = "idle"
    BY <1>9 DEF ProcessActionSetRepeatMode, AppSetsLoopMode, Takes, AppCalls, Threads
  <2>2. PICK mode : run' = [run EXCEPT ![u] = [pc |-> "loop", call |-> [do |-> "loop", mode |-> mode]]]
    BY <2>1 DEF SetLoopMode
  <2> QED
    BY <1>6, <2>1, <2>2
<1>10. run' # run
  OBVIOUS
<1> QED
  BY <1>1, <1>2, <1>3, <1>4, <1>7, <1>8, <1>9, <1>10, RunMoves DEF Playing

\* Only the thread that holds the mutex is at the player.
LEMMA AtWorkAlone ==
  ASSUME TypeInv, NEW t \in Threads, run[t].pc \in AtWork
  PROVE  \A u \in Threads : (run[u].pc \in AtWork => u = t) /\ ~Lock(u)
<1>1. mutex = t /\ t # None
  BY Apart DEF TypeInv, StreamTypeOK, AtWork
<1> QED
  BY <1>1 DEF TypeInv, StreamTypeOK, AtWork, Lock

\* A load or play that has the mutex stores its media.
LEMMA LoadedIs ==
  ASSUME TypeInv, NEW t \in Threads, LoadLocked(t), run[t].pc = "lock", run[t].call.do \in {"load", "play"}
  PROVE  sink'.mediaInfo = run[t].call.item /\ sink'.surface = sink.surface /\ sink'.mediaInfo \in Media
<1>1. run[t].call \in LockingCalls
  BY CallIs DEF Locking
<1>2. run[t].call.item \in Media
  BY <1>1 DEF LockingCalls, Surface
<1> QED
  BY <1>2, PlayerIs DEF LoadLocked

\* Types, and what the player's events tell, are kept by every step.
LEMMA TypeKept ==
  ASSUME TypeInv, LockInv, EventInv, StreamNext
  PROVE  TypeInv' /\ EventInv'
<1>1. EventInv' /\ events' \in Seq(Event) /\ player' \in PlayerType /\ HasItem(player')
  <2>1. CASE UNCHANGED playerVars
    <3>1. sink'.state = sink.state
      BY <2>1, SinkSteps DEF SetState, playerVars, PlayerIs
    <3> QED
      BY <2>1, <3>1, PlayerIs DEF playerVars, EventInv, Lacks, LastIn, ThatState, StateEvents, HasItem
  <2>2. CASE SetState \/ OnPositionChanged \/ OnError
    BY <2>2, EventTaken, PlayerIs
  <2>3. CASE EventStep /\ ~SetState
    BY <2>3, SinkSteps, EventsAdded, PlayerIs, QueueConcat DEF EventStep, Tells
  <2> QED
    BY <2>1, <2>2, <2>3, EventSteps
<1>2. telling' \in PlayerStates \cup {None} /\ (telling' # None => telling' = sink'.state)
  <2>1. CASE SetState
    <3>1. Head(events) \in Event /\ Head(events).tells = "state"
      BY <2>1, PlayerIs, QueueTail DEF SetState
    <3>2. Head(events).state \in PlayerStates
      BY <3>1 DEF Event
    <3> QED
      BY <2>1, <3>2, PlayerIs DEF SetState
  <2>2. CASE ~SetState
    <3>1. telling' \in {telling, None}
      BY <2>2 DEF StreamNext, SourceApp, ControllerLoad, ControllerPlay, ControllerSend, ControllerSetLoopMode,
         SetListener, SwitchToStream, PlayerListenerGetter, Worker, ProcessActionPause, ProcessLocking,
         ProcessActionResume, ProcessActionSetRepeatMode, PlayerGetter, SinkApp, AppPauses, AppLocks,
         AppSetsLoopMode, CreateStreamPlayer, RegisterListener, Playing, Lock, LoadPlaceholder, Announce,
         InnerPlayFails, InnerPlayLocked, Fail, StoreLoopMode, Telling, TellState,
         OnPositionChanged, OnError, AutoSyncPosition, PlaybackCompletes, PlaybackBreaks, PositionUpdate
    <3>2. sink'.state = sink.state
      BY <2>2, SinkSteps
    <3> QED
      BY <3>1, <3>2, Apart DEF TypeInv, StreamTypeOK
  <2> QED
    BY <2>1, <2>2
<1>3. RunTypes'
  BY RunTyped
<1>4. StreamTypeOK'
  BY <1>1, <1>2, <1>3, ScalarsTyped, ToSinkSteps, ToSourceSteps, SourceTyped, SinkSteps
  DEF StreamTypeOK, RunTypes, SourceType, SinkType, PlayerType, AtWork
<1>5. ASSUME NEW t \in Threads, run'[t].pc = "placeholder"
      PROVE  sink'.mediaInfo = Placeholder
  <2>1. CASE run'[t] = run[t]
    <3>1. run[t].pc \in AtWork /\ sink.mediaInfo = Placeholder
      BY <1>5, <2>1 DEF AtWork, TypeInv
    <3> QED
      BY <3>1, AtWorkAlone, SinkSteps
  <2>2. CASE run'[t] # run[t]
    <3>1. Lock(t) /\ LoadLocked(t) /\ run[t].call.item = Placeholder /\ run[t].call.do = "load"
      BY <1>5, <2>2, Moves, LockGoes
    <3>2. run[t].pc = "lock"
      BY <3>1 DEF Lock
    <3> QED
      BY <3>1, <3>2, LoadedIs
  <2> QED
    BY <2>1, <2>2
<1>6. ASSUME NEW t \in Threads, run'[t].pc \in {"announce", "source", "fail"}
      PROVE  sink'.surface /\ sink'.mediaInfo # None /\ run'[t].call.do # "stop"
  <2>1. CASE Lock(t) /\ run'[t] # run[t]
    <3>1. /\ run'[t].call = run[t].call /\ run[t].call.do # "stop"
          /\ \/ run[t].call.do = "surface" /\ SurfaceLocked(t) /\ (sink.play \/ sink.load)
             \/ run[t].call.do \in {"load", "play"} /\ LoadLocked(t) /\ sink.surface
      BY <1>6, <2>1, LockGoes
    <3>2. run[t].pc = "lock"
      BY <2>1 DEF Lock
    <3>3. CASE run[t].call.do = "surface" /\ SurfaceLocked(t) /\ (sink.play \/ sink.load)
      BY <3>1, <3>3, PlayerIs DEF SurfaceLocked, TypeInv
    <3>4. CASE run[t].call.do \in {"load", "play"} /\ LoadLocked(t) /\ sink.surface
      BY <3>1, <3>2, <3>4, LoadedIs, Apart
    <3> QED
      BY <3>1, <3>3, <3>4
  <2>2. CASE ~(Lock(t) /\ run'[t] # run[t])
    <3>1. run[t].pc \in {"announce", "source"} \/ run'[t] = run[t]
      BY <1>6, <2>2, Moves DEF Announce, InnerPlayFails
    <3>2. run[t].pc \in {"announce", "source", "fail"} /\ run'[t].call = run[t].call
      BY <1>6, <2>2, <3>1, Moves
    <3>3. run[t].pc \in AtWork /\ sink.surface /\ sink.mediaInfo # None /\ run[t].call.do # "stop"
      BY <3>2 DEF AtWork, TypeInv
    <3> QED
      BY <3>2, <3>3, AtWorkAlone, SinkSteps
  <2> QED
    BY <2>1, <2>2
<1> QED
  BY <1>1, <1>2, <1>3, <1>4, <1>5, <1>6, SinkSteps DEF TypeInv, RunTypes, HasItem, AppCalled

-----------------------------------------------------------------------------
(* The loop mode                                                             *)

SetsLoop == \E u \in Threads, mode \in BOOLEAN :
              SetLoopMode(u, mode) /\ run[u].pc = "idle" /\ sink' = sink /\ source' = source

\* The loop mode is set from a command or by the sink's application.
LEMMA LoopActions ==
  ASSUME TypeInv
  PROVE  /\ ProcessActionSetRepeatMode => SetsLoop
         /\ \A mode \in BOOLEAN : AppSetsLoopMode(mode) => SetsLoop
<1>1. ASSUME ProcessActionSetRepeatMode
      PROVE  SetsLoop
  <2>1. Head(toSink) \in Command /\ Head(toSink).do = "loop"
    BY <1>1, QueueTail DEF ProcessActionSetRepeatMode, Takes, TypeInv, StreamTypeOK
  <2>2. Head(toSink).mode \in BOOLEAN
    BY <2>1 DEF Command
  <2> QED
    BY <1>1, <2>2 DEF ProcessActionSetRepeatMode, SetsLoop, Takes, Threads, sourceVars
<1>2. ASSUME NEW mode \in BOOLEAN, AppSetsLoopMode(mode)
      PROVE  SetsLoop
  BY <1>2 DEF AppSetsLoopMode, SetsLoop, AppCalls, Threads, sourceVars
<1> QED
  BY <1>1, <1>2

\* The mutex of the loop mode is taken by who sets it and left by who stores
\* it.
LEMMA LoopMutexSteps ==
  ASSUME TypeInv, StreamNext
  PROVE  \/ SetsLoop
         \/ \E t \in Threads : StoreLoopMode(t)
         \/ /\ UNCHANGED loopMutex /\ \A t \in Threads : run'[t].pc = "loop" <=> run[t].pc = "loop"
            /\ \A t \in Threads : run'[t].pc = "loop" => run'[t] = run[t]
<1>3. ASSUME ~SetsLoop, \A t \in Threads : ~StoreLoopMode(t)
      PROVE  UNCHANGED loopMutex
  <2>1. ~ProcessActionSetRepeatMode /\ \A mode \in BOOLEAN : ~AppSetsLoopMode(mode)
    BY <1>3, LoopActions
  <2> QED
    BY <1>3, <2>1 DEF StreamNext, SourceApp, ControllerLoad, ControllerPlay, ControllerSend, ControllerSetLoopMode,
         SetListener, SwitchToStream, PlayerListenerGetter, Worker, ProcessActionPause, ProcessLocking,
         ProcessActionResume, PlayerGetter, SinkApp, AppPauses, AppLocks,
         CreateStreamPlayer, RegisterListener, Playing, Lock, LoadPlaceholder, Announce,
         InnerPlayFails, InnerPlayLocked, Fail, Telling, SetState, TellState, sinkVars,
         OnPositionChanged, OnError, AutoSyncPosition, PlaybackCompletes, PlaybackBreaks, PositionUpdate
<1>4. ASSUME ~SetsLoop, \A t \in Threads : ~StoreLoopMode(t), NEW t \in Threads, run'[t] # run[t]
      PROVE  run[t].pc # "loop" /\ run'[t].pc # "loop"
  <2>1. ~ProcessActionSetRepeatMode /\ \A mode \in BOOLEAN : ~AppSetsLoopMode(mode)
    BY <1>4, LoopActions
  <2>2. CASE Lock(t)
    <3>1. run[t].pc = "lock"
      BY <2>2 DEF Lock
    <3>2. run'[t].pc \in {"idle", "placeholder", "announce"}
      BY <2>2, LockGoes
    <3> QED
      BY <3>1, <3>2
  <2>3. CASE Announce(t) \/ InnerPlayFails(t) \/ LoadPlaceholder(t) \/ InnerPlayLocked(t) \/ Fail(t)
    <3>1. run[t].pc # "loop"
      BY <2>3 DEF Announce, InnerPlayFails, LoadPlaceholder, InnerPlayLocked, Fail
    <3>2. run[t].pc # "lock" /\ run[t].pc # "idle"
      BY <2>3 DEF Announce, InnerPlayFails, LoadPlaceholder, InnerPlayLocked, Fail
    <3>3. ~Lock(t)
      BY <3>2 DEF Lock
    <3>4. run'[t].pc \in {"source", "fail", "idle"}
      BY <1>4, <3>2, <3>3, Moves
    <3> QED
      BY <3>1, <3>4
  <2>4. CASE run[t].pc = "idle" /\ \A u \in Threads : ~Playing(u)
    <3>1. ProcessLocking \/ \E call \in {Surface, [do |-> "stop"]} : AppLocks(call)
      BY <1>4, <2>1, <2>4, RunMoves
    <3>2. ASSUME NEW u \in Threads, NEW call, run' = [run EXCEPT ![u] = [pc |-> "lock", call |-> call]]
          PROVE  run'[t].pc = "lock"
      BY <1>4, <3>2 DEF TypeInv, StreamTypeOK
    <3> QED
      BY <2>4, <3>1, <3>2 DEF ProcessLocking, AppLocks, Threads
  <2>5. run[t].pc = "idle" => ~Playing(t)
    BY DEF Playing, Lock, LoadPlaceholder, Announce, InnerPlayFails, InnerPlayLocked, Fail, StoreLoopMode
  <2>6. ASSUME NEW u \in Threads, Playing(u), run[t].pc = "idle"
        PROVE  FALSE
    <3>1. u # t
      BY <2>5, <2>6
    <3>2. CASE Lock(u)
      BY <1>4, <3>1, <3>2, LockGoes
    <3>3. CASE Announce(u) \/ InnerPlayFails(u)
      <4>1. PICK pc \in {"source", "fail"} : Goes(u, pc)
        BY <3>3 DEF Announce, InnerPlayFails
      <4>2. run[u].pc \in Locking /\ pc \in Locking
        BY <3>3 DEF Announce, InnerPlayFails, Locking
      <4> QED
        BY <1>4, <3>1, <4>1, <4>2, GoesTo
    <3>4. CASE LoadPlaceholder(u) \/ InnerPlayLocked(u) \/ Fail(u) \/ StoreLoopMode(u)
      BY <1>4, <3>1, <3>4, ReturnsFrom DEF LoadPlaceholder, InnerPlayLocked, Fail, StoreLoopMode
    <3> QED
      BY <2>6, <3>2, <3>3, <3>4 DEF Playing
  <2> QED
    BY <1>4, <2>2, <2>3, <2>4, <2>6, Moves
<1> QED
  BY <1>3, <1>4

\* The player's loop mode is changed only by who sets it.
LEMMA LoopingSteps ==
  ASSUME TypeInv, StreamNext, ~SetsLoop
  PROVE  player'.looping = player.looping
<1>1. ~ProcessActionSetRepeatMode /\ \A mode \in BOOLEAN : ~AppSetsLoopMode(mode)
  BY LoopActions
<1>2. ASSUME NEW s, Becomes(s)
      PROVE  player'.looping = player.looping
  BY <1>2, PlayerIs DEF Becomes, PlayerType
<1>3. CASE SetState \/ OnPositionChanged \/ OnError \/ PositionUpdate
  BY <1>3 DEF SetState, OnPositionChanged, OnError, PositionUpdate
<1>4. ASSUME NEW t \in Threads, InnerPlayFails(t)
      PROVE  player'.looping = player.looping
  BY <1>4, RefusedSteps DEF InnerPlayFails, TypeInv
<1>5. CASE ProcessActionPause \/ ProcessActionResume \/ AppPauses \/ PlaybackCompletes
  BY <1>2, <1>5 DEF ProcessActionPause, ProcessActionResume, AppPauses, PlaybackCompletes, Pause,
     Resume, playerVars
<1>6. CASE UNCHANGED playerVars
  BY <1>6 DEF playerVars
<1> QED
  BY <1>1, <1>3, <1>4, <1>5, <1>6, LockSteps, InnerPlaySteps, BreaksSteps, PlayerMoves

\* Who sets the loop mode goes on with that mode.
LEMMA SetsLoopGoes ==
  ASSUME TypeInv, NEW u \in Threads, NEW mode \in BOOLEAN, SetLoopMode(u, mode)
  PROVE  /\ run'[u].pc = "loop" /\ run'[u].call.mode = mode
         /\ \A t \in Threads : t # u => run'[t] = run[t]
<1>1. run \in [Threads -> Called]
  BY DEF TypeInv, StreamTypeOK
<1>2. run' = [run EXCEPT ![u] = [pc |-> "loop", call |-> [do |-> "loop", mode |-> mode]]]
  BY DEF SetLoopMode
<1>3. run'[u] = [pc |-> "loop", call |-> [do |-> "loop", mode |-> mode]]
      /\ \A t \in Threads : t # u => run'[t] = run[t]
  BY <1>1, <1>2
<1> QED
  BY <1>3

\* While a thread has the mutex of the loop mode, its mode is the player's.
LEMMA LockKept ==
  ASSUME TypeInv, LockInv, StreamNext
  PROVE  LockInv'
<1>1. CASE SetsLoop
  <2>1. PICK u \in Threads, mode \in BOOLEAN : SetLoopMode(u, mode) /\ run[u].pc = "idle" /\ sink' = sink
    BY <1>1 DEF SetsLoop
  <2>2. loopMutex = None /\ loopMutex' = u /\ player'.looping = mode
    BY <2>1, LoopModeSteps DEF SetLoopMode
  <2>3. \A t \in Threads : run[t].pc # "loop"
    BY <2>2, Apart DEF LockInv
  <2> QED
    BY <2>1, <2>2, <2>3, SetsLoopGoes, Apart DEF LockInv
<1>2. ASSUME NEW t \in Threads, StoreLoopMode(t)
      PROVE  LockInv'
  <2>1. run[t].pc = "loop" /\ loopMutex = t /\ loopMutex' = None /\ player' = player /\ Returns(t)
        /\ run[t].call.mode = player.looping
    BY <1>2 DEF StoreLoopMode, LockInv, playerVars
  <2>2. \A u \in Threads : run'[u].pc # "loop"
    <3>1. run'[t] = [pc |-> "idle", call |-> NoCommand] /\ \A u \in Threads : u # t => run'[u] = run[u]
      BY <2>1, ReturnsFrom
    <3>2. run'[t].pc = "idle"
      BY <3>1
    <3> QED
      BY <2>1, <3>1, <3>2 DEF LockInv
  <2>3. sink'.loopMode = player'.looping
    BY <1>2, <2>1, PlayerIs DEF StoreLoopMode
  <2> QED
    BY <2>1, <2>2, <2>3, Apart DEF LockInv
<1>3. CASE ~SetsLoop /\ \A t \in Threads : ~StoreLoopMode(t)
  <2>1. player'.looping = player.looping /\ sink'.loopMode = sink.loopMode
    BY <1>3, LoopingSteps, SinkSteps
  <2>2. /\ UNCHANGED loopMutex /\ \A t \in Threads : run'[t].pc = "loop" <=> run[t].pc = "loop"
        /\ \A t \in Threads : run'[t].pc = "loop" => run'[t] = run[t]
    BY <1>3, LoopMutexSteps
  <2> QED
    BY <2>1, <2>2 DEF LockInv
<1> QED
  BY <1>1, <1>2, <1>3

-----------------------------------------------------------------------------
(* What the source shows                                                     *)

\* Why something is sent to the source.
Sends(c) ==
  \/ c.tells = "position"
  \/ c.tells = "loop" /\ SetsLoop /\ c.mode = player'.looping
  \/ c.tells = "item" /\ c.item = Placeholder /\ \E t \in Threads : LoadPlaceholder(t)
  \/ c.tells = "item" /\ \E t \in Threads : Announce(t)
  \/ c.tells = "error" /\ (OnError \/ \E t \in Threads : Fail(t))
  \/ c.tells = "state" /\ TellState /\ c.state = telling

\* Which callbacks each step sends.
LEMMA ToSourceKinds ==
  ASSUME TypeInv, StreamNext, ~PlayerListenerGetter, toSource' # toSource
  PROVE  \E c \in Callback : toSource' = Append(toSource, c) /\ Sends(c)
<1> DEFINE Step == \E c \in Callback : toSource' = Append(toSource, c) /\ Sends(c)
<1>1. ASSUME NEW c \in Callback, Reported(<<c>>), Sends(c)
      PROVE  Step
  BY <1>1, ReportedOne
<1>2. ASSUME NEW t \in Threads, LoadPlaceholder(t)
      PROVE  Step
  <2> DEFINE c == [tells |-> "item", item |-> Placeholder]
  <2>1. c \in Callback /\ Reported(<<c>>)
    BY <1>2, CallbackKinds DEF LoadPlaceholder, OnMediaItemChanged, Media
  <2>2. Sends(c)
    BY <1>2 DEF Sends
  <2> QED
    BY <1>1, <2>1, <2>2
<1>3. ASSUME NEW t \in Threads, Announce(t)
      PROVE  Step
  <2> DEFINE c == [tells |-> "item", item |-> sink.mediaInfo]
  <2>1. sink.mediaInfo \in Media
    BY <1>3 DEF Announce, TypeInv, StreamTypeOK
  <2>2. c \in Callback /\ Reported(<<c>>)
    BY <1>3, <2>1, CallbackKinds DEF Announce, OnMediaItemChanged
  <2>3. Sends(c)
    BY <1>3 DEF Sends
  <2> QED
    BY <1>1, <2>2, <2>3
<1>4. ASSUME OnError \/ \E t \in Threads : Fail(t)
      PROVE  Step
  <2> DEFINE c == [tells |-> "error"]
  <2>1. c \in Callback /\ Reported(<<c>>)
    BY <1>4, CallbackKinds DEF OnError, Fail, OnPlayerError
  <2>2. Sends(c)
    BY <1>4 DEF Sends
  <2> QED
    BY <1>1, <2>1, <2>2
<1>5. ASSUME SetsLoop
      PROVE  Step
  <2>1. PICK u \in Threads, mode \in BOOLEAN : SetLoopMode(u, mode)
    BY <1>5 DEF SetsLoop
  <2> DEFINE c == [tells |-> "loop", mode |-> mode]
  <2>2. c \in Callback /\ Reported(<<c>>)
    BY <2>1, CallbackKinds DEF SetLoopMode, OnLoopModeChanged
  <2>3. Sends(c)
    BY <1>5, <2>1, LoopModeSteps DEF Sends
  <2> QED
    BY <1>1, <2>2, <2>3
<1>6. ASSUME TellState
      PROVE  Step
  <2> DEFINE c == [tells |-> "state", state |-> telling]
  <2>1. telling \in PlayerStates
    BY <1>6 DEF TellState, TypeInv, StreamTypeOK
  <2>2. c \in Callback /\ Reported(<<c>>)
    BY <1>6, <2>1, CallbackKinds DEF TellState, OnStateChanged
  <2>3. Sends(c)
    BY <1>6 DEF Sends
  <2> QED
    BY <1>1, <2>2, <2>3
<1>7. ASSUME OnPositionChanged \/ AutoSyncPosition
      PROVE  Step
  <2>1. ASSUME NEW item \in Media, toSource' = Append(toSource, [tells |-> "position", item |-> item])
        PROVE  Step
    BY <2>1, CallbackKinds DEF Sends
  <2>2. CASE OnPositionChanged
    <3>1. Head(events) \in Event /\ Head(events).tells = "position"
      BY <2>2, PlayerIs, QueueTail DEF OnPositionChanged
    <3>2. Head(events).item \in Media
      BY <3>1 DEF Event, Media
    <3> QED
      BY <2>1, <2>2, <3>2 DEF OnPositionChanged
  <2>3. CASE AutoSyncPosition
    <3>1. sink.curPosition \in Media
      BY <2>3, PlayerIs DEF AutoSyncPosition, TypeInv
    <3> QED
      BY <2>1, <2>3, <3>1 DEF AutoSyncPosition
  <2> QED
    BY <1>7, <2>2, <2>3
<1> QED
  BY <1>2, <1>3, <1>4, <1>5, <1>6, <1>7, LoopActions, ToSourceMoves

\* Nothing that is sent is lost, as nothing was missed.
LEMMA MissedStays ==
  ASSUME TypeInv, StreamNext, ~missed'
  PROVE  ~missed /\ (PlayerListenerGetter => source.listener)
<1>1. missed' \in {missed, TRUE, missed \/ ~streaming, missed \/ ~sink.listener, missed \/ ~source.listener}
  BY DEF StreamNext, SourceApp, ControllerLoad, ControllerPlay, ControllerSend, ControllerSetLoopMode,
     SetListener, SwitchToStream, PlayerListenerGetter, Worker, ProcessActionPause, ProcessLocking,
     ProcessActionResume, ProcessActionSetRepeatMode, PlayerGetter, SinkApp, AppPauses, AppLocks,
     AppSetsLoopMode, CreateStreamPlayer, RegisterListener, Playing, Lock, LoadPlaceholder, Announce,
     InnerPlayFails, InnerPlayLocked, Fail, StoreLoopMode, Telling, SetState, TellState,
     OnPositionChanged, OnError, AutoSyncPosition, PlaybackCompletes, PlaybackBreaks, PositionUpdate,
     SendControlAction, NotifyPeerLoad, NotifyPeerPlay, NotifyPeer, NotifyPeerSetRepeatMode, Reported,
     OnMediaItemChanged, OnPlayerError, OnLoopModeChanged, SetLoopMode, OnStateChanged
<1>2. missed \in BOOLEAN
  BY DEF TypeInv, StreamTypeOK
<1> QED
  BY <1>1, <1>2 DEF PlayerListenerGetter

\* And that it sends them, where none is missed.
LEMMA Sent ==
  ASSUME TypeInv, StreamNext, ~missed'
  PROVE  /\ TellState => toSource' = Append(toSource, [tells |-> "state", state |-> telling])
         /\ OnError \/ (\E t \in Threads : Fail(t)) => toSource' = Append(toSource, [tells |-> "error"])
         /\ \A u \in Threads, mode \in BOOLEAN : SetLoopMode(u, mode) =>
              toSource' = Append(toSource, [tells |-> "loop", mode |-> mode])
         /\ (\E t \in Threads : LoadPlaceholder(t)) =>
              toSource' = Append(toSource, [tells |-> "item", item |-> Placeholder])
         /\ PlayerListenerGetter => source' = Told(Head(toSource))
<1>1. TellState => telling \in PlayerStates
  BY DEF TellState, TypeInv, StreamTypeOK
<1>2. TellState => toSource' = Append(toSource, [tells |-> "state", state |-> telling])
  BY <1>1, CallbackKinds, ReportedOne DEF TellState, OnStateChanged
<1>3. OnError \/ (\E t \in Threads : Fail(t)) => toSource' = Append(toSource, [tells |-> "error"])
  BY CallbackKinds, ReportedOne DEF OnError, Fail, OnPlayerError
<1>4. \A u \in Threads, mode \in BOOLEAN : SetLoopMode(u, mode) =>
              toSource' = Append(toSource, [tells |-> "loop", mode |-> mode])
  BY CallbackKinds, ReportedOne DEF SetLoopMode, OnLoopModeChanged
<1>5. (\E t \in Threads : LoadPlaceholder(t)) =>
        toSource' = Append(toSource, [tells |-> "item", item |-> Placeholder])
  BY CallbackKinds, ReportedOne DEF LoadPlaceholder, OnMediaItemChanged, Media
<1>6. PlayerListenerGetter => source' = Told(Head(toSource))
  BY MissedStays DEF PlayerListenerGetter
<1> QED
  BY <1>2, <1>3, <1>4, <1>5, <1>6

\* What the source makes of it.
LEMMA ToldIs ==
  ASSUME TypeInv, NEW c \in Callback
  PROVE  LET s == Told(c)
         IN  /\ s.loop = IF c.tells = "loop" THEN c.mode ELSE source.loop
             /\ s.listener = source.listener
             /\ c.tells = "state" => s.state = c.state /\ (s.timer <=> s.state = "STARTED")
             /\ c.tells # "item" => s.item = source.item /\ (source.error => s.error)
             /\ c.tells = "item" => s.item = c.item
             /\ c.tells \notin {"item", "state"} => s.state = source.state
             /\ c.tells \in {"error", "loop"} => s.timer = source.timer
             /\ c.tells = "position" => s.timer = (source.timer \/ source.state = "STARTED")
             /\ c.tells \notin {"item", "error"} => s.error = source.error
             /\ c.tells = "error" => s.error
<1>0. source \in SourceType
  BY DEF TypeInv, StreamTypeOK, SourceType
<1>1. CASE c.tells = "state"
  BY <1>0, <1>1 DEF Told, PlayerStatusChanged, SourceType
<1>2. CASE c.tells = "position"
  BY <1>0, <1>2 DEF Told, PositionChanged, SourceType
<1>3. CASE c.tells = "item"
  BY <1>0, <1>3 DEF Told, MediaItemChanged, SourceType
<1>4. CASE c.tells = "error"
  BY <1>0, <1>4 DEF Told, PlayerError, SourceType
<1>5. CASE c.tells = "loop"
  BY <1>0, <1>5 DEF Told, RepeatModeChanged, SourceType
<1> QED
  BY <1>1, <1>2, <1>3, <1>4, <1>5 DEF Callback

\* The source changes by what it is told only, but for the position and the listener.
LEMMA SourceKept ==
  ASSUME TypeInv, StreamNext, ~PlayerListenerGetter
  PROVE  /\ source'.loop = source.loop /\ source'.state = source.state /\ source'.item = source.item
         /\ source'.error = source.error /\ source'.timer = source.timer
<1>0. source \in SourceType
  BY DEF TypeInv, StreamTypeOK, SourceType
<1>1. CASE source' = Forget(source)
  BY <1>0, <1>1 DEF Forget, SourceType
<1>2. CASE \E there \in BOOLEAN : source' = [source EXCEPT !.listener = there]
  BY <1>0, <1>2 DEF SourceType
<1> QED
  BY <1>1, <1>2, SourceSteps

\* The last loop mode on its way to the source is the player's.
LEMMA LoopKept ==
  ASSUME TypeInv, LoopInv, StreamNext, ~missed'
  PROVE  LoopInv'
<1>0. toSource \in Seq(Callback) /\ LoopCalls' = LoopCalls
      /\ (ThatMode)' = {c \in LoopCalls : c.mode = player'.looping}
  BY DEF TypeInv, StreamTypeOK, LoopCalls, ThatMode
<1>1. CASE PlayerListenerGetter
  <2>1. toSource # <<>> /\ toSource' = Tail(toSource) /\ player' = player
        /\ source' = Told(Head(toSource)) /\ Head(toSource) \in Callback
    BY <1>0, <1>1, Sent, QueueTail DEF PlayerListenerGetter, playerVars
  <2>2. source'.loop = IF Head(toSource).tells = "loop" THEN Head(toSource).mode ELSE source.loop
    BY <2>1, ToldIs
  <2>3. /\ Lacks(toSource, LoopCalls) <=> Head(toSource) \notin LoopCalls /\ Lacks(toSource', LoopCalls)
        /\ LastIn(toSource', LoopCalls, ThatMode)
        /\ Lacks(toSource', LoopCalls) /\ Head(toSource) \in LoopCalls => Head(toSource) \in ThatMode
    BY <1>0, <2>1, QueueTail DEF LoopInv
  <2>4. Head(toSource) \in LoopCalls <=> Head(toSource).tells = "loop"
    BY <2>1 DEF LoopCalls
  <2>5. Head(toSource) \in ThatMode => Head(toSource).mode = player.looping
    BY DEF ThatMode
  <2>6. Lacks(toSource', LoopCalls) => source'.loop = player'.looping
    BY <2>1, <2>2, <2>3, <2>4, <2>5 DEF LoopInv
  <2>7. ThatMode' = ThatMode
    BY <1>0, <2>1 DEF ThatMode
  <2> QED
    BY <1>0, <2>3, <2>6, <2>7 DEF LoopInv
<1>2. CASE SetsLoop /\ ~PlayerListenerGetter
  <2>1. PICK u \in Threads, mode \in BOOLEAN : SetLoopMode(u, mode)
    BY <1>2 DEF SetsLoop
  <2> DEFINE c == [tells |-> "loop", mode |-> mode]
  <2>2. c \in Callback /\ toSource' = Append(toSource, c) /\ player'.looping = mode
    BY <2>1, Sent, CallbackKinds, LoopModeSteps
  <2>3. c \in LoopCalls /\ c \in ThatMode'
    BY <1>0, <2>2 DEF LoopCalls
  <2> HIDE DEF c
  <2>4. LastIn(toSource', LoopCalls, ThatMode') /\ ~Lacks(toSource', LoopCalls)
    BY <1>0, <2>2, <2>3, LastAppend, LacksAppend
  <2> QED
    BY <1>0, <2>4 DEF LoopInv
<1>3. CASE ~SetsLoop /\ ~PlayerListenerGetter
  <2>1. player'.looping = player.looping /\ source'.loop = source.loop
    BY <1>3, LoopingSteps, SourceKept
  <2>2. ThatMode' = ThatMode
    BY <1>0, <2>1 DEF ThatMode
  <2>3. CASE toSource' = toSource
    BY <1>0, <2>1, <2>2, <2>3 DEF LoopInv
  <2>4. CASE toSource' # toSource
    <3>1. PICK c \in Callback : toSource' = Append(toSource, c) /\ Sends(c)
      BY <1>3, <2>4, ToSourceKinds
    <3>2. c \notin LoopCalls
      BY <1>3, <3>1 DEF Sends, LoopCalls
    <3>3. LastIn(toSource', LoopCalls, ThatMode)
          /\ (Lacks(toSource', LoopCalls) <=> Lacks(toSource, LoopCalls))
      BY <1>0, <3>1, <3>2, LastAppend, LacksAppend DEF LoopInv
    <3> QED
      BY <1>0, <2>1, <2>2, <3>3 DEF LoopInv
  <2> QED
    BY <2>3, <2>4
<1> QED
  BY <1>1, <1>2, <1>3

Shown == \/ source.error \/ source.item = Placeholder
         \/ source.state = sink.state /\ (source.timer <=> source.state = "STARTED")

\* A state that was set is told before the next.
LEMMA TellingSteps ==
  ASSUME TypeInv, StreamNext, telling' = None
  PROVE  ~SetState /\ (~TellState => telling = None)
<1>1. ASSUME SetState
      PROVE  FALSE
  <2>1. Head(events) \in Event /\ Head(events).tells = "state"
    BY <1>1, PlayerIs, QueueTail DEF SetState
  <2>2. Head(events).state \in PlayerStates
    BY <2>1 DEF Event
  <2> QED
    BY <1>1, <2>2, Apart DEF SetState
<1>2. ASSUME ~SetState, ~TellState
      PROVE  telling' = telling
  BY <1>2 DEF StreamNext, SourceApp, ControllerLoad, ControllerPlay, ControllerSend, ControllerSetLoopMode,
     SetListener, SwitchToStream, PlayerListenerGetter, Worker, ProcessActionPause, ProcessLocking,
     ProcessActionResume, ProcessActionSetRepeatMode, PlayerGetter, SinkApp, AppPauses, AppLocks,
     AppSetsLoopMode, CreateStreamPlayer, RegisterListener, Playing, Lock, LoadPlaceholder, Announce,
     InnerPlayFails, InnerPlayLocked, Fail, StoreLoopMode, Telling,
     OnPositionChanged, OnError, AutoSyncPosition, PlaybackCompletes, PlaybackBreaks, PositionUpdate
<1> QED
  BY <1>1, <1>2

\* A state event that is outstanding stays so, but where it is told.
LEMMA StateEventsStay ==
  ASSUME TypeInv, EventInv, StreamNext, ~SetState, Lacks(events', StateEvents)
  PROVE  /\ Lacks(events, StateEvents) /\ player'.state = player.state
         /\ \A t \in Threads : ~InnerPlayLocked(t)
<1> DEFINE Kept == Lacks(events, StateEvents) /\ player'.state = player.state
<1>1. ASSUME UNCHANGED playerVars
      PROVE  Kept
  BY <1>1 DEF playerVars
<1>2. ASSUME OnPositionChanged \/ OnError
      PROVE  Kept
  <2>1. Head(events) \notin StateEvents /\ events # <<>> /\ events' = Tail(events)
    BY <1>2, EventTaken DEF OnPositionChanged, OnError
  <2> QED
    BY <1>2, <2>1, QueueTail, PlayerIs DEF OnPositionChanged, OnError
<1>3. ASSUME EventStep
      PROVE  Kept
  <2>1. PICK r : events' = events \o r /\ Tells(r, player'.state)
    BY <1>3 DEF EventStep
  <2>2. Lacks(events, StateEvents) /\ Lacks(r, StateEvents)
    BY <2>1, QueueConcat, PlayerIs DEF Tells
  <2> QED
    BY <2>1, <2>2 DEF Tells
<1>4. ASSUME NEW t \in Threads, InnerPlayLocked(t)
      PROVE  FALSE
  <2>1. EventStep /\ player'.state \in {"PREPARED", "STARTED"}
    BY <1>4, InnerPlaySteps
  <2>2. player.state = "IDLE"
    BY <1>4 DEF InnerPlayLocked, CanSetSource
  <2> QED
    BY <1>3, <2>1, <2>2
<1> QED
  BY <1>1, <1>2, <1>3, <1>4, EventSteps

\* A thread at the player leaves it with an error or with the item playing.
LEMMA TryingStays ==
  ASSUME TypeInv, StreamNext, Trying, ~Trying'
  PROVE  \E t \in Threads : Fail(t) \/ InnerPlayLocked(t)
<1>1. PICK t \in Threads : run[t].pc \in {"source", "fail"}
  BY DEF Trying
<1>2. run'[t] # run[t]
  BY <1>1 DEF Trying
<1>3. ~Lock(t) /\ ~Announce(t) /\ ~LoadPlaceholder(t) /\ ~StoreLoopMode(t)
  BY <1>1 DEF Lock, Announce, LoadPlaceholder, StoreLoopMode
<1>4. run'[t].pc # "fail"
  BY DEF Trying
<1> QED
  BY <1>1, <1>2, <1>3, <1>4, Moves

\* A callback that tells the last of the state is what the source shows.
LEMMA ShownTold ==
  ASSUME TypeInv, NEW c \in Callback,
         c \in Showing => c \in Shows,
         c \notin Showing => Shown, source' = Told(c), sink' = sink
  PROVE  Shown'
<1> DEFINE s == Told(c)
<1>1. CASE c \in Showing
  <2>1. CASE c.tells = "state" /\ c.state = sink.state
    BY <2>1, ToldIs DEF Shown
  <2>2. CASE c.tells = "error"
    BY <2>2, ToldIs DEF Shown
  <2>3. CASE c.tells = "item" /\ c.item = Placeholder
    BY <2>3, ToldIs DEF Shown
  <2> QED
    BY <1>1, <2>1, <2>2, <2>3 DEF Shows
<1>2. CASE c \notin Showing
  <2>1. c.tells \in {"position", "loop"}
    BY <1>2 DEF Showing, Callback
  <2>2. s.state = source.state /\ s.item = source.item /\ s.error = source.error
        /\ s.timer \in {source.timer, source.timer \/ source.state = "STARTED"}
    BY <2>1, ToldIs
  <2>3. source \in SourceType
    BY DEF TypeInv, StreamTypeOK, SourceType
  <2> HIDE DEF s
  <2>4. source' = s /\ Shown
    BY <1>2 DEF s
  <2> QED
    BY <2>2, <2>3, <2>4 DEF Shown, SourceType
<1> QED
  BY <1>1, <1>2

\* The last state, item or error on its way to the source is the sink's.
LEMMA ShownKept ==
  ASSUME TypeInv, EventInv, ShownInv, StreamNext, ~missed'
  PROVE  ShownInv'
<1> SUFFICES ASSUME telling' = None, Lacks(events', StateEvents), ~Trying'
             PROVE  LastIn(toSource', Showing, Shows') /\ (Lacks(toSource', Showing) => Shown')
  BY DEF ShownInv, Shown, Showing, StateEvents
<1>0. toSource \in Seq(Callback) /\ ~SetState
  BY TellingSteps DEF TypeInv, StreamTypeOK
<1>1. sink'.state = sink.state /\ Lacks(events, StateEvents) /\ \A t \in Threads : ~InnerPlayLocked(t)
  BY <1>0, SinkSteps, StateEventsStay
<1>2. Shows' = Shows
  BY <1>1 DEF Shows, Showing
<1> DEFINE Before == LastIn(toSource, Showing, Shows) /\ (Lacks(toSource, Showing) => Shown)
<1>3. ~TellState /\ (\A t \in Threads : ~Fail(t)) => Before
  BY <1>1, TellingSteps, TryingStays DEF ShownInv, Shown
<1>4. ASSUME NEW c \in Callback, c \in Shows, toSource' = Append(toSource, c)
      PROVE  LastIn(toSource', Showing, Shows') /\ ~Lacks(toSource', Showing)
  <2>1. c \in Showing
    BY <1>4 DEF Shows
  <2> QED
    BY <1>0, <1>2, <1>4, <2>1, LastAppend, LacksAppend
<1>5. CASE PlayerListenerGetter
  <2>1. toSource # <<>> /\ toSource' = Tail(toSource) /\ sink' = sink
        /\ source' = Told(Head(toSource)) /\ Head(toSource) \in Callback
    BY <1>0, <1>5, Sent, QueueTail DEF PlayerListenerGetter, sinkVars
  <2>2. Before
    <3>1. telling = None /\ run' = run
      BY <1>5 DEF PlayerListenerGetter, sinkVars
    <3>2. ~Trying
      BY <3>1 DEF Trying
    <3> QED
      BY <1>1, <3>1, <3>2 DEF ShownInv, Shown
  <2>3. /\ Lacks(toSource, Showing) <=> Head(toSource) \notin Showing /\ Lacks(toSource', Showing)
        /\ LastIn(toSource', Showing, Shows)
        /\ Lacks(toSource', Showing) /\ Head(toSource) \in Showing => Head(toSource) \in Shows
    BY <1>0, <2>1, <2>2, QueueTail
  <2>4. ASSUME Lacks(toSource', Showing)
        PROVE  Shown'
    <3> DEFINE c == Head(toSource)
    <3>1. /\ c \in Callback /\ (c \in Showing => c \in Shows) /\ (c \notin Showing => Shown)
          /\ source' = Told(c) /\ sink' = sink
      BY <2>1, <2>2, <2>3, <2>4
    <3> HIDE DEF c
    <3> QED
      BY <3>1, ShownTold
  <2> QED
    BY <1>2, <2>3, <2>4
<1>6. CASE TellState
  <2> DEFINE c == [tells |-> "state", state |-> telling]
  <2>1. telling \in PlayerStates /\ telling = sink.state
    BY <1>6 DEF TellState, TypeInv, StreamTypeOK
  <2>2. c \in Shows /\ c \in Callback /\ toSource' = Append(toSource, c)
    BY <1>6, <2>1, Sent, CallbackKinds DEF Shows, Showing
  <2> QED
    BY <1>4, <2>2
<1>7. CASE OnError \/ \E t \in Threads : Fail(t)
  <2> DEFINE c == [tells |-> "error"]
  <2>1. c \in Shows /\ c \in Callback /\ toSource' = Append(toSource, c)
    BY <1>7, Sent, CallbackKinds DEF Shows, Showing
  <2> QED
    BY <1>4, <2>1
<1>8. CASE ~PlayerListenerGetter /\ ~TellState /\ ~OnError /\ \A t \in Threads : ~Fail(t)
  <2>1. Before /\ Shown' = Shown
    BY <1>1, <1>3, <1>8, SourceKept DEF Shown
  <2>2. CASE toSource' = toSource
    BY <1>2, <2>1, <2>2
  <2>3. ASSUME NEW c \in Callback, toSource' = Append(toSource, c), c \notin Showing
        PROVE  LastIn(toSource', Showing, Shows') /\ (Lacks(toSource', Showing) => Shown')
    BY <1>0, <1>2, <2>1, <2>3, LastAppend, LacksAppend
  <2>4. CASE toSource' # toSource
    <3>1. PICK c \in Callback : toSource' = Append(toSource, c) /\ Sends(c)
      BY <1>8, <2>4, ToSourceKinds
    <3>2. ASSUME NEW t \in Threads, Announce(t)
          PROVE  FALSE
      <4>1. run[t].pc \in Locking /\ Goes(t, "source") /\ "source" \in Locking
        BY <3>2 DEF Announce, Locking
      <4>2. run'[t].pc = "source"
        BY <4>1, GoesTo
      <4> QED
        BY <4>2 DEF Trying
    <3>3. CASE c.tells \in {"position", "loop"}
      BY <2>3, <3>1, <3>3 DEF Showing
    <3>4. CASE c.tells = "item" /\ c.item = Placeholder
      BY <1>4, <3>1, <3>4 DEF Shows, Showing
    <3> QED
      BY <1>8, <3>1, <3>2, <3>3, <3>4 DEF Sends
  <2> QED
    BY <2>2, <2>4
<1> QED
  BY <1>5, <1>6, <1>7, <1>8

-----------------------------------------------------------------------------
(* What the flags say is in the player                                       *)

\* Only a call that locks makes the player idle.
LEMMA PlayerIdle ==
  ASSUME TypeInv, EventInv, StreamNext, \A t \in Threads : ~Lock(t)
  PROVE  player'.state = "IDLE" => player.state = "IDLE" /\ player'.item = player.item
<1> SUFFICES ASSUME player'.state = "IDLE" PROVE player.state = "IDLE" /\ player'.item = player.item
  OBVIOUS
<1>1. ASSUME NEW s, Becomes(s)
      PROVE  player'.state = s
  BY <1>1, PlayerIs DEF Becomes, PlayerType
<1>2. ~(\E t \in Threads : InnerPlayFails(t) \/ InnerPlayLocked(t))
  <2>1. \A t \in Threads : ~InnerPlayFails(t)
    BY RefusedSteps DEF InnerPlayFails, TypeInv
  <2>2. \A t \in Threads : ~InnerPlayLocked(t)
    BY InnerPlaySteps
  <2> QED
    BY <2>1, <2>2
<1>3. CASE ProcessActionPause \/ ProcessActionResume \/ AppPauses
  BY <1>1, <1>3 DEF ProcessActionPause, ProcessActionResume, AppPauses, Pause, Resume, playerVars
<1>4. ~PlaybackCompletes /\ ~PlaybackBreaks
  BY <1>1, BreaksSteps DEF PlaybackCompletes
<1>5. CASE SetsLoop
  <2>1. PICK u \in Threads, mode \in BOOLEAN : SetLoopMode(u, mode)
    BY <1>5 DEF SetsLoop
  <2> QED
    BY <2>1, LoopModeSteps
<1>6. CASE SetState \/ OnPositionChanged \/ OnError \/ PositionUpdate \/ UNCHANGED playerVars
  BY <1>6 DEF SetState, OnPositionChanged, OnError, PositionUpdate, playerVars
<1> QED
  BY <1>2, <1>3, <1>4, <1>5, <1>6, LoopActions, PlayerMoves

\* The flags of the sink's player say what the media player has.
LEMMA FlagKept ==
  ASSUME TypeInv, EventInv, FlagInv, StreamNext
  PROVE  FlagInv'
<1> SUFFICES ASSUME sink'.surface, sink'.load \/ sink'.play, player'.state = "IDLE"
             PROVE  \E t \in Threads : run'[t].pc \in {"announce", "source"} /\ run'[t].call.do = "surface"
  BY DEF FlagInv
<1>1. ASSUME NEW t \in Threads, Lock(t)
      PROVE  run'[t].pc = "announce" /\ run'[t].call.do = "surface"
  <2>1. \A u \in Threads : run[u].pc \notin {"announce", "source"}
    BY <1>1, LockGoes DEF AtWork
  <2>2. run[t].pc = "lock" /\ run[t].pc \in Locking
    BY <1>1 DEF Lock, Locking
  <2>3. CASE run[t].call.do \in {"load", "play"} /\ LoadLocked(t)
    <3>1. sink.surface
      BY <2>2, <2>3, LoadedIs
    <3>2. ~IsNeededToReset /\ sink.load = sink'.load /\ sink.play = sink'.play /\ player' = player
      BY <2>3, <3>1, PlayerIs DEF LoadLocked
    <3> QED
      BY <2>1, <3>1, <3>2 DEF FlagInv
  <2>4. CASE run[t].call.do = "surface" /\ SurfaceLocked(t)
    <3>1. sink'.load = sink.load /\ sink'.play = sink.play
      BY <2>4, PlayerIs DEF SurfaceLocked
    <3>2. Goes(t, "announce") /\ "announce" \in Locking
      BY <2>4, <3>1 DEF SurfaceLocked, Locking
    <3> QED
      BY <2>2, <2>4, <3>2, GoesTo
  <2>5. CASE StopLocked(t)
    BY <2>5, PlayerIs DEF StopLocked
  <2> QED
    BY <1>1, <2>3, <2>4, <2>5 DEF Lock
<1>2. CASE \A t \in Threads : ~Lock(t)
  <2>1. player.state = "IDLE" /\ sink.surface
    BY <1>2, PlayerIdle, SinkSteps
  <2>2. \A t \in Threads : ~InnerPlayLocked(t) /\ ~InnerPlayFails(t)
    BY RefusedSteps, InnerPlaySteps DEF InnerPlayFails, TypeInv
  <2>3. sink.load \/ sink.play
    BY <1>2, <2>2, SinkSteps
  <2>4. PICK t \in Threads : run[t].pc \in {"announce", "source"} /\ run[t].call.do = "surface"
    BY <2>1, <2>3 DEF FlagInv
  <2>5. CASE run'[t] = run[t]
    BY <2>4, <2>5
  <2>6. CASE run'[t] # run[t]
    <3>1. ~LoadPlaceholder(t) /\ ~Fail(t) /\ ~StoreLoopMode(t) /\ run[t].pc # "idle"
      BY <2>4 DEF LoadPlaceholder, Fail, StoreLoopMode
    <3>2. run'[t].pc = "source" /\ run'[t].call = run[t].call
      BY <1>2, <2>2, <2>6, <3>1, Moves
    <3> QED
      BY <2>4, <3>2
  <2> QED
    BY <2>5, <2>6
<1> QED
  BY <1>1, <1>2

-----------------------------------------------------------------------------
(* What was asked for                                                        *)

\* An error that is told is shown, or will be.
LEMMA ErrorTold ==
  ASSUME TypeInv, StreamNext, ~missed', OnError \/ \E t \in Threads : Fail(t)
  PROVE  ErrorShown'
<1> DEFINE c == [tells |-> "error"]
<1>1. toSource' = Append(toSource, c) /\ c \in Callback /\ c \in ItemOrError /\ c \in AnError
  BY Sent, CallbackKinds DEF ItemOrError, AnError
<1>2. toSource \in Seq(Callback) /\ ItemOrError' = ItemOrError /\ AnError' = AnError
  BY DEF TypeInv, StreamTypeOK, ItemOrError, AnError
<1> HIDE DEF c
<1>3. LastIn(toSource', ItemOrError, AnError) /\ ~Lacks(toSource', ItemOrError)
  BY <1>1, <1>2, LastAppend, LacksAppend
<1> QED
  BY <1>2, <1>3 DEF ErrorShown

\* And stays, until an item is told.
LEMMA ErrorStays ==
  ASSUME TypeInv, StreamNext, ~missed', ErrorShown, \A t \in Threads : ~Announce(t) /\ ~LoadPlaceholder(t)
  PROVE  ErrorShown'
<1>0. toSource \in Seq(Callback) /\ ItemOrError' = ItemOrError /\ AnError' = AnError
  BY DEF TypeInv, StreamTypeOK, ItemOrError, AnError
<1>1. CASE PlayerListenerGetter
  <2> DEFINE c == Head(toSource)
  <2>1. toSource # <<>> /\ toSource' = Tail(toSource) /\ source' = Told(c)
    BY <1>1, Sent DEF PlayerListenerGetter
  <2>2. /\ c \in Callback
        /\ Lacks(toSource, ItemOrError) <=> c \notin ItemOrError /\ Lacks(toSource', ItemOrError)
        /\ LastIn(toSource', ItemOrError, AnError)
        /\ Lacks(toSource', ItemOrError) /\ c \in ItemOrError => c \in AnError
    BY <1>0, <2>1, QueueTail DEF ErrorShown
  <2> HIDE DEF c
  <2>3. c \in AnError => source'.error
    BY <2>1, <2>2, ToldIs DEF AnError
  <2>4. c \notin ItemOrError /\ source.error => source'.error
    BY <2>1, <2>2, ToldIs DEF ItemOrError
  <2>5. Lacks(toSource', ItemOrError) => source'.error
    BY <2>2, <2>3, <2>4 DEF ErrorShown
  <2> QED
    BY <1>0, <2>2, <2>5 DEF ErrorShown
<1>2. CASE ~PlayerListenerGetter /\ toSource' = toSource
  BY <1>0, <1>2, SourceKept DEF ErrorShown
<1>3. CASE ~PlayerListenerGetter /\ toSource' # toSource
  <2>1. PICK c \in Callback : toSource' = Append(toSource, c) /\ Sends(c)
    BY <1>3, ToSourceKinds
  <2>2. CASE OnError \/ \E t \in Threads : Fail(t)
    BY <2>2, ErrorTold
  <2>3. CASE ~(OnError \/ \E t \in Threads : Fail(t))
    <3>1. c \notin ItemOrError
      BY <2>1, <2>3 DEF Sends, ItemOrError
    <3>2. LastIn(toSource', ItemOrError, AnError)
          /\ (Lacks(toSource', ItemOrError) <=> Lacks(toSource, ItemOrError))
      BY <1>0, <2>1, <3>1, LastAppend, LacksAppend DEF ErrorShown
    <3> QED
      BY <1>0, <1>3, <3>2, SourceKept DEF ErrorShown
  <2> QED
    BY <2>2, <2>3
<1> QED
  BY <1>1, <1>2, <1>3

\* An error the player told is there until OnError takes it.
LEMMA ErrorEventsStay ==
  ASSUME TypeInv, EventInv, StreamNext, ~Lacks(events, ErrorEvents), ~OnError
  PROVE  ~Lacks(events', ErrorEvents)
<1>1. CASE UNCHANGED playerVars
  BY <1>1 DEF playerVars
<1>2. CASE SetState \/ OnPositionChanged
  <2>1. events # <<>> /\ events' = Tail(events) /\ Head(events).tells # "error"
    BY <1>2 DEF SetState, OnPositionChanged
  <2>2. Head(events) \notin ErrorEvents
    BY <2>1 DEF ErrorEvents
  <2> QED
    BY <2>1, <2>2, QueueTail, PlayerIs
<1>3. CASE EventStep
  <2>1. PICK r : events' = events \o r /\ Tells(r, player'.state)
    BY <1>3 DEF EventStep
  <2> QED
    BY <2>1, QueueConcat, PlayerIs DEF Tells
<1> QED
  BY <1>1, <1>2, <1>3, EventSteps

\* The commands that decide, when less is asked for and none of those comes or goes.
Weaker ==
  /\ asked.item \in Items /\ asked'.item = asked.item
  /\ asked'.play => asked.play

QueueStays ==
  \/ toSink' = toSink
  \/ \E c \in Command : c \notin Deciding' /\ toSink' = Append(toSink, c)
  \/ toSink # <<>> /\ Head(toSink) \notin Deciding /\ toSink' = Tail(toSink)

\* What is asked for last stays the last that decides.
LEMMA QueueKept ==
  ASSUME TypeInv, LastIn(toSink, Deciding, Asking), Weaker, QueueStays
  PROVE  /\ LastIn(toSink', Deciding', Asking')
         /\ Lacks(toSink', Deciding') => Lacks(toSink, Deciding)
         /\ Asking \subseteq Asking'
<1>0. toSink \in Seq(Command)
  BY DEF TypeInv, StreamTypeOK
<1> DEFINE V == Deciding'  W == Asking'
<1>1. V \subseteq Deciding /\ Asking \subseteq V /\ Asking \subseteq W
  BY DEF Weaker, Deciding, Asking
<1> HIDE DEF V, W
<1>2. LastIn(toSink, V, W) /\ (Lacks(toSink, V) => Lacks(toSink, Deciding))
  BY <1>0, <1>1, LastNarrowed
<1>3. CASE toSink' = toSink
  BY <1>1, <1>2, <1>3 DEF V, W
<1>4. ASSUME NEW c \in Command, c \notin V, toSink' = Append(toSink, c)
      PROVE  LastIn(toSink', V, W) /\ (Lacks(toSink', V) => Lacks(toSink, Deciding))
  BY <1>0, <1>2, <1>4, LastAppend, LacksAppend
<1>5. ASSUME toSink # <<>>, Head(toSink) \notin Deciding, toSink' = Tail(toSink)
      PROVE  LastIn(toSink', V, W) /\ (Lacks(toSink', V) => Lacks(toSink, Deciding))
  <2>1. Head(toSink) \notin V
    BY <1>1, <1>5
  <2> QED
    BY <1>0, <1>2, <1>5, <2>1, QueueTail
<1>6. LastIn(toSink', V, W) /\ (Lacks(toSink', V) => Lacks(toSink, Deciding))
  BY <1>2, <1>3, <1>4, <1>5 DEF QueueStays, V
<1> QED
  BY <1>1, <1>6 DEF V, W

\* What has reached the player, where no thread comes to it or leaves it.
TryingPcs == {"announce", "source", "fail"}

PlayerStays ==
  \/ /\ player'.item = player.item
     /\ player'.state = "IDLE" => player.state = "IDLE"
     /\ asked'.play /\ player.state \in {"STARTED", "PLAYBACK_COMPLETE"} =>
          player'.state \in {"STARTED", "PLAYBACK_COMPLETE"}
  \/ player'.state # "IDLE" /\ ~Lacks(events', ErrorEvents)

\* What was reached stays, where no thread moves at the player and the player
\* stays.
LEMMA ReachedKept ==
  ASSUME TypeInv, EventInv, StreamNext, ~missed', Weaker, Reached, PlayerStays,
         \A t \in Threads : ~Lock(t) /\ ~Announce(t) /\ ~LoadPlaceholder(t) /\ ~InnerPlayFails(t)
                            /\ ~InnerPlayLocked(t) /\ ~Fail(t)
  PROVE  Reached'
<1>1. /\ sink'.mediaInfo = sink.mediaInfo /\ sink'.surface = sink.surface
      /\ sink'.load = sink.load /\ sink'.play = sink.play
  BY SinkSteps
<1>2. ASSUME NEW t \in Threads, run[t].pc \in TryingPcs \/ run'[t].pc \in TryingPcs
      PROVE  run'[t] = run[t]
  <2>1. run'[t] # run[t] => \/ StoreLoopMode(t) /\ run'[t].pc = "idle"
                            \/ run[t].pc = "idle" /\ run'[t].pc \in {"lock", "loop"}
    BY Moves
  <2>2. StoreLoopMode(t) => run[t].pc = "loop"
    BY DEF StoreLoopMode
  <2> QED
    BY <1>2, <2>1, <2>2 DEF TryingPcs
<1>3. ErrorShown => ErrorShown'
  BY ErrorStays
<1>4. ~Lacks(events, ErrorEvents) => ~Lacks(events', ErrorEvents) \/ ErrorShown'
  BY ErrorEventsStay, ErrorTold
<1>5. ErrorEvents' = ErrorEvents
  BY DEF ErrorEvents
<1>6. ASSUME sink.surface, AtPlayer
      PROVE  AtPlayer'
  <2>1. ASSUME NEW t \in Threads, run'[t].pc \in {"announce", "source"}, asked'.play
        PROVE  ~IsLoading(t)' \/ player'.state # "IDLE"
    <3>1. run'[t] = run[t] /\ (~IsLoading(t) \/ player.state # "IDLE")
      BY <1>2, <1>6, <2>1 DEF AtPlayer, Weaker, TryingPcs
    <3>2. IsLoading(t)' = IsLoading(t)
      BY <1>1, <3>1 DEF IsLoading
    <3> QED
      BY <3>1, <3>2 DEF PlayerStays
  <2>2. ASSUME \A t \in Threads : run'[t].pc \notin TryingPcs
        PROVE  \/ ErrorShown'
               \/ ~Lacks(events', ErrorEvents)
               \/ /\ player'.item = asked'.item
                  /\ asked'.play => player'.state \in {"STARTED", "PLAYBACK_COMPLETE"}
    <3>1. \A t \in Threads : run[t].pc \notin TryingPcs
      BY <1>2, <2>2
    <3>2. \/ ErrorShown
          \/ ~Lacks(events, ErrorEvents)
          \/ /\ player.item = asked.item
             /\ asked.play => player.state \in {"STARTED", "PLAYBACK_COMPLETE"}
      BY <1>6, <3>1 DEF AtPlayer, TryingPcs
    <3> QED
      BY <1>3, <1>4, <3>2 DEF PlayerStays, Weaker
  <2> QED
    BY <1>5, <2>1, <2>2 DEF AtPlayer, TryingPcs
<1>7. ASSUME ~sink.surface, sink.play \/ (sink.load /\ ~asked.play)
      PROVE  sink'.play \/ (sink'.load /\ ~asked'.play)
  BY <1>1, <1>7 DEF Weaker
<1> QED
  BY <1>1, <1>6, <1>7 DEF Reached, Weaker

\* And the player stays, but for a pause, a thread at it, or an error it tells.
LEMMA PlayerStaysBy ==
  ASSUME TypeInv, EventInv, StreamNext,
         \A t \in Threads : ~Lock(t) /\ ~InnerPlayFails(t) /\ ~InnerPlayLocked(t),
         ProcessActionPause \/ AppPauses => ~asked'.play
  PROVE  PlayerStays
<1>1. ASSUME NEW s \in PlayerStates, Becomes(s)
      PROVE  player'.state = s /\ player'.item = player.item
  BY <1>1, PlayerIs DEF Becomes, PlayerType
<1>2. {"PAUSED", "STARTED", "PLAYBACK_COMPLETE"} \subseteq PlayerStates
  BY DEF PlayerStates
<1>3. CASE ProcessActionPause \/ AppPauses
  BY <1>1, <1>2, <1>3 DEF ProcessActionPause, AppPauses, Pause, PlayerStays, playerVars
<1>4. CASE ProcessActionResume
  BY <1>1, <1>2, <1>4 DEF ProcessActionResume, Resume, PlayerStays, playerVars
<1>5. CASE PlaybackCompletes
  BY <1>1, <1>2, <1>5 DEF PlaybackCompletes, PlayerStays
<1>6. CASE PlaybackBreaks
  BY <1>6, BreaksSteps DEF PlayerStays
<1>7. ASSUME SetsLoop
      PROVE  PlayerStays
  <2>1. PICK u \in Threads, mode \in BOOLEAN : SetLoopMode(u, mode)
    BY <1>7 DEF SetsLoop
  <2> QED
    BY <2>1, LoopModeSteps DEF PlayerStays
<1>8. CASE SetState \/ OnPositionChanged \/ OnError \/ PositionUpdate \/ UNCHANGED playerVars
  BY <1>8 DEF SetState, OnPositionChanged, OnError, PositionUpdate, playerVars, PlayerStays
<1> QED
  BY <1>3, <1>4, <1>5, <1>6, <1>7, <1>8, LoopActions, PlayerMoves

\* What was asked for is before the worker, in its hands, or at the player.
OnItsWay ==
  /\ LastIn(toSink, Deciding, Asking)
  /\ Lacks(toSink, Deciding) =>
       IF run["worker"].pc = "lock" THEN run["worker"].call \in Asking ELSE Reached

\* A step of one of them changes neither what is asked nor its queue.
LEMMA AtPlayerAsks ==
  ASSUME TypeInv, NEW t \in Threads, Playing(t), asked'.item \in Items
  PROVE  /\ asked' = asked /\ toSink' = toSink /\ Deciding' = Deciding /\ Asking' = Asking
         /\ t = "worker" \/ run'["worker"] = run["worker"]
<1>1. asked' = asked /\ toSink' = toSink
  <2>1. None \notin Items
    BY Apart DEF Media
  <2> QED
    BY <2>1 DEF Playing, Lock, LoadPlaceholder, Announce, InnerPlayFails, InnerPlayLocked, Fail, StoreLoopMode
<1>2. Deciding' = Deciding /\ Asking' = Asking
  BY <1>1 DEF Deciding, Asking
<1>3. ASSUME t # "worker"
      PROVE  run'["worker"] = run["worker"]
  <2>0. "worker" \in Threads
    BY DEF Threads
  <2>1. CASE Lock(t)
    BY <1>3, <2>0, <2>1, LockGoes
  <2>2. CASE Announce(t) \/ InnerPlayFails(t)
    <3>1. PICK pc \in {"source", "fail"} : Goes(t, pc)
      BY <2>2 DEF Announce, InnerPlayFails
    <3>2. run[t].pc \in Locking /\ pc \in Locking
      BY <2>2 DEF Announce, InnerPlayFails, Locking
    <3> QED
      BY <1>3, <2>0, <3>1, <3>2, GoesTo
  <2>3. CASE LoadPlaceholder(t) \/ InnerPlayLocked(t) \/ Fail(t) \/ StoreLoopMode(t)
    BY <1>3, <2>0, <2>3, ReturnsFrom DEF LoadPlaceholder, InnerPlayLocked, Fail, StoreLoopMode
  <2> QED
    BY <2>1, <2>2, <2>3 DEF Playing
<1> QED
  BY <1>1, <1>2, <1>3

\* Of a call that is at the player.
LEMMA AtPlayerKept ==
  ASSUME TypeInv, EventInv, StreamNext, ~missed', asked'.item \in Items, OnItsWay, NEW t \in Threads,
         LoadPlaceholder(t) \/ Announce(t) \/ InnerPlayFails(t) \/ InnerPlayLocked(t) \/ Fail(t)
  PROVE  OnItsWay'
<1>0. /\ asked' = asked /\ toSink' = toSink /\ Deciding' = Deciding /\ Asking' = Asking
      /\ t = "worker" \/ run'["worker"] = run["worker"]
  BY AtPlayerAsks DEF Playing
<1>1. /\ run[t].pc \in AtWork /\ run[t].pc # "lock" /\ run[t].pc # "idle"
      /\ ~Lock(t) /\ ~StoreLoopMode(t)
  BY DEF LoadPlaceholder, Announce, InnerPlayFails, InnerPlayLocked, Fail, Lock, StoreLoopMode, AtWork
<1>2. \A u \in Threads : (run[u].pc \in AtWork => u = t) /\ ~Lock(u)
  BY <1>1, AtWorkAlone
<1>3. sink'.mediaInfo = sink.mediaInfo /\ sink'.surface = sink.surface
  BY <1>2, SinkSteps
<1>4. run'[t] # run[t] => run'[t].pc \in {"source", "fail", "idle"}
  BY <1>1, Moves
<1>5. run'["worker"].pc = "lock" => run'["worker"] = run["worker"]
  BY <1>0, <1>4
<1>6. run["worker"].pc = "lock" => run'["worker"] = run["worker"]
  BY <1>0, <1>1
<1> SUFFICES ASSUME Lacks(toSink, Deciding), run["worker"].pc # "lock", Reached
             PROVE  Reached'
  BY <1>0, <1>5, <1>6 DEF OnItsWay
<1>7. \A u \in Threads : u # t => run'[u].pc \notin AtWork
  <2>1. ASSUME NEW u \in Threads, u # t
        PROVE  run'[u] = run[u]
    <3>1. CASE Announce(t) \/ InnerPlayFails(t)
      <4>1. PICK pc \in {"source", "fail"} : Goes(t, pc)
        BY <3>1 DEF Announce, InnerPlayFails
      <4>2. run[t].pc \in Locking /\ pc \in Locking
        BY <3>1 DEF Announce, InnerPlayFails, Locking
      <4> QED
        BY <2>1, <4>1, <4>2, GoesTo
    <3>2. CASE LoadPlaceholder(t) \/ InnerPlayLocked(t) \/ Fail(t)
      BY <2>1, <3>2, ReturnsFrom DEF LoadPlaceholder, InnerPlayLocked, Fail
    <3> QED
      BY <3>1, <3>2
  <2> QED
    BY <1>2, <2>1
<1>8. CASE LoadPlaceholder(t)
  BY <1>0, <1>8, StreamAssumption DEF LoadPlaceholder, TypeInv, Reached
<1>9. sink.surface \/ LoadPlaceholder(t)
  BY DEF Announce, InnerPlayFails, InnerPlayLocked, Fail, TypeInv
<1>10. CASE sink.surface
  <2> SUFFICES AtPlayer'
    BY <1>0, <1>3, <1>10 DEF Reached
  <2>0. AtPlayer
    BY <1>10 DEF Reached
  <2>1. CASE Announce(t)
    <3>1. Goes(t, "source") /\ run[t].pc \in Locking /\ "source" \in Locking /\ run[t].pc = "announce"
          /\ sink' = sink /\ player' = player
      BY <2>1 DEF Announce, Locking, playerVars
    <3>2. run'[t].pc = "source" /\ run'[t].call = run[t].call
      BY <3>1, GoesTo
    <3>3. IsLoading(t)' = IsLoading(t)
      BY <3>1, <3>2 DEF IsLoading
    <3> QED
      BY <1>0, <1>7, <2>0, <3>1, <3>2, <3>3 DEF AtPlayer, AtWork
  <2>2. CASE InnerPlayFails(t)
    <3>1. Goes(t, "fail") /\ run[t].pc \in Locking /\ "fail" \in Locking
      BY <2>2 DEF InnerPlayFails, Locking
    <3>2. run'[t].pc = "fail"
      BY <3>1, GoesTo
    <3> QED
      BY <1>7, <3>2 DEF AtPlayer, AtWork
  <2>3. CASE InnerPlayLocked(t)
    <3>1. /\ player'.item = sink.mediaInfo
          /\ player'.state = IF IsLoading(t) THEN "PREPARED" ELSE "STARTED"
      BY <2>3, InnerPlaySteps
    <3>2. run[t].pc = "source" /\ player.state = "IDLE"
      BY <2>3 DEF InnerPlayLocked, CanSetSource
    <3>3. asked.play => ~IsLoading(t)
      BY <2>0, <3>2 DEF AtPlayer
    <3>4. run'[t].pc = "idle"
      BY <1>1, <2>3, <3>2, ReturnsFrom DEF InnerPlayLocked
    <3> QED
      BY <1>0, <1>7, <3>1, <3>3, <3>4 DEF AtPlayer, AtWork, Reached
  <2>4. CASE Fail(t)
    <3>1. ErrorShown'
      BY <2>4, ErrorTold
    <3>2. run'[t] = [pc |-> "idle", call |-> NoCommand]
      BY <2>4, ReturnsFrom DEF Fail
    <3>3. run'[t].pc = "idle"
      BY <3>2
    <3> QED
      BY <1>7, <3>1, <3>3 DEF AtPlayer, AtWork
  <2> QED
    BY <1>8, <2>1, <2>2, <2>3, <2>4, StreamAssumption, <1>0 DEF LoadPlaceholder, TypeInv, Reached
<1> QED
  BY <1>8, <1>9, <1>10

\* A call that takes the mutex.
LEMMA LockKeeps ==
  ASSUME TypeInv, FlagInv, StreamNext, asked'.item \in Items, OnItsWay, NEW t \in Threads, Lock(t)
  PROVE  OnItsWay'
<1>0. /\ asked' = asked /\ toSink' = toSink /\ Deciding' = Deciding /\ Asking' = Asking
      /\ t = "worker" \/ run'["worker"] = run["worker"]
  BY AtPlayerAsks DEF Playing
<1>1. run[t].pc = "lock" /\ run[t].call \in LockingCalls /\ run[t].pc \in Locking
  BY CallIs DEF Lock, Locking
<1>2. /\ \A u \in Threads : run[u].pc \notin AtWork
      /\ \A u \in Threads : u # t => run'[u] = run[u]
      /\ \/ run'[t].pc = "idle"
         \/ run'[t].pc \in {"placeholder", "announce"} /\ run'[t].call = run[t].call
  BY LockGoes
<1>3. LastIn(toSink', Deciding', Asking')
  BY <1>0 DEF OnItsWay
<1> SUFFICES ASSUME Lacks(toSink, Deciding), run'["worker"].pc = "lock" => run["worker"].pc # "lock"
             PROVE  Reached'
  BY <1>0, <1>2, <1>3 DEF OnItsWay, Threads
<1>4. CASE t = "worker"
  <2>1. run[t].call \in Asking
    BY <1>1, <1>4 DEF OnItsWay
  <2>2. /\ run[t].call.do = "play" \/ (run[t].call.do = "load" /\ ~asked.play)
        /\ run[t].call.item = asked.item /\ run[t].call.item \in Items
        /\ run[t].call.item # Placeholder
    BY <1>0, <2>1, StreamAssumption DEF Asking
  <2>3. LoadLocked(t) /\ sink'.mediaInfo = asked.item /\ sink'.surface = sink.surface
    BY <1>1, <2>2, LoadedIs DEF Lock
  <2>4. CASE sink.surface
    <3>1. Goes(t, "announce") /\ "announce" \in Locking
      BY <2>2, <2>3, <2>4 DEF LoadLocked, Locking
    <3>2. run'[t].pc = "announce" /\ run'[t].call = run[t].call
      BY <1>1, <3>1, GoesTo
    <3>3. asked.play => ~IsLoading(t)'
      BY <2>2, <3>2 DEF IsLoading
    <3>4. AtPlayer'
      BY <1>0, <1>2, <3>2, <3>3 DEF AtPlayer, AtWork
    <3> QED
      BY <1>0, <2>3, <2>4, <3>4 DEF Reached
  <2>5. CASE ~sink.surface
    <3>1. sink'.load = (run[t].call.do = "load") /\ sink'.play = (run[t].call.do = "play")
      BY <2>3, <2>5, PlayerIs DEF LoadLocked
    <3> QED
      BY <1>0, <2>2, <2>3, <2>5, <3>1 DEF Reached
  <2> QED
    BY <2>4, <2>5
<1>5. CASE t # "worker"
  <2>0. t = "app" /\ run'["worker"] = run["worker"]
    BY <1>0, <1>5 DEF Threads
  <2>1. Reached
    BY <2>0 DEF OnItsWay
  <2>2. run[t].call \in {Surface, [do |-> "stop"]}
    <3>1. run[t].call \in AppCalled
      BY <2>0 DEF TypeInv
    <3> QED
      BY <1>1, <3>1 DEF AppCalled, LockingCalls, NoCommand, Surface
  <2>3. run[t].call.do = "surface" /\ SurfaceLocked(t)
    <3>1. None \notin Items
      BY Apart DEF Media
    <3> QED
      BY <2>0, <2>2, <3>1 DEF Lock, Surface
  <2>4. /\ sink'.surface /\ sink'.mediaInfo = sink.mediaInfo /\ player' = player /\ events' = events
        /\ sink'.load = sink.load /\ sink'.play = sink.play
    BY <2>3, PlayerIs DEF SurfaceLocked, playerVars
  <2>5. asked.play /\ (sink.load \/ sink.play) => sink.play \/ player.state # "IDLE"
    <3>1. CASE sink.surface
      BY <1>2, <3>1 DEF FlagInv, AtWork
    <3>2. CASE ~sink.surface
      BY <2>1, <3>2 DEF Reached
    <3> QED
      BY <3>1, <3>2
  <2>6. CASE sink.play \/ sink.load
    <3>1. Goes(t, "announce") /\ "announce" \in Locking
      BY <2>3, <2>6 DEF SurfaceLocked, Locking
    <3>2. run'[t].pc = "announce" /\ run'[t].call = run[t].call
      BY <1>1, <3>1, GoesTo
    <3>3. IsLoading(t)' <=> ~sink.play
      BY <2>3, <2>4, <3>2 DEF IsLoading
    <3>4. AtPlayer'
      BY <1>0, <1>2, <2>4, <2>5, <2>6, <3>2, <3>3 DEF AtPlayer, AtWork
    <3> QED
      BY <1>0, <2>1, <2>4, <3>4 DEF Reached
  <2>7. CASE ~(sink.play \/ sink.load)
    <3>1. sink.surface /\ AtPlayer
      BY <2>1, <2>7 DEF Reached
    <3>2. Returns(t)
      BY <2>3, <2>7 DEF SurfaceLocked
    <3>3. \A u \in Threads : run'[u].pc \notin TryingPcs
      <4>1. run'[t] = [pc |-> "idle", call |-> NoCommand]
        BY <3>2, ReturnsFrom
      <4>2. run'[t].pc = "idle"
        BY <4>1
      <4> QED
        BY <1>2, <4>2 DEF AtWork, TryingPcs
    <3>4. \A u \in Threads : run[u].pc \notin TryingPcs
      BY <1>2 DEF AtWork, TryingPcs
    <3>5. ErrorShown' <=> ErrorShown
      BY DEF Lock, ErrorShown, ItemOrError, AnError, sourceVars
    <3>6. AtPlayer'
      BY <1>0, <2>4, <3>1, <3>3, <3>4, <3>5 DEF AtPlayer, TryingPcs, ErrorEvents
    <3> QED
      BY <1>0, <2>1, <2>4, <3>6 DEF Reached
  <2> QED
    BY <2>6, <2>7
<1> QED
  BY <1>4, <1>5

\* Every other step.
LEMMA SimpleKept ==
  ASSUME TypeInv, EventInv, StreamNext, ~missed', OnItsWay, Weaker, QueueStays, PlayerStays, ~ProcessLocking,
         \A t \in Threads : ~Lock(t) /\ ~Announce(t) /\ ~LoadPlaceholder(t) /\ ~InnerPlayFails(t)
                            /\ ~InnerPlayLocked(t) /\ ~Fail(t)
  PROVE  OnItsWay'
<1>1. /\ LastIn(toSink', Deciding', Asking')
      /\ Lacks(toSink', Deciding') => Lacks(toSink, Deciding)
      /\ Asking \subseteq Asking'
  BY QueueKept DEF OnItsWay
<1>2. run'["worker"].pc = "lock" \/ run["worker"].pc = "lock" => run'["worker"] = run["worker"]
  <2>1. "worker" \in Threads /\ "worker" # "app"
    BY DEF Threads
  <2>2. run'["worker"] # run["worker"] =>
          \/ StoreLoopMode("worker") /\ run'["worker"].pc = "idle"
          \/ run["worker"].pc = "idle" /\ run'["worker"].pc = "loop"
    BY <2>1, Moves
  <2>3. StoreLoopMode("worker") => run["worker"].pc = "loop"
    BY DEF StoreLoopMode
  <2> QED
    BY <2>2, <2>3
<1>3. Reached => Reached'
  BY ReachedKept
<1> QED
  BY <1>1, <1>2, <1>3 DEF OnItsWay

\* A thread that does not move, or begins a call, is not at the player.
LEMMA NotAtPlayer ==
  ASSUME TypeInv, NEW t \in Threads
  PROVE  /\ run' = run => ~Playing(t)
         /\ run[t].pc \in {"idle", "lock"} /\ run'[t].pc \in {"lock", "loop"} => ~Playing(t)
<1>0. ASSUME NEW pc, Goes(t, pc)
      PROVE  run'[t].pc = pc
  <2>1. run' = [run EXCEPT ![t].pc = pc]
    BY <1>0 DEF Goes
  <2>2. run \in [Threads -> Called] /\ run[t] = [pc |-> run[t].pc, call |-> run[t].call]
    BY CallIs DEF TypeInv, StreamTypeOK
  <2>3. run'[t] = [run[t] EXCEPT !.pc = pc]
    BY <2>1, <2>2
  <2>4. [run[t] EXCEPT !.pc = pc].pc = pc
    BY <2>2
  <2> QED
    BY <2>3, <2>4
<1>1. ASSUME Returns(t)
      PROVE  run'[t].pc = "idle"
  <2>1. run'[t] = [pc |-> "idle", call |-> NoCommand]
    BY <1>1, ReturnsFrom
  <2> QED
    BY <2>1
<1> QED
  BY <1>0, <1>1 DEF Playing, Lock, LoadLocked, SurfaceLocked, StopLocked, LoadPlaceholder, Announce,
     InnerPlayFails, InnerPlayLocked, Fail, StoreLoopMode

\* What the source asks for is on its way.
LEMMA SourceAsks ==
  ASSUME TypeInv, EventInv, StreamNext, ~missed', asked'.item \in Items, asked.item \in Items => OnItsWay, SourceApp
  PROVE  OnItsWay'
<1>0. /\ toSink \in Seq(Command) /\ asked \in [item : Media \cup {None}, play : BOOLEAN]
      /\ sinkVars' = sinkVars /\ UNCHANGED playerVars /\ run' = run
  BY DEF TypeInv, StreamTypeOK, SourceApp, ControllerLoad, ControllerPlay, ControllerSend,
     ControllerSetLoopMode, SetListener, sinkVars
<1>1. ASSUME NEW c \in Command, SendControlAction(c)
      PROVE  toSink' = Append(toSink, c)
  BY <1>1, MissedStays DEF SendControlAction
<1>2. ASSUME NEW c \in Command, c \in Asking', toSink' = Append(toSink, c)
      PROVE  OnItsWay'
  <2>1. c \in Deciding'
    BY <1>2 DEF Asking, Deciding
  <2>2. LastIn(toSink', Deciding', Asking') /\ ~Lacks(toSink', Deciding')
    BY <1>0, <1>2, <2>1, LastAppend, LacksAppend
  <2> QED
    BY <2>2 DEF OnItsWay
<1>3. ASSUME NEW item \in Media, ControllerLoad(item)
      PROVE  OnItsWay'
  <2> DEFINE c == [do |-> "load", item |-> item]
  <2>1. c \in Command
    BY DEF Command
  <2>2. streaming
    BY <1>3 DEF ControllerLoad, TransferToStreamMode, SendControlAction, NotifyPeerLoad
  <2>3. SendControlAction(c) /\ asked' = [item |-> item, play |-> FALSE]
    BY <1>3, <2>2 DEF ControllerLoad, NotifyPeerLoad, TransferToStreamMode
  <2>4. c \in Asking'
    BY <2>1, <2>3 DEF Asking
  <2> QED
    BY <1>1, <1>2, <2>1, <2>3, <2>4
<1>4. ASSUME NEW item \in Items, ControllerPlay(item)
      PROVE  OnItsWay'
  <2> DEFINE c == [do |-> "play", item |-> item]
  <2>1. c \in Command
    BY DEF Command, Media
  <2>2. SendControlAction(c) /\ asked' = [item |-> item, play |-> TRUE]
    BY <1>4 DEF ControllerPlay, NotifyPeerPlay
  <2>3. c \in Asking'
    BY <2>1, <2>2 DEF Asking
  <2> QED
    BY <1>1, <1>2, <2>1, <2>2, <2>3
<1>5. ~ProcessLocking /\ \A t \in Threads : ~Playing(t)
  <2>1. ~ProcessLocking
    BY <1>0 DEF ProcessLocking, Takes, TypeInv, StreamTypeOK, Threads
  <2> QED
    BY <1>0, <2>1, NotAtPlayer
<1>6. ASSUME Weaker, QueueStays
      PROVE  OnItsWay'
  <2>1. PlayerStays
    BY <1>0 DEF PlayerStays, playerVars
  <2> QED
    BY <1>5, <1>6, <2>1, SimpleKept DEF Weaker, Playing
<1>7. ASSUME NEW do \in {"pause", "resume", "stop"}, ControllerSend(do)
      PROVE  OnItsWay'
  <2> DEFINE c == [do |-> do]
  <2>1. c \in Command
    BY DEF Command
  <2>2. /\ toSink' = Append(toSink, c)
        /\ asked' = [item |-> IF do = "stop" THEN None ELSE asked.item, play |-> asked.play /\ do = "resume"]
    BY <1>1, <1>7, <2>1 DEF ControllerSend, NotifyPeer
  <2>3. do # "stop"
    BY <2>2, Apart DEF Media
  <2>4. asked'.item = asked.item /\ (asked'.play => asked.play /\ do = "resume")
    BY <2>2, <2>3
  <2>5. c \notin Deciding'
    BY <2>3, <2>4 DEF Deciding
  <2> QED
    BY <1>6, <2>1, <2>2, <2>4, <2>5 DEF Weaker, QueueStays
<1>8. ASSUME NEW mode \in BOOLEAN, ControllerSetLoopMode(mode)
      PROVE  OnItsWay'
  <2> DEFINE c == [do |-> "loop", mode |-> mode]
  <2>1. c \in Command
    BY DEF Command
  <2>2. toSink' = Append(toSink, c) /\ asked' = asked
    BY <1>1, <1>8, <2>1 DEF ControllerSetLoopMode, NotifyPeerSetRepeatMode
  <2>3. c \notin Deciding'
    BY DEF Deciding
  <2> QED
    BY <1>6, <2>1, <2>2, <2>3 DEF Weaker, QueueStays
<1>9. ASSUME NEW there \in BOOLEAN, SetListener(there)
      PROVE  OnItsWay'
  BY <1>6, <1>9 DEF SetListener, Weaker, QueueStays
<1> QED
  BY <1>3, <1>4, <1>7, <1>8, <1>9 DEF SourceApp

\* What the worker takes off its queue it has in hand, or has done.
LEMMA WorkerAsks ==
  ASSUME TypeInv, EventInv, StreamNext, ~missed', asked'.item \in Items, asked.item \in Items => OnItsWay, Worker
  PROVE  OnItsWay'
<1>0. /\ toSink \in Seq(Command) /\ toSink # <<>> /\ toSink' = Tail(toSink) /\ asked' = asked
      /\ Deciding' = Deciding /\ Asking' = Asking /\ OnItsWay /\ run["worker"].pc = "idle"
  BY DEF TypeInv, StreamTypeOK, Worker, ProcessActionPause, ProcessLocking, ProcessActionResume,
     ProcessActionSetRepeatMode, PlayerGetter, Takes, Deciding, Asking
<1> DEFINE c == Head(toSink)
<1>1. /\ c \in Command /\ toSink' \in Seq(Command)
      /\ Lacks(toSink, Deciding) <=> c \notin Deciding /\ Lacks(toSink', Deciding)
      /\ LastIn(toSink', Deciding, Asking)
      /\ Lacks(toSink', Deciding) /\ c \in Deciding => c \in Asking
  BY <1>0, QueueTail DEF OnItsWay
<1>2. CASE ProcessLocking
  <2>1. run'["worker"].pc = "lock" /\ run'["worker"].call = c
    <3>1. run' = [run EXCEPT !["worker"] = [pc |-> "lock", call |-> c]] /\ run \in [Threads -> Called]
      BY <1>2 DEF ProcessLocking, TypeInv, StreamTypeOK
    <3>2. run'["worker"] = [pc |-> "lock", call |-> c]
      BY <3>1 DEF Threads
    <3> QED
      BY <3>2
  <2>2. c \in Deciding
    BY <1>1, <1>2 DEF ProcessLocking, Deciding
  <2> QED
    BY <1>0, <1>1, <2>1, <2>2 DEF OnItsWay
<1>3. CASE ProcessActionPause /\ asked.play
  <2>1. c \in Deciding /\ c \notin Asking
    BY <1>1, <1>3 DEF ProcessActionPause, Deciding, Asking
  <2> QED
    BY <1>0, <1>1, <2>1 DEF OnItsWay
<1>4. CASE ~ProcessLocking /\ ~(ProcessActionPause /\ asked.play)
  <2>1. c \notin Deciding
    <3>1. ~PlayerGetter
      BY DEF PlayerGetter
    <3> QED
      BY <1>4, <3>1 DEF Worker, ProcessActionPause, ProcessActionResume, ProcessActionSetRepeatMode, Deciding
  <2>2. \A t \in Threads : ~Playing(t)
    <3>1. CASE run' = run
      BY <3>1, NotAtPlayer
    <3>2. CASE ProcessActionSetRepeatMode
      <4>1. \A t \in Threads : t # "worker" => run'[t] = run[t]
        BY <3>2 DEF ProcessActionSetRepeatMode, SetLoopMode, TypeInv, StreamTypeOK
      <4>2. run'["worker"].pc = "loop"
        <5>1. run' = [run EXCEPT !["worker"] = [pc |-> "loop", call |-> [do |-> "loop", mode |-> c.mode]]]
          BY <3>2 DEF ProcessActionSetRepeatMode, SetLoopMode
        <5>2. run'["worker"] = [pc |-> "loop", call |-> [do |-> "loop", mode |-> c.mode]]
          BY <5>1 DEF TypeInv, StreamTypeOK, Threads
        <5> QED
          BY <5>2
      <4>3. ASSUME NEW t \in Threads, Playing(t)
            PROVE  FALSE
        <5>1. t # "worker"
          BY <1>0, <4>2, <4>3, NotAtPlayer
        <5>2. toSink' = toSink
          BY <4>3 DEF Playing, Lock, LoadPlaceholder, Announce, InnerPlayFails, InnerPlayLocked,
             Fail, StoreLoopMode
        <5>3. Len(Tail(toSink)) = Len(toSink) - 1 /\ Len(toSink) \in Nat
          BY <1>0
        <5> QED
          BY <1>0, <5>2, <5>3
      <4> QED
        BY <4>3
    <3> QED
      BY <1>4, <3>1, <3>2 DEF Worker, ProcessActionPause, ProcessActionResume, PlayerGetter, sinkVars
  <2>3. Weaker /\ QueueStays
    BY <1>0, <2>1 DEF Weaker, QueueStays
  <2>4. ~AppPauses
    <3>1. Tail(toSink) # toSink
      <4>1. Len(Tail(toSink)) = Len(toSink) - 1 /\ Len(toSink) \in Nat
        BY <1>0
      <4>2. Len(Tail(toSink)) # Len(toSink)
        BY <4>1
      <4> QED
        BY <4>2
    <3>2. AppPauses => toSink' = toSink
      BY DEF AppPauses
    <3>3. toSink' = Tail(toSink)
      BY <1>0
    <3> QED
      BY <3>1, <3>2, <3>3
  <2>5. PlayerStays
    BY <1>0, <1>4, <2>2, <2>4, PlayerStaysBy DEF Playing
  <2> QED
    BY <1>0, <1>4, <2>2, <2>3, <2>5, SimpleKept DEF Playing
<1> QED
  BY <1>2, <1>3, <1>4

\* What was asked for last is on its way, at the player, or failed with an
\* error, after every step.
LEMMA AskedKept ==
  ASSUME TypeInv, EventInv, FlagInv, AskedInv, StreamNext, ~missed'
  PROVE  AskedInv'
<1> SUFFICES ASSUME asked'.item \in Items PROVE OnItsWay'
  BY DEF AskedInv, OnItsWay
<1>0. asked.item \in Items => OnItsWay
  BY DEF AskedInv, OnItsWay
<1>1. CASE SourceApp
  BY <1>0, <1>1, SourceAsks
<1>2. CASE Worker
  BY <1>0, <1>2, WorkerAsks
<1>3. ASSUME NEW t \in Threads, Playing(t), ~StoreLoopMode(t)
      PROVE  OnItsWay'
  <2>1. OnItsWay
    BY <1>0, <1>3, AtPlayerAsks
  <2> QED
    BY <1>3, <2>1, LockKeeps, AtPlayerKept DEF Playing
<1>4. CASE /\ ~SourceApp /\ ~Worker
           /\ \A t \in Threads : Playing(t) => StoreLoopMode(t)
  <2>1. \A t \in Threads : ~Lock(t) /\ ~Announce(t) /\ ~LoadPlaceholder(t) /\ ~InnerPlayFails(t)
                            /\ ~InnerPlayLocked(t) /\ ~Fail(t)
    <3>1. \A t \in Threads : StoreLoopMode(t) => run[t].pc = "loop"
      BY DEF StoreLoopMode
    <3> QED
      BY <1>4, <3>1 DEF Playing, Lock, LoadPlaceholder, Announce, InnerPlayFails, InnerPlayLocked, Fail
  <2>2. toSink' = toSink
    <3>1. toSink' = toSink \/ AppPauses
      BY <1>4, <2>1, AskedMoves
    <3> QED
      BY <3>1 DEF AppPauses
  <2>3. Weaker
    <3>1. CASE asked' = asked
      BY <3>1 DEF Weaker
    <3>2. CASE AppPauses
      BY <3>2 DEF AppPauses, Weaker, TypeInv, StreamTypeOK
    <3> QED
      BY <1>4, <2>1, <3>1, <3>2, AskedMoves
  <2>4. OnItsWay
    BY <1>0, <2>3 DEF Weaker
  <2>5. AppPauses => ~asked'.play
    BY DEF AppPauses, TypeInv, StreamTypeOK
  <2>6. PlayerStays
    BY <1>4, <2>1, <2>5, PlayerStaysBy DEF Worker
  <2> QED
    BY <1>4, <2>1, <2>2, <2>3, <2>4, <2>6, SimpleKept DEF Worker, QueueStays
<1> QED
  BY <1>1, <1>2, <1>3, <1>4

-----------------------------------------------------------------------------
(* The theorems                                                              *)

\* The invariant holds at the start.
LEMMA InitStreamIInv == StreamInit => StreamIInv
<1> SUFFICES ASSUME StreamInit PROVE StreamIInv
  OBVIOUS
<1>1. /\ run \in [Threads -> Called] /\ \A t \in Threads : run[t] = [pc |-> "idle", call |-> NoCommand]
      /\ \A t \in Threads : run[t].pc = "idle" /\ run[t].call = NoCommand
  <2>1. [pc |-> "idle", call |-> NoCommand] \in Called
    BY DEF Called
  <2>2. run \in [Threads -> Called] /\ \A t \in Threads : run[t] = [pc |-> "idle", call |-> NoCommand]
    BY <2>1 DEF StreamInit
  <2> QED
    BY <2>2
<1>2. "IDLE" \in PlayerStates /\ player.state = "IDLE" /\ sink.state = "IDLE" /\ source.state = "IDLE"
  BY DEF StreamInit, PlayerStates
<1>3. StreamTypeOK
  <2>1. toSink \in Seq(Command) /\ toSource \in Seq(Callback) /\ events \in Seq(Event)
    BY DEF StreamInit
  <2>2. /\ source \in SourceType /\ sink \in SinkType /\ player \in PlayerType
        /\ streaming \in BOOLEAN /\ mutex = None /\ loopMutex = None /\ telling = None
        /\ missed \in BOOLEAN /\ asked \in [item : Media \cup {None}, play : BOOLEAN]
    BY <1>2 DEF StreamInit, SourceType, SinkType, PlayerType
  <2>3. commands \in 0..MaxCommands /\ calls \in 0..MaxCalls
    BY StreamAssumption DEF StreamInit
  <2> QED
    BY <1>1, <2>1, <2>2, <2>3, Apart DEF StreamTypeOK, SourceType, SinkType, PlayerType
<1>4. TypeInv
  <2>1. telling = None /\ ~sink.play /\ ~sink.load /\ ~sink.syncTimer /\ player.state = "IDLE"
    BY DEF StreamInit
  <2>2. run["app"].call \in AppCalled /\ run["worker"].call # Surface
    BY <1>1, Apart DEF Threads
  <2> QED
    BY <1>1, <1>3, <2>1, <2>2 DEF TypeInv
<1>5. LockInv
  BY <1>1, Apart DEF LockInv, StreamInit
<1>6. toSource = <<>> /\ events = <<>> /\ \A S, T : LastIn(<<>>, S, T)
  BY DEF StreamInit, LastIn
<1>7. EventInv
  BY <1>2, <1>6 DEF EventInv
<1>8. FlagInv
  BY DEF FlagInv, StreamInit
<1>9. ShownInv
  BY <1>2, <1>6 DEF ShownInv, StreamInit
<1>10. LoopInv
  BY <1>6 DEF LoopInv, StreamInit
<1>11. AskedInv
  <2>1. asked.item = None
    BY DEF StreamInit
  <2> QED
    BY <2>1, Apart DEF AskedInv, Media
<1> QED
  BY <1>4, <1>5, <1>7, <1>8, <1>9, <1>10, <1>11 DEF StreamIInv

\* Every step keeps it.
LEMMA NextStreamIInv == StreamIInv /\ StreamNext => StreamIInv'
<1> SUFFICES ASSUME StreamIInv, StreamNext PROVE StreamIInv'
  OBVIOUS
<1>1. TypeInv /\ LockInv /\ EventInv /\ FlagInv
  BY DEF StreamIInv
<1>2. TypeInv' /\ EventInv' /\ LockInv' /\ FlagInv'
  BY <1>1, TypeKept, LockKept, FlagKept
<1>3. ASSUME ~missed'
      PROVE  ShownInv' /\ LoopInv' /\ AskedInv'
  <2>1. ~missed
    BY <1>1, <1>3, MissedStays
  <2>2. ShownInv /\ LoopInv /\ AskedInv
    BY <2>1 DEF StreamIInv
  <2> QED
    BY <1>1, <1>3, <2>2, ShownKept, LoopKept, AskedKept
<1> QED
  BY <1>2, <1>3 DEF StreamIInv

\* A stuttering step keeps it.
LEMMA StutterStreamIInv == StreamIInv /\ UNCHANGED streamVars => StreamIInv'
<1> SUFFICES ASSUME StreamIInv, UNCHANGED streamVars PROVE StreamIInv'
  OBVIOUS
<1>1. /\ streaming' = streaming /\ source' = source /\ toSink' = toSink /\ toSource' = toSource
      /\ sink' = sink /\ run' = run /\ mutex' = mutex /\ loopMutex' = loopMutex /\ player' = player
      /\ events' = events /\ telling' = telling /\ commands' = commands /\ calls' = calls
      /\ asked' = asked /\ missed' = missed
  BY DEF streamVars, sourceVars, sinkVars, playerVars
<1>2. TypeInv' /\ LockInv' /\ EventInv' /\ FlagInv'
  BY <1>1 DEF StreamIInv, TypeInv, StreamTypeOK, LockInv, EventInv, ThatState, FlagInv
<1>3. ASSUME ~missed'
      PROVE  ShownInv' /\ LoopInv'
  BY <1>1, <1>3 DEF StreamIInv, ShownInv, Shows, Trying, LoopInv, ThatMode
<1>4. ASSUME ~missed'
      PROVE  AskedInv'
  <2>1. AskedInv
    BY <1>1, <1>4 DEF StreamIInv
  <2>2. Deciding' = Deciding /\ Asking' = Asking /\ ErrorShown' = ErrorShown
    BY <1>1 DEF Deciding, Asking, ErrorShown
  <2>3. AtPlayer' = AtPlayer
    BY <1>1, <2>2 DEF AtPlayer, IsLoading
  <2>4. Reached' = Reached
    BY <1>1, <2>3 DEF Reached
  <2> QED
    BY <1>1, <2>1, <2>2, <2>4 DEF AskedInv
<1> QED
  BY <1>2, <1>3, <1>4 DEF StreamIInv

\* The invariant of StreamPlayer: the last of each kind of call on its way,
\* between what was asked for, the flags of CastStreamPlayer, the media player
\* and what the source shows (cast_stream_player.cpp,
\* cast_stream_player_manager.cpp).
THEOREM StreamInductive == StreamSpec => []StreamIInv
<1>1. StreamIInv /\ [StreamNext]_streamVars => StreamIInv'
  BY NextStreamIInv, StutterStreamIInv
<1> QED
  BY InitStreamIInv, <1>1, PTL DEF StreamSpec

\* Types; a mutex is held by a thread that is between taking and leaving it.
THEOREM StreamTypeCorrect == StreamSpec => []StreamTypeOK
<1>1. StreamIInv => StreamTypeOK
  BY DEF StreamIInv, TypeInv
<1> QED
  BY <1>1, StreamInductive, PTL

\* When all has settled and no callback was missed, the item that was asked for
\* last is in the player, playing if a play was; or it waits for a surface with
\* the flag that makes SetSurface play it; or the source was told of an error
\* after it.  So no load or play of CastStreamPlayer that the player refuses, or
\* that another overtakes, leaves the source waiting (cast_stream_player.cpp).
THEOREM NothingFailsSilently == StreamSpec => []NoSilentFailure
<1>1. StreamIInv => NoSilentFailure
  <2> SUFFICES ASSUME StreamIInv, Settled, asked.item \in Items, ~source.error
               PROVE  IF sink.surface
                        THEN /\ player.item = asked.item
                             /\ asked.play => player.state \in {"STARTED", "PLAYBACK_COMPLETE"}
                        ELSE /\ sink.mediaInfo = asked.item
                             /\ sink.play \/ (sink.load /\ ~asked.play)
    BY DEF NoSilentFailure
  <2>1. /\ \A S : Lacks(toSink, S) /\ Lacks(toSource, S) /\ Lacks(events, S)
        /\ \A t \in Threads : run[t].pc = "idle"
        /\ ~missed
    BY DEF Settled, Lacks
  <2>2. Reached
    BY <2>1 DEF StreamIInv, AskedInv, Threads
  <2>3. ~ErrorShown
    BY <2>1 DEF ErrorShown
  <2> QED
    BY <2>1, <2>2, <2>3 DEF Reached, AtPlayer
<1> QED
  BY <1>1, StreamInductive, PTL

\* When all has settled and no callback was missed, source, sink and player have
\* one loop mode, whichever end set it, and the source shows the player's state
\* and counts time just when that is playing; unless it shows an error, or the
\* placeholder, which nothing plays (cast_stream_manager_client.cpp:474).
THEOREM SourceIsMirror == StreamSpec => []SourceMirrorsPlayer
<1>1. StreamIInv => SourceMirrorsPlayer
  <2> SUFFICES ASSUME StreamIInv, Settled
               PROVE  /\ source.loop = sink.loopMode /\ player.looping = sink.loopMode
                      /\ ~source.error /\ source.item # Placeholder =>
                           /\ source.state = player.state
                           /\ source.timer <=> source.state = "STARTED"
    BY DEF SourceMirrorsPlayer
  <2>1. /\ \A S : Lacks(toSource, S) /\ Lacks(events, S)
        /\ \A t \in Threads : run[t].pc = "idle"
        /\ ~missed /\ telling = None
    BY DEF Settled, Lacks
  <2>2. loopMutex = None
    BY <2>1 DEF StreamIInv, TypeInv, StreamTypeOK, LockInv
  <2>3. source.loop = player.looping /\ sink.loopMode = player.looping
    BY <2>1, <2>2 DEF StreamIInv, LoopInv, LockInv
  <2>4. sink.state = player.state
    BY <2>1 DEF StreamIInv, EventInv
  <2>5. \/ source.error \/ source.item = Placeholder
        \/ source.state = sink.state /\ (source.timer <=> source.state = "STARTED")
    BY <2>1 DEF StreamIInv, ShownInv, Trying
  <2> QED
    BY <2>3, <2>4, <2>5
<1> QED
  BY <1>1, StreamInductive, PTL
=============================================================================
