----------------------------- MODULE Connection -----------------------------
(***************************************************************************)
(* How devices are connected: device_manager/src/connection_manager.cpp    *)
(* over the data of cast_device_data_manager.cpp.  Clients' threads add    *)
(* devices to sessions, loopers disconnect them, DeviceManager and SoftBus *)
(* call back on threads of theirs, and each of them runs through several   *)
(* critical sections of the device data and of ConnectionManager, held     *)
(* together by nothing but openConsultingSessionMutex_.  A step here is    *)
(* one such critical section, or one call of SoftBus or DeviceManager.     *)
(*                                                                         *)
(* External: SoftBus, which gives out socket ids and takes those of closed *)
(* sockets again; DeviceManager, which binds a device and tells the result *)
(* and when the device is online; and the creation of a sink's session,    *)
(* of which the listener's use is in src/ and CreateCastSession's own part *)
(* is not.                                                                 *)
(***************************************************************************)
EXTENDS Naturals

CONSTANTS
  Devices,        \* remote devices
  Single,         \* those that DeviceManager itself authenticates (IsSingle)
  Sources,        \* source sessions, which clients add devices to
  Sinks,          \* bound: the sessions a peer's connection can still create
  Sockets,        \* bound: the socket ids SoftBus gives out
  Threads,        \* bound: how many operations run at a time
  PeersMayClose,  \* whether a peer may shut a socket that was opened to it
  None            \* no device, no session, no socket (INVALID_ID)

ASSUME ConnectionAssumption ==
  /\ Single \subseteq Devices
  /\ Sources \cap Sinks = {}
  /\ None \notin Devices \cup Sources \cup Sinks \cup Sockets
  /\ PeersMayClose \in BOOLEAN

VARIABLES
  known,       \* the devices that devices_ has
  devices,     \* what it has of them
  connecting,  \* connectingDeviceId_
  bindTarget,  \* isBindTargetMap_: bound, and not seen online since
  binding,     \* binds that DeviceManager has not told the result of
  socket,      \* what each socket leads to, and which end this one is
  castSession, \* transIdToCastSessionIdMap_
  listeners,   \* sessionListeners_, as far as sinks' sessions go
  created,     \* sinks' sessions created so far
  listed,      \* remoteDeviceList_ of each session
  mutex,       \* openConsultingSessionMutex_
  thread       \* the operations in progress

dataVars == <<known, devices>>
linkVars == <<socket, castSession>>
sessionVars == <<listeners, created, listed>>
bindVars == <<connecting, bindTarget, binding>>
vars == <<dataVars, linkVars, sessionVars, bindVars, mutex, thread>>

Sessions == Sources \cup Sinks

DeviceInfo == [
  state : {"UNKNOWN", "FOUND", "CONNECTING", "CONNECTED"},
  transportId : Sockets \cup {None},
  isActiveAuth : BOOLEAN,
  session : Sinks \cup {None}]   \* localCastSessionId: no source's is ever set

\* What UpdateDeviceByDeviceId leaves, and all that is known of no device.
Reset == [state |-> "UNKNOWN", transportId |-> None, isActiveAuth |-> FALSE, session |-> None]

Socket == [peer : Devices \cup {None}, role : {"free", "client", "server"}]
Free == [peer |-> None, role |-> "free"]

Adding == {"check", "update", "mark", "remember", "choose", "bound", "expect",
           "restore", "forget", "confirm"}
Opening == {"try", "create", "bind", "recheck", "record"}
Dropping == {"dropCheck", "dropMark", "dropForget", "dropReset",
             "dropClose", "dropMap", "dropLast"}
Consulting == {"ready", "sinkAdd", "sinkMark", "sinkReady"}
Places == {"idle", "found", "online", "open", "lock", "failed", "connected"}
            \cup Adding \cup Opening \cup Dropping \cup Consulting
Holding == {"bind", "recheck", "record", "dropClose"}

Operation == [
  pc : Places,
  call : {"none", "connect", "callback", "drop", "consult"},
  dev : Devices \cup {None},
  session : Sessions \cup {None},     \* the session that is served
  seen : Sinks \cup {None},           \* localCastSessionId in the copy it works on
  sock : Sockets \cup {None},         \* the socket it alone knows of
  conn : Sockets \cup {None},         \* the socket id it works for
  first : BOOLEAN]                    \* this is the first attempt to open

Idle == [pc |-> "idle", call |-> "none", dev |-> None, session |-> None, seen |-> None,
         sock |-> None, conn |-> None, first |-> FALSE]

\* Types; only an operation that is opening or closing a socket holds one.
TypeOK ==
  /\ known \subseteq Devices
  /\ devices \in [Devices -> DeviceInfo]
  /\ connecting \in Devices \cup {None}
  /\ bindTarget \subseteq Devices
  /\ binding \subseteq Devices
  /\ socket \in [Sockets -> Socket]
  /\ castSession \in [Sockets -> Sinks \cup {None}]
  /\ listeners \subseteq Sinks
  /\ created \subseteq Sinks
  /\ listed \in [Sessions -> SUBSET Devices]
  /\ mutex \in Threads \cup {None}
  /\ thread \in [Threads -> Operation]
  /\ \A t \in Threads : thread[t].sock # None => thread[t].pc \in Holding

Init ==
  /\ known = {}
  /\ devices = [d \in Devices |-> Reset]
  /\ connecting = None
  /\ bindTarget = {}
  /\ binding = {}
  /\ socket = [k \in Sockets |-> Free]
  /\ castSession = [k \in Sockets |-> None]
  /\ listeners = {}
  /\ created = {}
  /\ listed = [s \in Sessions |-> {}]
  /\ mutex = None
  /\ thread = [t \in Threads |-> Idle]

At(t, place) == thread[t].pc = place
GoTo(t, place) == thread' = [thread EXCEPT ![t].pc = place]
Return(t) == thread' = [thread EXCEPT ![t] = Idle]

\* A new operation that starts at place.
Start(t, place, call, d, s, seen, conn) ==
  /\ thread[t] = Idle
  /\ thread' = [thread EXCEPT ![t] =
       [pc |-> place, call |-> call, dev |-> d, session |-> s, seen |-> seen,
        sock |-> None, conn |-> conn, first |-> FALSE]]

\* SetDeviceState: a device that is gone is left alone.
SetState(d, state) ==
  /\ devices' = IF d \in known THEN [devices EXCEPT ![d].state = state] ELSE devices
  /\ UNCHANGED known

\* A session holds its own mutex while it disconnects a device.
SessionFree(s) == \A t \in Threads : thread[t].call = "drop" => thread[t].session # s

\* RemoveDevice.
Remove(d) ==
  /\ known' = known \ {d}
  /\ devices' = [devices EXCEPT ![d] = Reset]

\* CastDeviceDataManager::AddDevice: of a device that it has already, only the
\* copy is replaced.
AddToDevices(d, session) ==
  /\ known' = known \cup {d}
  /\ devices' = [devices EXCEPT ![d].session = session,
                                ![d].state = IF d \in known THEN @ ELSE "FOUND"]

(***************************************************************************)
(* Discovery, as far as the device data is concerned.                      *)
(***************************************************************************)
\* A scan finds a device.  CreateRemoteDevice works on a copy of what is known
\* of it...
OnDeviceInfoFound(t, d) ==
  /\ Start(t, "found", "callback", d, None, devices[d].session, None)
  /\ UNCHANGED <<dataVars, linkVars, sessionVars, bindVars, mutex>>

\* ...which then replaces it.
AddFound(t) ==
  /\ At(t, "found")
  /\ AddToDevices(thread[t].dev, thread[t].seen)
  /\ Return(t)
  /\ UNCHANGED <<linkVars, sessionVars, bindVars, mutex>>

\* A device that scans have missed is dropped, unless it is the one that was
\* last asked for.
UpdateDeviceState(d) ==
  /\ d \in known
  /\ d # connecting
  /\ Remove(d)
  /\ UNCHANGED <<linkVars, sessionVars, bindVars, mutex, thread>>

(***************************************************************************)
(* A client adds a device to a source session.                             *)
(***************************************************************************)
AddDevice(t, s, d) ==
  /\ d \in known
  /\ Start(t, "check", "connect", d, s, devices[d].session, None)
  /\ UNCHANGED <<dataVars, linkVars, sessionVars, bindVars, mutex>>

CheckConnected(t) ==
  /\ At(t, "check")
  /\ IF devices[thread[t].dev].state = "CONNECTED" THEN Return(t) ELSE GoTo(t, "update")
  /\ UNCHANGED <<dataVars, linkVars, sessionVars, bindVars, mutex>>

\* The session waits for its first listener, in vain or not, writes the copy
\* it has of the device back, and lists the device.
WaitListenerTimesOut(t) ==
  /\ At(t, "update")
  /\ Return(t)
  /\ UNCHANGED <<dataVars, linkVars, sessionVars, bindVars, mutex>>

UpdateDevice(t) ==
  LET d == thread[t].dev
      s == thread[t].session
  IN /\ At(t, "update")
     /\ SessionFree(s)
     /\ devices' = IF d \in known THEN [devices EXCEPT ![d].session = thread[t].seen] ELSE devices
     /\ IF d \in known /\ d \notin listed[s]
          THEN GoTo(t, "mark") /\ listed' = [listed EXCEPT ![s] = @ \cup {d}]
          ELSE Return(t) /\ UNCHANGED listed
     /\ UNCHANGED <<known, linkVars, listeners, created, bindVars, mutex>>

\* ConnectDevice.
MarkConnecting(t) ==
  LET d == thread[t].dev
  IN /\ At(t, "mark")
     /\ SetState(d, "CONNECTING")
     /\ IF d \in known THEN GoTo(t, "remember") ELSE Return(t)
     /\ UNCHANGED <<linkVars, sessionVars, bindVars, mutex>>

SetConnectingDeviceId(t) ==
  /\ At(t, "remember")
  /\ connecting' = thread[t].dev
  /\ GoTo(t, "choose")
  /\ UNCHANGED <<dataVars, linkVars, sessionVars, bindTarget, binding, mutex>>

\* A trusted device that DeviceManager authenticates is opened at once...
ConnectTrusted(t) ==
  LET d == thread[t].dev
  IN /\ At(t, "choose")
     /\ d \in Single
     /\ GoTo(t, IF d \in known THEN "open" ELSE "restore")
     /\ UNCHANGED <<dataVars, linkVars, sessionVars, bindVars, mutex>>

\* ...every other one is bound first.
BindTarget(t) ==
  /\ At(t, "choose")
  /\ GoTo(t, "bound")
  /\ binding' = binding \cup {thread[t].dev}
  /\ UNCHANGED <<dataVars, linkVars, sessionVars, connecting, bindTarget, mutex>>

BindTargetFails(t) ==
  /\ At(t, "choose")
  /\ GoTo(t, "restore")
  /\ UNCHANGED <<dataVars, linkVars, sessionVars, bindVars, mutex>>

SetDeviceIsActiveAuth(t) ==
  LET d == thread[t].dev
  IN /\ At(t, "bound")
     /\ devices' = IF d \in known THEN [devices EXCEPT ![d].isActiveAuth = TRUE] ELSE devices
     /\ GoTo(t, "expect")
     /\ UNCHANGED <<known, linkVars, sessionVars, bindVars, mutex>>

ExpectOnline(t) ==
  /\ At(t, "expect")
  /\ bindTarget' = bindTarget \cup {thread[t].dev}
  /\ Return(t)
  /\ UNCHANGED <<dataVars, linkVars, sessionVars, connecting, binding, mutex>>

\* A ConnectDevice that failed, or whose consult session is open.
RestoreFound(t) ==
  /\ At(t, "restore")
  /\ SetState(thread[t].dev, "FOUND")
  /\ GoTo(t, "forget")
  /\ UNCHANGED <<linkVars, sessionVars, bindVars, mutex>>

ForgetConnecting(t) ==
  /\ At(t, "forget")
  /\ connecting' = None
  /\ Return(t)
  /\ UNCHANGED <<dataVars, linkVars, sessionVars, bindTarget, binding, mutex>>

ConfirmConnected(t) ==
  /\ At(t, "confirm")
  /\ SetState(thread[t].dev, "CONNECTED")
  /\ Return(t)
  /\ UNCHANGED <<linkVars, sessionVars, bindVars, mutex>>

(***************************************************************************)
(* DeviceManager's callbacks.                                              *)
(***************************************************************************)
\* OnBindResult: its content may lead to a consult session on a new thread,
\* or to nothing but a report.
OnBindResult(t, d) ==
  /\ d \in binding
  /\ binding' = binding \ {d}
  /\ \/ d \in known /\ Start(t, "open", "callback", d, None, devices[d].session, None)
     \/ UNCHANGED thread
  /\ UNCHANGED <<dataVars, linkVars, sessionVars, connecting, bindTarget, mutex>>

\* OnDeviceOnline, from IsBindTarget...
OnDeviceOnline(t, d) ==
  /\ d \in bindTarget
  /\ bindTarget' = bindTarget \ {d}
  /\ Start(t, "online", "callback", d, None, None, None)
  /\ UNCHANGED <<dataVars, linkVars, sessionVars, connecting, binding, mutex>>

\* ...to OpenConsultSession.
OpenOnline(t) ==
  LET d == thread[t].dev
  IN /\ At(t, "online")
     /\ IF d \in known /\ devices[d].isActiveAuth /\ d \in Single
          THEN thread' = [thread EXCEPT ![t].pc = "open", ![t].seen = devices[d].session]
          ELSE Return(t)
     /\ UNCHANGED <<dataVars, linkVars, sessionVars, bindVars, mutex>>

(***************************************************************************)
(* OpenConsultSession.                                                     *)
(***************************************************************************)
\* A failure within ConnectDevice is its failure; a callback just ends.
Fail(t) == IF thread[t].call = "connect" THEN GoTo(t, "restore") ELSE Return(t)

GetDeviceNetworkId(t) ==
  /\ At(t, "open")
  /\ IF thread[t].dev \in known THEN GoTo(t, "lock") ELSE Fail(t)
  /\ UNCHANGED <<dataVars, linkVars, sessionVars, bindVars, mutex>>

OpenSoftBusSocket(t) ==
  /\ At(t, "lock")
  /\ mutex = None
  /\ mutex' = t
  /\ thread' = [thread EXCEPT ![t].pc = "try", ![t].first = TRUE]
  /\ UNCHANGED <<dataVars, linkVars, sessionVars, bindVars>>

\* IsDeviceConnectStateChange.
StateChanged(t) ==
  LET d == thread[t].dev
  IN \/ d \notin known
     \/ devices[d].state # "CONNECTING"
     \/ devices[d].session # thread[t].seen

\* OpenSoftBusSocket ends, without a socket or with one that is recorded.
LeaveOpening(t, place) ==
  /\ mutex' = None
  /\ thread' = [thread EXCEPT ![t].pc = place, ![t].sock = None]

\* One attempt has failed.
TryAgain(t) ==
  IF thread[t].first
    THEN /\ thread' = [thread EXCEPT ![t].pc = "try", ![t].sock = None, ![t].first = FALSE]
         /\ UNCHANGED mutex
    ELSE LeaveOpening(t, "failed")

Shutdown(k) == socket' = [socket EXCEPT ![k] = Free]

Attempt(t) ==
  /\ At(t, "try")
  /\ IF StateChanged(t)
       THEN LeaveOpening(t, "failed")
       ELSE GoTo(t, "create") /\ UNCHANGED mutex
  /\ UNCHANGED <<dataVars, linkVars, sessionVars, bindVars>>

CreateSocket(t) ==
  /\ At(t, "create")
  /\ \E k \in Sockets :
       /\ socket[k] = Free
       /\ socket' = [socket EXCEPT ![k] = [peer |-> thread[t].dev, role |-> "client"]]
       /\ thread' = [thread EXCEPT ![t].pc = "bind", ![t].sock = k]
  /\ UNCHANGED <<dataVars, castSession, sessionVars, bindVars, mutex>>

CreateSocketFails(t) ==
  /\ At(t, "create")
  /\ TryAgain(t)
  /\ UNCHANGED <<dataVars, linkVars, sessionVars, bindVars>>

BindSocket(t) ==
  /\ At(t, "bind")
  /\ GoTo(t, "recheck")
  /\ UNCHANGED <<dataVars, linkVars, sessionVars, bindVars, mutex>>

\* Bug: the socket that could not be bound stays open.
BindSocketFailsOpen(t) ==
  /\ At(t, "bind")
  /\ TryAgain(t)
  /\ UNCHANGED <<dataVars, linkVars, sessionVars, bindVars>>

BindSocketFails(t) ==
  /\ At(t, "bind")
  /\ Shutdown(thread[t].sock)
  /\ TryAgain(t)
  /\ UNCHANGED <<dataVars, castSession, sessionVars, bindVars>>

Recheck(t) ==
  /\ At(t, "recheck")
  /\ IF StateChanged(t)
       THEN LeaveOpening(t, "failed") /\ Shutdown(thread[t].sock)
       ELSE GoTo(t, "record") /\ UNCHANGED <<socket, mutex>>
  /\ UNCHANGED <<dataVars, castSession, sessionVars, bindVars>>

\* Bug: a transport that the device has already is overwritten.
SetDeviceTransIdOver(t) ==
  LET d == thread[t].dev
  IN /\ At(t, "record")
     /\ IF d \in known
          THEN /\ devices' = [devices EXCEPT ![d].transportId = thread[t].sock]
               /\ LeaveOpening(t, "connected")
               /\ UNCHANGED socket
          ELSE /\ Shutdown(thread[t].sock)
               /\ LeaveOpening(t, "failed")
               /\ UNCHANGED devices
     /\ UNCHANGED <<known, castSession, sessionVars, bindVars>>

SetDeviceTransId(t) ==
  LET d == thread[t].dev
  IN /\ At(t, "record")
     /\ IF d \in known /\ devices[d].transportId = None
          THEN /\ devices' = [devices EXCEPT ![d].transportId = thread[t].sock]
               /\ LeaveOpening(t, "connected")
               /\ UNCHANGED socket
          ELSE /\ Shutdown(thread[t].sock)
               /\ LeaveOpening(t, "failed")
               /\ UNCHANGED devices
     /\ UNCHANGED <<known, castSession, sessionVars, bindVars>>

\* NotifyConnectStage puts the device back to FOUND only when it finds the
\* session to report to.
NotifyDisconnect(t) ==
  /\ At(t, "failed")
  /\ IF thread[t].seen \in listeners
       THEN SetState(thread[t].dev, "FOUND")
       ELSE UNCHANGED dataVars
  /\ Fail(t)
  /\ UNCHANGED <<linkVars, sessionVars, bindVars, mutex>>

SetConnected(t) ==
  /\ At(t, "connected")
  /\ SetState(thread[t].dev, "CONNECTED")
  /\ IF thread[t].call = "connect" THEN GoTo(t, "confirm") ELSE Return(t)
  /\ UNCHANGED <<linkVars, sessionVars, bindVars, mutex>>

(***************************************************************************)
(* DisconnectDevice, by a session that lists the device.                   *)
(***************************************************************************)
DisconnectDevice(t, s, d) ==
  /\ d \in listed[s]
  /\ SessionFree(s)
  /\ connecting' = None
  /\ Start(t, "dropCheck", "drop", d, s, None, None)
  /\ UNCHANGED <<dataVars, linkVars, sessionVars, bindTarget, binding, mutex>>

IsDeviceUsed(t) ==
  /\ At(t, "dropCheck")
  /\ GoTo(t, IF devices[thread[t].dev].state \in {"CONNECTING", "CONNECTED"}
               THEN "dropMark" ELSE "dropLast")
  /\ UNCHANGED <<dataVars, linkVars, sessionVars, bindVars, mutex>>

MarkFound(t) ==
  /\ At(t, "dropMark")
  /\ SetState(thread[t].dev, "FOUND")
  /\ GoTo(t, "dropForget")
  /\ UNCHANGED <<linkVars, sessionVars, bindVars, mutex>>

ForgetDropped(t) ==
  /\ At(t, "dropForget")
  /\ connecting' = None
  /\ GoTo(t, "dropReset")
  /\ UNCHANGED <<dataVars, linkVars, sessionVars, bindTarget, binding, mutex>>

\* Bug: the transport is read, and reset only by UpdateDeviceByDeviceId.
GetDeviceTransId(t) ==
  /\ At(t, "dropReset")
  /\ thread' = [thread EXCEPT ![t].pc = "dropClose", ![t].sock = devices[thread[t].dev].transportId]
  /\ UNCHANGED <<dataVars, linkVars, sessionVars, bindVars, mutex>>

ResetDeviceTransId(t) ==
  LET d == thread[t].dev
  IN /\ At(t, "dropReset")
     /\ devices' = [devices EXCEPT ![d].transportId = None]
     /\ thread' = [thread EXCEPT ![t].pc = "dropClose", ![t].sock = devices[d].transportId]
     /\ UNCHANGED <<known, linkVars, sessionVars, bindVars, mutex>>

CloseSession(t) ==
  LET k == thread[t].sock
  IN /\ At(t, "dropClose")
     /\ socket' = IF k = None THEN socket ELSE [socket EXCEPT ![k] = Free]
     /\ thread' = [thread EXCEPT ![t].pc = "dropMap", ![t].sock = None, ![t].conn = k]
     /\ UNCHANGED <<dataVars, castSession, sessionVars, bindVars, mutex>>

\* The end of DestroyConsulationSession.
RemoveTransIdMapping(t) ==
  LET k == thread[t].conn
  IN /\ At(t, "dropMap")
     /\ castSession' = IF k = None THEN castSession ELSE [castSession EXCEPT ![k] = None]
     /\ IF thread[t].call = "drop" THEN GoTo(t, "dropLast") ELSE Return(t)
     /\ UNCHANGED <<dataVars, socket, sessionVars, bindVars, mutex>>

\* UpdateDeviceByDeviceId, with which the session takes the device off its list.
UpdateDeviceByDeviceId(t) ==
  LET d == thread[t].dev
  IN /\ At(t, "dropLast")
     /\ devices' = [devices EXCEPT ![d] = Reset]
     /\ listed' = [listed EXCEPT ![thread[t].session] = @ \ {d}]
     /\ Return(t)
     /\ UNCHANGED <<known, linkVars, listeners, created, bindVars, mutex>>

(***************************************************************************)
(* A peer connects to this device as a sink.                               *)
(***************************************************************************)
\* OnSessionOpened: NotifySessionIsReady creates a session on a new thread...
OnSessionOpened(t, k, d) ==
  /\ socket[k] = Free
  /\ socket' = [socket EXCEPT ![k] = [peer |-> d, role |-> "server"]]
  /\ \E s \in Sinks \ created :
       /\ created' = created \cup {s}
       /\ listeners' = listeners \cup {s}
       /\ Start(t, "ready", "consult", None, s, None, k)
  /\ UNCHANGED <<dataVars, castSession, listed, bindVars, mutex>>

\* Bug: a connection is given the session of another.
MapSessionShared(t) ==
  LET k == thread[t].conn
  IN /\ At(t, "ready")
     /\ \E s \in created :
          castSession' = [castSession EXCEPT ![k] = IF @ = None THEN s ELSE @]
     /\ Return(t)
     /\ UNCHANGED <<dataVars, socket, sessionVars, bindVars, mutex>>

\* ...and enters it in the map, with insert.
MapSession(t) ==
  LET k == thread[t].conn
  IN /\ At(t, "ready")
     /\ castSession' = [castSession EXCEPT ![k] = IF @ = None THEN thread[t].session ELSE @]
     /\ Return(t)
     /\ UNCHANGED <<dataVars, socket, sessionVars, bindVars, mutex>>

\* OnConsultDataReceived, once the map has a session for the connection.
OnConsultDataReceived(t, k) ==
  /\ socket[k].role = "server"
  /\ castSession[k] # None
  /\ Start(t, "sinkAdd", "consult", socket[k].peer, castSession[k], castSession[k], k)
  /\ UNCHANGED <<dataVars, linkVars, sessionVars, bindVars, mutex>>

AddConsulted(t) ==
  /\ At(t, "sinkAdd")
  /\ AddToDevices(thread[t].dev, thread[t].seen)
  /\ GoTo(t, "sinkMark")
  /\ UNCHANGED <<linkVars, sessionVars, bindVars, mutex>>

MarkConsulted(t) ==
  /\ At(t, "sinkMark")
  /\ SetState(thread[t].dev, "CONNECTED")
  /\ IF thread[t].dev \in known THEN GoTo(t, "sinkReady") ELSE Return(t)
  /\ UNCHANGED <<linkVars, sessionVars, bindVars, mutex>>

\* NotifyRemoteDeviceIsReady: the session lists the device...
NotifyRemoteDeviceIsReady(t) ==
  LET d == thread[t].dev
      s == thread[t].session
  IN /\ At(t, "sinkReady")
     /\ s \in listeners
     /\ SessionFree(s)
     /\ d \in known
     /\ d \notin listed[s]
     /\ devices' = [devices EXCEPT ![d].session = s]
     /\ listed' = [listed EXCEPT ![s] = @ \cup {d}]
     /\ GoTo(t, "dropReset")
     /\ UNCHANGED <<known, linkVars, listeners, created, bindVars, mutex>>

\* ...or it has gone, has had no listener in time or lists the device already,
\* and the device is removed.
RefuseRemoteDevice(t) ==
  /\ At(t, "sinkReady")
  /\ Remove(thread[t].dev)
  /\ GoTo(t, "dropReset")
  /\ UNCHANGED <<linkVars, sessionVars, bindVars, mutex>>

\* OnSessionClosed does nothing...
OnSessionClosed(k) ==
  /\ socket[k].role = "server"
  /\ Shutdown(k)
  /\ UNCHANGED <<dataVars, castSession, sessionVars, bindVars, mutex, thread>>

\* ...and neither does OnShutdown.
OnShutdown(k) ==
  /\ PeersMayClose
  /\ socket[k].role = "client"
  /\ Shutdown(k)
  /\ UNCHANGED <<dataVars, castSession, sessionVars, bindVars, mutex, thread>>

\* DestroyCastSession, of a session that has let go of its devices.
RemoveSessionListener(s) ==
  /\ s \in listeners
  /\ listed[s] = {}
  /\ listeners' = listeners \ {s}
  /\ UNCHANGED <<dataVars, linkVars, created, listed, bindVars, mutex, thread>>

(***************************************************************************)
(* The specification.                                                      *)
(***************************************************************************)
Connect(t) ==
  \/ \E s \in Sources, d \in Devices : AddDevice(t, s, d)
  \/ CheckConnected(t) \/ WaitListenerTimesOut(t) \/ UpdateDevice(t)
  \/ MarkConnecting(t) \/ SetConnectingDeviceId(t)
  \/ ConnectTrusted(t) \/ BindTarget(t) \/ BindTargetFails(t)
  \/ SetDeviceIsActiveAuth(t) \/ ExpectOnline(t)
  \/ RestoreFound(t) \/ ForgetConnecting(t) \/ ConfirmConnected(t)

Callback(t) ==
  \/ \E d \in Devices : OnBindResult(t, d) \/ OnDeviceOnline(t, d) \/ OnDeviceInfoFound(t, d)
  \/ OpenOnline(t) \/ AddFound(t)

OpenConsultSession(t) ==
  \/ GetDeviceNetworkId(t) \/ OpenSoftBusSocket(t) \/ Attempt(t)
  \/ CreateSocket(t) \/ CreateSocketFails(t) \/ BindSocket(t) \/ BindSocketFails(t)
  \/ Recheck(t) \/ SetDeviceTransId(t) \/ NotifyDisconnect(t) \/ SetConnected(t)

Disconnect(t) ==
  \/ \E s \in Sessions, d \in Devices : DisconnectDevice(t, s, d)
  \/ IsDeviceUsed(t) \/ MarkFound(t) \/ ForgetDropped(t) \/ ResetDeviceTransId(t)
  \/ CloseSession(t) \/ RemoveTransIdMapping(t) \/ UpdateDeviceByDeviceId(t)

Consult(t) ==
  \/ \E k \in Sockets, d \in Devices : OnSessionOpened(t, k, d)
  \/ \E k \in Sockets : OnConsultDataReceived(t, k)
  \/ MapSession(t) \/ AddConsulted(t) \/ MarkConsulted(t)
  \/ NotifyRemoteDeviceIsReady(t) \/ RefuseRemoteDevice(t)

Next ==
  \/ \E t \in Threads :
       Connect(t) \/ Callback(t) \/ OpenConsultSession(t) \/ Disconnect(t) \/ Consult(t)
  \/ \E d \in Devices : UpdateDeviceState(d)
  \/ \E k \in Sockets : OnSessionClosed(k) \/ OnShutdown(k)
  \/ \E s \in Sinks : RemoveSessionListener(s)

Spec == Init /\ [][Next]_vars

(***************************************************************************)
(* Properties.                                                             *)
(***************************************************************************)
Records(d, k) == d \in known /\ devices[d].transportId = k
Holds(t, k) == thread[t].sock = k

\* Sockets are never mixed up: the transport of a device, and the socket an
\* operation opens or is about to close, is open and leads to that device...
TransportsAreLive ==
  \A k \in Sockets :
    /\ \A d \in Devices : Records(d, k) => socket[k] = [peer |-> d, role |-> "client"]
    /\ \A t \in Threads : Holds(t, k) => socket[k] = [peer |-> thread[t].dev, role |-> "client"]

\* ...and has one owner, so that nobody uses or closes what another is closing.
TransportsHaveOneOwner ==
  \A k \in Sockets, t \in Threads : Holds(t, k) =>
    /\ \A d \in Devices : ~Records(d, k)
    /\ \A u \in Threads : Holds(u, k) => u = t

\* OpenSoftBusSocket accounts for every socket it creates, on each of its
\* ways out: it is recorded for the device or shut down.  Nor does what it
\* records displace a socket that is recorded already.
OpeningAccountsForSocket ==
  [][\A k \in Sockets :
       /\ \A t \in Threads : Holds(t, k) /\ ~Holds(t, k)' =>
            socket'[k] = Free \/ \E d \in Devices : Records(d, k)'
       /\ \A d \in Devices : Records(d, k) /\ d \in known' =>
            devices'[d].transportId \in {k, None}]_vars

\* Two connections of peers are never given one session.
SessionServesOneConnection ==
  \A j, k \in Sockets : castSession[j] = castSession[k] /\ castSession[j] # None => j = k
=============================================================================
