----------------------------- MODULE Discovery -----------------------------
(***************************************************************************)
(* The discovery of devices (service/src/device_manager/src/               *)
(* discovery_manager.cpp) and the locks it shares with the connection      *)
(* manager and the session manager service.                                *)
(*                                                                         *)
(* Four kinds of threads meet here: requests of clients start, stop and    *)
(* release discovery; sessions connect and disconnect devices, which stops *)
(* it; one thread of the event runner scans, and ages the devices of the   *)
(* scans before; threads of the device manager (DM) report what they find. *)
(* A step ends where a thread asks for a mutex or lets one go.  The device *)
(* data has a mutex of its own that nobody holds for longer than a call.   *)
(*                                                                         *)
(* External: DM, the event runner, and the rest of ConnectDevice and       *)
(* DisconnectDevice, which module Connection describes.                    *)
(***************************************************************************)
EXTENDS Naturals, FiniteSets

CONSTANTS
  Devices,
  Kinds,        \* the ways a device announces itself: WLAN, BLE
  Clients,      \* threads that carry out requests of clients
  Sessions,     \* threads that connect and disconnect devices
  Watchers,     \* threads that follow the death of DM
  Finders,      \* threads in which DM reports devices
  MaxCalls,     \* bound: operations of the clients, the sessions and the watchers
  TimeoutCount, \* TIMEOUT_COUNT: scans in a discovery
  NoDevice

ASSUME DiscoveryAssumption ==
  /\ MaxCalls \in Nat /\ TimeoutCount \in Nat /\ NoDevice \notin Devices
  /\ IsFiniteSet(Clients \cup Sessions \cup Watchers \cup Finders)
  /\ "scan" \notin Clients \cup Sessions \cup Watchers \cup Finders  \* the event runner's
  /\ (Clients \cup Sessions \cup Watchers) \cap Finders = {}

VARIABLES
  op,          \* what a thread carries out
  at,          \* where it is
  dev,         \* the device it is busy with
  calls,       \* how many operations were begun
  found,       \* the device a finder reports, or the scan is done with, and by which kind
  expired,     \* UpdateDeviceStateLocked: entries still to be reported offline
  base,        \* scanCount_ as the scan read it
  remoteDeviceMap, scanCount, reportTypeMap, hasStartDiscovery,
  listener,    \* DiscoveryManager has its listener
  sink,        \* ConnectionManager has its listener
  connecting,  \* connectingDeviceId_
  data,        \* CastDeviceDataManager's devices
  queue,       \* the event handler's queue, and its scanCount
  runner,      \* the event runner
  served,      \* clients listen to the service
  discovering, \* DM is discovering
  online,      \* devices the clients were last told are there
  quiet,       \* scans since a device was found, up to 2
  torn         \* devices whose entries were changed under a finder, see MidFind, or
               \* aged by a count that StartDiscovery had reset

threadVars == <<op, at, dev, calls, found, expired, base>>
mapVars == <<remoteDeviceMap, scanCount, reportTypeMap>>
eventVars == <<hasStartDiscovery, queue, runner, discovering>>
otherVars == <<listener, sink, connecting, data, served>>
history == <<online, quiet, torn>>
vars == <<threadVars, mapVars, eventVars, otherVars, history>>

Scan == "scan"
Callers == Clients \cup Sessions \cup Watchers
Threads == Callers \cup Finders \cup {Scan}

Unknown == [known |-> FALSE, fresh |-> {}, addr |-> {}]

(* A CastInnerRemoteDevice as its operator== tells it from others: what it was   *)
(* found by lately, the addresses known of it, whether it has a name.            *)
Faces == [dev : Devices, fresh : SUBSET Kinds, addr : SUBSET Kinds, blank : BOOLEAN]
Entry(r, n) == [face |-> r, count |-> n]
Report(r, kinds) == [face |-> r, by |-> kinds]
Nothing == Report([dev |-> NoDevice, fresh |-> {}, addr |-> {}, blank |-> FALSE], {})

Init ==
  /\ op = [t \in Threads |-> "none"]
  /\ at = [t \in Threads |-> "idle"]
  /\ dev = [t \in Threads |-> NoDevice]
  /\ calls = 0
  /\ found = [f \in Finders \cup {Scan} |-> Nothing]
  /\ expired = {} /\ base = 0
  /\ remoteDeviceMap = {} /\ scanCount = 0 /\ reportTypeMap = {}
  /\ hasStartDiscovery = FALSE
  /\ listener = TRUE /\ sink = TRUE /\ served = TRUE
  /\ connecting = NoDevice
  /\ data = [d \in Devices |-> Unknown]
  /\ queue = [start |-> FALSE, continue |-> 0, count |-> 0]
  /\ runner = [spawned |-> 0, running |-> FALSE, finished |-> FALSE, crossed |-> FALSE]
  /\ discovering = FALSE
  /\ online = {} /\ quiet = [d \in Devices |-> 0] /\ torn = {}

-----------------------------------------------------------------------------
(* Locks.  Where a thread is tells what it holds and what it asks for.           *)

Stopping == {"fresh", "halt"}   \* in StopDiscovery

Wants(t, lock) ==
  CASE lock = "dm" -> at[t] \in {"clear", "fresh", "check", "reset", "update", "look",
                                 "report", "list"}
    [] lock = "cm" -> at[t] \in {"placeholder", "set", "drop", "fail", "again", "resetSink",
                                 "ask", "sink"}
    [] lock = "read" -> at[t] \in {"request", "report", "tell"}
    [] lock = "write" -> at[t] = "enter"

HoldsReporting(t, lock) ==  \* mutant
  CASE lock = "dm" -> at[t] \in {"placeholder", "ask", "sink", "tell", "report"}
    [] lock = "cm" -> op[t] = "disconnect" /\ at[t] \in Stopping
    [] lock = "read" -> op[t] = "stop" /\ at[t] \in Stopping
    [] lock = "write" -> op[t] = "release" /\ at[t] # "enter"

(* DiscoveryManager's mutex is held through UpdateDeviceStateLocked and by       *)
(* StartDiscovery, ConnectionManager's by DisconnectDevice, the service's shared *)
(* mutex by StopDiscovery to read and by Release to write.                       *)
Holds(t, lock) ==
  CASE lock = "dm" -> at[t] \in {"placeholder", "ask", "sink", "tell"}
    [] lock = "cm" -> op[t] = "disconnect" /\ at[t] \in Stopping
    [] lock = "read" -> op[t] = "stop" /\ at[t] \in Stopping
    [] lock = "write" -> op[t] = "release" /\ at[t] # "enter"

(* A writer that waits keeps new readers out (std::shared_mutex of libc++).      *)
Bars(u, t) ==
  \/ Wants(t, "dm") /\ Holds(u, "dm")
  \/ Wants(t, "cm") /\ Holds(u, "cm")
  \/ Wants(t, "read") /\ op[u] = "release"
  \/ Wants(t, "write") /\ (Holds(u, "read") \/ Holds(u, "write"))

Granted(t) == \A u \in Threads \ {t} : ~Bars(u, t)

Is(t, place) == at[t] = place /\ Granted(t)
Go(t, place) == at' = [at EXCEPT ![t] = place]
Done(t) ==
  /\ at' = [at EXCEPT ![t] = "idle"]
  /\ op' = [op EXCEPT ![t] = "none"]
  /\ dev' = [dev EXCEPT ![t] = NoDevice]

Begin(t, o, d, place) ==
  /\ op[t] = "none" /\ calls < MaxCalls
  /\ calls' = calls + 1
  /\ op' = [op EXCEPT ![t] = o]
  /\ dev' = [dev EXCEPT ![t] = d]
  /\ Go(t, place)
  /\ UNCHANGED <<found, expired, base, mapVars, eventVars, otherVars, history>>

Listed(d) == {e \in remoteDeviceMap : e.face.dev = d}
ListedDevices == {e.face.dev : e \in remoteDeviceMap}
NotFresh(S) == [d \in Devices |-> IF d \in S THEN [data[d] EXCEPT !.fresh = {}] ELSE data[d]]

(* A finder has looked at the map and has not entered its device yet.            *)
MidFind(f) == at[f] \in {"add", "report", "list"}
Midway == {dev[f] : f \in {g \in Finders : MidFind(g)}}

-----------------------------------------------------------------------------
(* DiscoveryManager::StartDiscovery.                                             *)

StartDiscovery(t) == Begin(t, "start", NoDevice, "clear")

ClearWithoutThread(t) ==  \* mutant
  /\ Is(t, "clear")
  /\ UNCHANGED runner
  /\ scanCount' = 0
  /\ data' = NotFresh(ListedDevices)
  /\ remoteDeviceMap' = {}
  /\ torn' = Midway
  /\ Go(t, "placeholder")
  /\ UNCHANGED <<op, dev, calls, found, expired, base, reportTypeMap, hasStartDiscovery,
                 queue, discovering, listener, sink, connecting, served, online, quiet>>

(* Under the mutex: a thread is started for the event runner and the devices of  *)
(* the last discovery are forgotten...                                           *)
ClearDevices(t) ==
  /\ Is(t, "clear")
  /\ runner' = [runner EXCEPT !.spawned = @ + 1]
  /\ scanCount' = 0
  /\ data' = NotFresh(ListedDevices)
  /\ remoteDeviceMap' = {}
  /\ torn' = Midway
  /\ Go(t, "placeholder")
  /\ UNCHANGED <<op, dev, calls, found, expired, base, reportTypeMap, hasStartDiscovery,
                 queue, discovering, listener, sink, connecting, served, online, quiet>>

Placeholder(d) ==
  IF d # NoDevice /\ data[d].known
    THEN {Entry([dev |-> d, fresh |-> data[d].fresh, addr |-> data[d].addr, blank |-> TRUE],
                scanCount + 1)}
    ELSE {}

(* ...but for the one that is connecting, which stays under an empty name.       *)
KeepConnecting(t) ==
  /\ Is(t, "placeholder")
  /\ remoteDeviceMap' = remoteDeviceMap \cup Placeholder(connecting)
  /\ hasStartDiscovery' = TRUE
  /\ queue' = [queue EXCEPT !.start = TRUE]
  /\ Done(t)
  /\ UNCHANGED <<calls, found, expired, base, scanCount, reportTypeMap, runner, discovering,
                 otherVars, history>>

-----------------------------------------------------------------------------
(* DiscoveryManager::StopDiscovery, for whoever calls it: the flag first...       *)

MarkStopped(t) == hasStartDiscovery' = FALSE /\ Go(t, "fresh")

StopDiscovery(t) == Begin(t, "stop", NoDevice, "request")

LockShared(t) ==
  /\ Is(t, "request")
  /\ MarkStopped(t)
  /\ UNCHANGED <<op, dev, calls, found, expired, base, mapVars, queue, runner, discovering,
                 otherVars, history>>

(* ...then the devices, under the mutex...                                       *)
SetDeviceNotFresh(t) ==
  /\ Is(t, "fresh")
  /\ data' = NotFresh(ListedDevices)
  /\ Go(t, "halt")
  /\ UNCHANGED <<op, dev, calls, found, expired, base, mapVars, eventVars, listener, sink,
                 connecting, served, history>>

(* ...then the events, the runner and DM.  A connection goes on to bind or open  *)
(* the device, which may fail; a disconnection unlocks, and goes on only if the  *)
(* device was used; Deinit goes on.                                              *)
StopDmDiscovery(t) ==
  /\ at[t] = "halt"
  /\ queue' = [queue EXCEPT !.start = FALSE, !.continue = 0]
  /\ runner' = [runner EXCEPT !.finished = @ \/ runner.running,
                  !.crossed = @ \/ \E u \in Callers : at[u] = "placeholder"]
  /\ discovering' = FALSE
  /\ \/ op[t] \in {"stop", "connect", "disconnect"} /\ Done(t)
     \/ op[t] = "connect" /\ Go(t, "fail") /\ UNCHANGED <<op, dev>>
     \/ op[t] = "disconnect" /\ Go(t, "again") /\ UNCHANGED <<op, dev>>
     \/ op[t] \in {"release", "died"} /\ Go(t, "reset") /\ UNCHANGED <<op, dev>>
  /\ UNCHANGED <<calls, found, expired, base, mapVars, hasStartDiscovery, otherVars, history>>

-----------------------------------------------------------------------------
(* ConnectionManager::ConnectDevice and DisconnectDevice.                        *)

ConnectDevice(t, d) == data[d].known /\ Begin(t, "connect", d, "set")

SetConnectingDeviceId(t) ==
  /\ Is(t, "set")
  /\ connecting' = dev[t]
  /\ MarkStopped(t)
  /\ UNCHANGED <<op, dev, calls, found, expired, base, mapVars, queue, runner, discovering,
                 listener, sink, data, served, history>>

DisconnectDevice(t) == Begin(t, "disconnect", NoDevice, "drop")

(* The mutex stays locked through StopDiscovery.                                 *)
DropConnecting(t) ==
  /\ Is(t, "drop")
  /\ connecting' = NoDevice
  /\ MarkStopped(t)
  /\ UNCHANGED <<op, dev, calls, found, expired, base, mapVars, queue, runner, discovering,
                 listener, sink, data, served, history>>

ClearConnectingDeviceId(t) ==
  /\ Is(t, "fail") \/ Is(t, "again")
  /\ connecting' = NoDevice
  /\ Done(t)
  /\ UNCHANGED <<calls, found, expired, base, mapVars, eventVars, listener, sink, data, served,
                 history>>

-----------------------------------------------------------------------------
(* CastSessionManagerService::Release, and the death of DM: Deinit.              *)

Release(t) == Begin(t, "release", NoDevice, "enter")

ReleaseLocked(t) ==
  /\ Is(t, "enter")
  /\ IF served THEN Go(t, "check") /\ UNCHANGED <<op, dev>> ELSE Done(t)
  /\ served' = FALSE
  /\ online' = {}
  /\ UNCHANGED <<calls, found, expired, base, mapVars, eventVars, listener, sink, connecting,
                 data, quiet, torn>>

(* DM is gone, and its discovery with it; to initialise it again may fail.       *)
OnRemoteDied(t) ==
  /\ op[t] = "none" /\ calls < MaxCalls
  /\ calls' = calls + 1
  /\ discovering' = FALSE
  /\ \/ UNCHANGED <<op, at>>
     \/ op' = [op EXCEPT ![t] = "died"] /\ Go(t, "check")
  /\ UNCHANGED <<dev, found, expired, base, mapVars, hasStartDiscovery, queue, runner,
                 otherVars, history>>

Deinit(t) ==
  /\ Is(t, "check")
  /\ \/ listener /\ MarkStopped(t) /\ UNCHANGED <<op, dev>>
     \/ /\ ~listener /\ UNCHANGED hasStartDiscovery
        /\ \/ op[t] = "release" /\ Go(t, "resetSink") /\ UNCHANGED <<op, dev>>
           \/ op[t] = "died" /\ Done(t)
  /\ UNCHANGED <<calls, found, expired, base, mapVars, queue, runner, discovering, otherVars,
                 history>>

ResetListener(t) ==
  /\ Is(t, "reset")
  /\ listener' = FALSE
  /\ \/ op[t] = "release" /\ Go(t, "resetSink") /\ UNCHANGED <<op, dev>>
     \/ op[t] = "died" /\ Done(t)
  /\ UNCHANGED <<calls, found, expired, base, mapVars, eventVars, sink, connecting, data,
                 served, history>>

DeinitConnections(t) ==
  /\ Is(t, "resetSink")
  /\ sink' = FALSE
  /\ Done(t)
  /\ UNCHANGED <<calls, found, expired, base, mapVars, eventVars, listener, connecting, data,
                 served, history>>

-----------------------------------------------------------------------------
(* The event runner: a thread that finds it running returns at once, and one     *)
(* that was told to stop leaves when it is through with its event.               *)

Run ==
  /\ runner.spawned > 0
  /\ runner' = IF runner.running
                 THEN [runner EXCEPT !.spawned = @ - 1, !.crossed = @ \/ runner.finished]
                 ELSE [runner EXCEPT !.spawned = @ - 1, !.running = TRUE, !.finished = FALSE]
  /\ UNCHANGED <<threadVars, mapVars, hasStartDiscovery, queue, discovering, otherVars, history>>

Leave ==
  /\ at[Scan] = "idle" /\ runner.finished
  /\ runner' = [runner EXCEPT !.running = FALSE, !.finished = FALSE]
  /\ UNCHANGED <<threadVars, mapVars, hasStartDiscovery, queue, discovering, otherVars, history>>

Queued(event) == IF event = "start" THEN queue.start ELSE queue.continue > 0

Dequeued(event) == IF event = "start" THEN [queue EXCEPT !.start = FALSE]
                                      ELSE [queue EXCEPT !.continue = @ - 1]

(* DiscoveryEventHandler::ProcessEvent stops DM's discovery, and does no more    *)
(* after StopDiscovery...                                                        *)
SkipEvent(event) ==
  /\ at[Scan] = "idle" /\ runner.running /\ ~runner.finished /\ Queued(event)
  /\ ~hasStartDiscovery
  /\ queue' = Dequeued(event)
  /\ discovering' = FALSE
  /\ UNCHANGED <<threadVars, mapVars, hasStartDiscovery, runner, otherVars, history>>

(* ...or sends the next event, up to a number of scans, and scans.               *)
ProcessEvent(event) ==
  LET n == IF event = "start" THEN 1 ELSE queue.count + 1 IN
  /\ at[Scan] = "idle" /\ runner.running /\ ~runner.finished /\ Queued(event)
  /\ hasStartDiscovery
  /\ queue' = [Dequeued(event) EXCEPT !.count = n,
                 !.continue = IF event = "start" \/ n < TimeoutCount THEN @ + 1 ELSE @]
  /\ discovering' = FALSE
  /\ op' = [op EXCEPT ![Scan] = "scan"]
  /\ Go(Scan, "update")
  /\ UNCHANGED <<dev, calls, found, expired, base, mapVars, hasStartDiscovery, runner,
                 otherVars, history>>

(* What RemoveDeviceInfo leaves of a device that was last found in the last scan.*)
Refreshed(d) ==
  IF \E e \in Listed(d) : e.count = scanCount
    THEN LET reported == {k \in Kinds : <<d, k>> \in reportTypeMap} IN
         [data[d] EXCEPT !.fresh = @ \cap reported, !.addr = @ \cap reported]
    ELSE data[d]

MissedOnce(e) == e.count < scanCount  \* mutant
Missed(e) == e.count + 1 < scanCount

(* UpdateDeviceStateLocked is through with the entries but for those in rest.    *)
AgedBut(rest) ==
  /\ expired' = rest
  /\ IF rest = {}
       THEN Go(Scan, "count") /\ reportTypeMap' = {} /\ base' = scanCount
       ELSE Go(Scan, "ask") /\ UNCHANGED <<reportTypeMap, base>>

UpdateDeviceState ==
  /\ Is(Scan, "update")
  /\ data' = [d \in Devices |-> Refreshed(d)]
  /\ AgedBut({e \in remoteDeviceMap : Missed(e)})
  /\ UNCHANGED <<op, dev, calls, found, remoteDeviceMap, scanCount, eventVars, listener, sink,
                 connecting, served, history>>

GetConnectingDeviceId(e) ==
  /\ Is(Scan, "ask") /\ e \in expired
  /\ IF connecting = e.face.dev
       THEN AgedBut(expired \ {e}) /\ UNCHANGED <<dev, found>>
       ELSE /\ Go(Scan, "sink")
            /\ dev' = [dev EXCEPT ![Scan] = e.face.dev]
            /\ found' = [found EXCEPT ![Scan] = Report(e.face, {})]
            /\ UNCHANGED <<expired, base, reportTypeMap>>
  /\ UNCHANGED <<op, calls, remoteDeviceMap, scanCount, eventVars, otherVars, history>>

(* NotifyDeviceIsOffline, which also takes the service's mutex unless            *)
(* ConnectionManager lost its listener; then the device is removed.              *)
NotifyDeviceIsOffline ==
  /\ Is(Scan, "sink") /\ sink
  /\ Go(Scan, "tell")
  /\ UNCHANGED <<op, dev, calls, found, expired, base, mapVars, eventVars, otherVars, history>>

NoEntry == {}  \* mutant
AgedEntry == {e \in remoteDeviceMap : e.face = found[Scan].face}

RemoveDevice(d) ==
  /\ data' = [data EXCEPT ![d] = Unknown]
  /\ remoteDeviceMap' = remoteDeviceMap \ AgedEntry
  /\ AgedBut(expired \ AgedEntry)
  /\ dev' = [dev EXCEPT ![Scan] = NoDevice]
  /\ found' = [found EXCEPT ![Scan] = Nothing]
  /\ torn' = torn \cup ({d} \cap Midway)
  /\ UNCHANGED <<op, calls, scanCount, eventVars, listener, sink, connecting, served, quiet>>

ReportDeviceOffline ==
  /\ Is(Scan, "tell")
  /\ online' = online \ {dev[Scan]}
  /\ RemoveDevice(dev[Scan])

RemoveUnreported ==
  /\ Is(Scan, "sink") /\ ~sink
  /\ UNCHANGED online
  /\ RemoveDevice(dev[Scan])

(* scanCount_++ is done with no mutex: it may be from before StartDiscovery's    *)
(* reset that it counts on.  A DM that refuses is like one that finds nothing.    *)
StartDmDiscovery ==
  /\ at[Scan] = "count"
  /\ \E n \in {base, scanCount} :
       /\ scanCount' = n + 1
       /\ torn' = IF n = scanCount THEN torn ELSE torn \cup ListedDevices
  /\ discovering' = TRUE
  /\ quiet' = [d \in Devices |-> IF quiet[d] < 2 THEN quiet[d] + 1 ELSE 2]
  /\ base' = 0
  /\ Done(Scan)
  /\ UNCHANGED <<calls, found, expired, remoteDeviceMap, reportTypeMap, hasStartDiscovery,
                 queue, runner, otherVars, online>>

-----------------------------------------------------------------------------
(* DiscoveryManager::OnDeviceInfoFound: DM has found d by kind k.                *)

(* CreateRemoteDevice *)
RemoteDevice(d, k) ==
  [dev |-> d, fresh |-> data[d].fresh \cup {k}, addr |-> data[d].addr \cup {k}, blank |-> FALSE]

OnDeviceInfoFound(f, d, k) ==
  /\ discovering /\ at[f] = "idle"
  /\ op' = [op EXCEPT ![f] = "found"]
  /\ dev' = [dev EXCEPT ![f] = d]
  /\ found' = [found EXCEPT ![f] = Report(RemoteDevice(d, k), {k})]
  /\ Go(f, "look")
  /\ UNCHANGED <<calls, expired, base, mapVars, eventVars, otherVars, history>>

FindExisting(f) ==
  /\ Is(f, "look") /\ \E e \in remoteDeviceMap : e.face = found[f].face
  /\ Go(f, "list")
  /\ UNCHANGED <<op, dev, calls, found, expired, base, mapVars, eventVars, otherVars, history>>

(* A new or a changed device: RemoveSameDeviceLocked drops an entry it had.      *)
RemoveSameDevice(f) ==
  LET same == Listed(dev[f]) IN
  /\ Is(f, "look") /\ ~\E e \in remoteDeviceMap : e.face = found[f].face
  /\ \/ same = {} /\ UNCHANGED <<remoteDeviceMap, torn>>
     \/ /\ \E e \in same : remoteDeviceMap' = remoteDeviceMap \ {e}
        /\ torn' = torn \cup ({dev[f]} \cap Midway)
  /\ Go(f, "add")
  /\ UNCHANGED <<op, dev, calls, found, expired, base, scanCount, reportTypeMap, eventVars,
                 otherVars, online, quiet>>

AddDevice(f) ==
  /\ at[f] = "add"
  /\ data' = [data EXCEPT ![dev[f]] =
                [known |-> TRUE, fresh |-> found[f].face.fresh, addr |-> found[f].face.addr]]
  /\ Go(f, "report")
  /\ UNCHANGED <<op, dev, calls, found, expired, base, mapVars, eventVars, listener, sink,
                 connecting, served, history>>

(* GetListener, with DiscoveryManager's mutex, and then the report, with the     *)
(* service's: a finder that waits has no mutex in hand.                          *)
NotifyDeviceIsFound(f) ==
  /\ Is(f, "report")
  /\ online' = IF listener /\ served THEN online \cup {dev[f]} ELSE online
  /\ Go(f, "list")
  /\ UNCHANGED <<op, dev, calls, found, expired, base, mapVars, eventVars, otherVars, quiet, torn>>

OthersMidway(f) == {dev[g] : g \in {h \in Finders \ {f} : MidFind(h)}}

(* The entry is made, or renewed, whatever became of the map meanwhile.          *)
ListDevice(f) ==
  LET face == found[f].face IN
  /\ Is(f, "list")
  /\ remoteDeviceMap' = {e \in remoteDeviceMap : e.face # face} \cup {Entry(face, scanCount)}
  /\ reportTypeMap' = reportTypeMap \cup ({dev[f]} \X found[f].by)
  /\ quiet' = [quiet EXCEPT ![dev[f]] = 0]
  /\ torn' = torn \cup ({dev[f]} \cap OthersMidway(f))
  /\ found' = [found EXCEPT ![f] = Nothing]
  /\ Done(f)
  /\ UNCHANGED <<calls, expired, base, scanCount, eventVars, otherVars, online>>

-----------------------------------------------------------------------------
Steps(t) ==
  \/ ClearDevices(t) \/ KeepConnecting(t) \/ LockShared(t)
  \/ SetDeviceNotFresh(t) \/ StopDmDiscovery(t)
  \/ SetConnectingDeviceId(t) \/ DropConnecting(t) \/ ClearConnectingDeviceId(t)
  \/ ReleaseLocked(t) \/ Deinit(t) \/ ResetListener(t) \/ DeinitConnections(t)

Scanning ==
  \/ \E event \in {"start", "continue"} : SkipEvent(event) \/ ProcessEvent(event)
  \/ UpdateDeviceState
  \/ \E e \in remoteDeviceMap : GetConnectingDeviceId(e)
  \/ NotifyDeviceIsOffline \/ ReportDeviceOffline \/ RemoveUnreported \/ StartDmDiscovery

Finding(f) ==
  \/ FindExisting(f) \/ RemoveSameDevice(f) \/ AddDevice(f) \/ NotifyDeviceIsFound(f)
  \/ ListDevice(f)

Next ==
  \/ \E t \in Clients : StartDiscovery(t) \/ StopDiscovery(t) \/ Release(t)
  \/ \E t \in Sessions : DisconnectDevice(t) \/ \E d \in Devices : ConnectDevice(t, d)
  \/ \E t \in Watchers : OnRemoteDied(t)
  \/ \E t \in Callers : Steps(t)
  \/ Run \/ Leave \/ Scanning
  \/ \E f \in Finders :
       Finding(f) \/ \E d \in Devices, k \in Kinds : OnDeviceInfoFound(f, d, k)

Spec == Init /\ [][Next]_vars

(***************************************************************************)
(* Properties.                                                             *)
(***************************************************************************)
Holders(lock) == {t \in Threads : Holds(t, lock)}

\* Types, and that a mutex has one owner.
TypeOK ==
  /\ calls \in 0..MaxCalls /\ DOMAIN op = Threads /\ DOMAIN at = Threads
  /\ dev \in [Threads -> Devices \cup {NoDevice}] /\ connecting \in Devices \cup {NoDevice}
  /\ \A e \in remoteDeviceMap \cup expired : e.face \in Faces /\ e.count \in Nat
  /\ data \in [Devices -> [known : BOOLEAN, fresh : SUBSET Kinds, addr : SUBSET Kinds]]
  /\ queue \in [start : BOOLEAN, continue : Nat, count : Nat]
  /\ {hasStartDiscovery, listener, sink, served, discovering} \subseteq BOOLEAN
  /\ online \cup torn \subseteq Devices /\ quiet \in [Devices -> 0..2]
  /\ \A lock \in {"dm", "cm", "write"} : Cardinality(Holders(lock)) <= 1
  /\ Holders("read") = {} \/ Holders("write") = {}

Waiting == {t \in Threads : \E u \in Threads : Bars(u, t)}
Deadlocked(S) == S # {} /\ \A t \in S : \E u \in S : Bars(u, t)
AskingUnderLock == {t \in Threads : at[t] \in {"placeholder", "ask", "sink", "tell"}}

\* A deadlock always runs through StartDiscovery or the scan, asking for
\* another mutex with DiscoveryManager's in hand: no other order of locking in
\* these components can close a circle.
DeadlocksAskUnderLock == \A S \in SUBSET (Waiting \ AskingUnderLock) : ~Deadlocked(S)

\* A device in the list is one the device data knows and the clients were told
\* of, so that its loss will be reported, and its next find need not be: unless
\* the list was changed under a finder between its two looks.
ListedIsReported ==
  listener /\ sink /\ served =>
    \A d \in Devices \ (torn \cup Midway) :
      (\E e \in Listed(d) : ~e.face.blank) => data[d].known /\ d \in online

\* A device is reported offline only when two scans have begun since it was
\* last found, unless its entry was changed under a finder or aged by a count
\* from before StartDiscovery's reset.
OfflineIsDue ==
  [][\A d \in Devices \ torn : d \in online /\ d \notin online' /\ served' => quiet[d] = 2]_vars

\* A discovery that was started has a thread that will scan for it, unless a
\* stop has crossed a start, so that the runner leaves with the event unread.
StartHasRunner ==
  queue.start => runner.spawned > 0 \/ (runner.running /\ ~runner.finished) \/ runner.crossed
=============================================================================
