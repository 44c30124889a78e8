-------------------------- MODULE ConnectionProofs --------------------------
(***************************************************************************)
(* Connection keeps its types, accounts for every socket it opens and, as  *)
(* long as peers do not shut the sockets that were opened to them, never   *)
(* mixes sockets up, for any number of devices, sessions, sockets and      *)
(* operations at a time.                                                   *)
(*                                                                         *)
(* Most steps touch no socket, no transport of a device and no operation's *)
(* own socket: they are quiet.  Those that are not hand a socket from one  *)
(* owner to the next (CreateSocket, SetDeviceTransId, ResetDeviceTransId), *)
(* shut the operation's own, or open or shut one that nobody owns.         *)
(***************************************************************************)
EXTENDS Connection, TLAPS

(***************************************************************************)
(* The type invariant, in parts.                                           *)
(***************************************************************************)
\* What an operation is busy with, beyond its type.
Serving ==
  \A t \in Threads :
    /\ thread[t].pc \notin {"idle", "ready"} => thread[t].dev \in Devices
    /\ thread[t].pc = "ready" => thread[t].session \in Sinks

ThreadOK ==
  /\ thread \in [Threads -> Operation]
  /\ \A t \in Threads : thread[t].sock # None => thread[t].pc \in Holding
  /\ Serving

\* A device that is not known has no transport.
DataOK ==
  /\ known \subseteq Devices
  /\ devices \in [Devices -> DeviceInfo]
  /\ \A d \in Devices \ known : devices[d].transportId = None

\* A socket that is open leads to a device.
LinkOK ==
  /\ socket \in [Sockets -> Socket]
  /\ castSession \in [Sockets -> Sinks \cup {None}]
  /\ \A k \in Sockets : socket[k].role = "server" => socket[k].peer \in Devices

SessionOK ==
  /\ listeners \subseteq Sinks
  /\ created \subseteq Sinks
  /\ listed \in [Sessions -> SUBSET Devices]

BindOK ==
  /\ connecting \in Devices \cup {None}
  /\ bindTarget \subseteq Devices
  /\ binding \subseteq Devices

MutexOK == mutex \in Threads \cup {None}

TypeInv == DataOK /\ LinkOK /\ SessionOK /\ BindOK /\ MutexOK /\ ThreadOK

LEMMA TypeInvIsTypeOK == TypeInv => TypeOK
  BY DEF TypeInv, TypeOK, DataOK, LinkOK, SessionOK, BindOK, MutexOK, ThreadOK

LEMMA NoneIsApart ==
  /\ \A k \in Sockets : k # None
  /\ \A d \in Devices : d # None
  /\ \A s \in Sinks : s # None
  BY ConnectionAssumption

(***************************************************************************)
(* Updates of the records.                                                 *)
(***************************************************************************)
LEMMA PlacesToGo == {"try", "bind", "open", "dropClose", "dropMap"} \subseteq Places
  BY DEF Places, Opening, Dropping

LEMMA PutAuth ==
  ASSUME NEW i \in DeviceInfo
  PROVE  [i EXCEPT !.isActiveAuth = TRUE] \in DeviceInfo
  BY DEF DeviceInfo

(***************************************************************************)
(* Quiet steps.                                                            *)
(***************************************************************************)
\* Every operation keeps the socket it has, and the device it has it for.
HoldsKept ==
  \A t \in Threads, k \in Sockets :
    /\ Holds(t, k)' <=> Holds(t, k)
    /\ Holds(t, k) => thread'[t].dev = thread[t].dev

\* A device may lose its transport and gets no other.
RecordsKept ==
  \A d \in Devices, k \in Sockets :
    /\ Records(d, k)' => Records(d, k)
    /\ Records(d, k) /\ d \in known' => devices'[d].transportId \in {k, None}

LEMMA GoToThread ==
  ASSUME ThreadOK, NEW t \in Threads, NEW place \in Places \ {"idle", "ready"}, GoTo(t, place),
         thread[t].pc \notin {"idle", "ready"},
         thread[t].pc \notin Holding \/ place \in Holding
  PROVE  ThreadOK' /\ HoldsKept
  <1>1. thread' \in [Threads -> Operation]
    BY DEF ThreadOK, GoTo, Operation
  <1>2. \A u \in Threads : thread'[u].sock = thread[u].sock /\ thread'[u].dev = thread[u].dev
                           /\ thread'[u].session = thread[u].session
    BY DEF ThreadOK, GoTo, Operation
  <1>3. thread'[t].pc = place /\ \A u \in Threads \ {t} : thread'[u] = thread[u]
    BY DEF ThreadOK, GoTo, Operation
  <1>4. ThreadOK'
    BY <1>1, <1>2, <1>3 DEF ThreadOK, Serving
  <1> QED
    BY <1>2, <1>4 DEF HoldsKept, Holds

LEMMA ReturnThread ==
  ASSUME ThreadOK, NEW t \in Threads, thread[t].pc \notin Holding, Return(t)
  PROVE  ThreadOK' /\ HoldsKept
  <1>1. thread' \in [Threads -> Operation]
    BY DEF ThreadOK, Return, Operation, Idle, Places
  <1>2. thread'[t] = Idle /\ \A u \in Threads \ {t} : thread'[u] = thread[u]
    BY DEF ThreadOK, Return
  <1>3. thread[t].sock = None
    BY DEF ThreadOK
  <1>4. ThreadOK'
    BY <1>1, <1>2 DEF ThreadOK, Serving, Idle
  <1> QED
    BY <1>2, <1>3, <1>4, NoneIsApart DEF HoldsKept, Holds, Idle

LEMMA StartThread ==
  ASSUME ThreadOK, NEW t \in Threads, NEW place \in Places \ Holding,
         NEW call \in {"connect", "callback", "drop", "consult"},
         NEW d \in Devices \cup {None}, NEW s \in Sessions \cup {None},
         NEW seen \in Sinks \cup {None}, NEW conn \in Sockets \cup {None},
         Start(t, place, call, d, s, seen, conn),
         place # "ready" => d \in Devices,
         place = "ready" => s \in Sinks
  PROVE  ThreadOK' /\ HoldsKept
  <1> DEFINE new == [pc |-> place, call |-> call, dev |-> d, session |-> s, seen |-> seen,
                     sock |-> None, conn |-> conn, first |-> FALSE]
  <1>1. thread' = [thread EXCEPT ![t] = new] /\ thread[t] = Idle
    BY DEF Start
  <1>2. new \in Operation
    BY DEF Operation
  <1>3. thread'[t] = new /\ \A u \in Threads \ {t} : thread'[u] = thread[u]
    BY <1>1 DEF ThreadOK
  <1>4. ThreadOK'
    BY <1>1, <1>2, <1>3 DEF ThreadOK, Serving
  <1> QED
    BY <1>1, <1>3, <1>4, NoneIsApart DEF HoldsKept, Holds, Idle

\* The general case: t's operation becomes new.
LEMMA PutThread ==
  ASSUME ThreadOK, NEW t \in Threads, NEW new \in Operation,
         thread' = [thread EXCEPT ![t] = new],
         new.pc \notin {"idle", "ready"}, new.dev \in Devices,
         new.sock # None => new.pc \in Holding
  PROVE  ThreadOK' /\ thread'[t] = new /\ \A u \in Threads \ {t} : thread'[u] = thread[u]
  <1>1. thread' \in [Threads -> Operation]
    BY DEF ThreadOK
  <1>2. thread'[t] = new /\ \A u \in Threads \ {t} : thread'[u] = thread[u]
    BY DEF ThreadOK
  <1> QED
    BY <1>1, <1>2 DEF ThreadOK, Serving

\* OpenSoftBusSocket ends or tries again: t has no socket any more.
LEMMA LeaveThread ==
  ASSUME ThreadOK, NEW t \in Threads, thread[t].dev \in Devices,
         NEW place \in {"failed", "connected"}, LeaveOpening(t, place)
  PROVE  /\ ThreadOK'
         /\ MutexOK'
         /\ thread'[t].sock = None /\ thread'[t].dev = thread[t].dev
         /\ \A u \in Threads \ {t} : thread'[u] = thread[u]
  <1> DEFINE new == [thread[t] EXCEPT !.pc = place, !.sock = None]
  <1>1. thread[t] \in Operation
    BY DEF ThreadOK
  <1>2. new \in Operation /\ new.dev = thread[t].dev /\ new.sock = None /\ new.pc = place
    BY <1>1 DEF Operation, Places
  <1>3. thread' = [thread EXCEPT ![t] = new]
    BY DEF LeaveOpening, ThreadOK
  <1>4. ThreadOK' /\ thread'[t] = new /\ \A u \in Threads \ {t} : thread'[u] = thread[u]
    BY <1>2, <1>3, PutThread
  <1> QED
    BY <1>2, <1>4 DEF MutexOK, LeaveOpening

LEMMA TryAgainThread ==
  ASSUME ThreadOK, MutexOK, NEW t \in Threads, thread[t].dev \in Devices, TryAgain(t)
  PROVE  /\ ThreadOK'
         /\ MutexOK'
         /\ thread'[t].sock = None /\ thread'[t].dev = thread[t].dev
         /\ \A u \in Threads \ {t} : thread'[u] = thread[u]
  <1>1. CASE thread[t].first
    <2> DEFINE new == [thread[t] EXCEPT !.pc = "try", !.sock = None, !.first = FALSE]
    <2>1. thread[t] \in Operation
      BY DEF ThreadOK
    <2>2. new \in Operation /\ new.dev = thread[t].dev /\ new.sock = None /\ new.pc = "try"
      <3>1. "try" \in Places
        BY PlacesToGo
      <3> QED
        BY <2>1, <3>1 DEF Operation
    <2>3. thread' = [thread EXCEPT ![t] = new]
      BY <1>1 DEF TryAgain, ThreadOK
    <2>4. ThreadOK' /\ thread'[t] = new /\ \A u \in Threads \ {t} : thread'[u] = thread[u]
      BY <2>2, <2>3, PutThread
    <2> QED
      BY <1>1, <2>2, <2>4 DEF MutexOK, TryAgain
  <1>2. CASE ~thread[t].first
    BY <1>2, LeaveThread DEF TryAgain
  <1> QED
    BY <1>1, <1>2

LEMMA StayThread ==
  ASSUME ThreadOK, UNCHANGED thread
  PROVE  ThreadOK' /\ HoldsKept
  BY DEF ThreadOK, Serving, HoldsKept, Holds

LEMMA SetStateData ==
  ASSUME DataOK, NEW d, NEW state \in {"UNKNOWN", "FOUND", "CONNECTING", "CONNECTED"},
         SetState(d, state)
  PROVE  DataOK' /\ RecordsKept
  BY DEF DataOK, DeviceInfo, SetState, RecordsKept, Records

LEMMA RemoveData ==
  ASSUME DataOK, NEW d, Remove(d)
  PROVE  DataOK' /\ RecordsKept
  BY NoneIsApart DEF DataOK, DeviceInfo, Remove, Reset, RecordsKept, Records

LEMMA AddData ==
  ASSUME DataOK, NEW d \in Devices, NEW session \in Sinks \cup {None}, AddToDevices(d, session)
  PROVE  DataOK' /\ RecordsKept
  <1>0. devices \in [Devices -> DeviceInfo] /\ known' = known \cup {d}
    BY DEF AddToDevices, DataOK
  <1>3. \/ devices' = [devices EXCEPT ![d] = [@ EXCEPT !.session = session]]
        \/ devices' = [devices EXCEPT ![d] = [@ EXCEPT !.session = session, !.state = "FOUND"]]
    <2>1. CASE d \in known
      <3>1. devices[d] \in DeviceInfo
        BY <1>0
      <3>2. [devices[d] EXCEPT !.session = session, !.state = devices[d].state]
              = [devices[d] EXCEPT !.session = session]
        BY <3>1 DEF DeviceInfo
      <3> QED
        BY <1>0, <2>1, <3>2 DEF AddToDevices
    <2>2. CASE d \notin known
      BY <1>0, <2>2 DEF AddToDevices
    <2> QED
      BY <2>1, <2>2
  <1>1. devices' \in [Devices -> DeviceInfo] /\ known' = known \cup {d}
    <2>1. devices[d] \in DeviceInfo
      BY <1>0
    <2>2. /\ [devices[d] EXCEPT !.session = session] \in DeviceInfo
          /\ [devices[d] EXCEPT !.session = session, !.state = "FOUND"] \in DeviceInfo
      BY <2>1 DEF DeviceInfo
    <2> QED
      BY <1>0, <1>3, <2>2
  <1>2. \A e \in Devices : devices'[e].transportId = devices[e].transportId
    BY DEF AddToDevices, DataOK, DeviceInfo
  <1> QED
    BY <1>1, <1>2, NoneIsApart DEF DataOK, RecordsKept, Records

LEMMA ResetData ==
  ASSUME DataOK, NEW d, devices' = [devices EXCEPT ![d] = Reset], UNCHANGED known
  PROVE  DataOK' /\ RecordsKept
  <1>1. Reset \in DeviceInfo /\ Reset.transportId = None
    BY DEF Reset, DeviceInfo
  <1>2. devices' \in [Devices -> DeviceInfo]
    BY <1>1 DEF DataOK
  <1>3. \A e \in Devices : devices'[e].transportId \in {devices[e].transportId, None}
    BY <1>1 DEF DataOK
  <1> QED
    BY <1>2, <1>3, NoneIsApart DEF DataOK, RecordsKept, Records

LEMMA StayData ==
  ASSUME DataOK, UNCHANGED dataVars
  PROVE  DataOK' /\ RecordsKept
  BY DEF DataOK, dataVars, RecordsKept, Records

(***************************************************************************)
(* Steps of each kind.                                                     *)
(***************************************************************************)
Quiet == HoldsKept /\ RecordsKept /\ UNCHANGED socket

LEMMA StayRest ==
  ASSUME TypeInv, UNCHANGED <<linkVars, sessionVars, bindVars, mutex>>
  PROVE  LinkOK' /\ SessionOK' /\ BindOK' /\ MutexOK' /\ UNCHANGED socket
  BY DEF TypeInv, LinkOK, SessionOK, BindOK, MutexOK, linkVars, sessionVars, bindVars

\* A client's AddDevice (cast_session_impl.cpp, connection_manager.cpp:651) is quiet.
LEMMA ConnectQuiet ==
  ASSUME TypeInv, NEW t \in Threads, Connect(t)
  PROVE  TypeInv' /\ Quiet
  <1>0. DataOK /\ LinkOK /\ SessionOK /\ BindOK /\ MutexOK /\ ThreadOK
    BY DEF TypeInv
  <1>1. CASE \E s \in Sources, d \in Devices : AddDevice(t, s, d)
    <2>1. PICK s \in Sources, d \in Devices : AddDevice(t, s, d)
      BY <1>1
    <2>2. devices[d].session \in Sinks \cup {None}
      BY <1>0 DEF DataOK, DeviceInfo
    <2>3. "check" \in Places \ Holding /\ s \in Sessions \cup {None} /\ None \in Sockets \cup {None}
      BY DEF Sessions, Places, Adding, Holding
    <2>4. Start(t, "check", "connect", d, s, devices[d].session, None)
      BY <2>1 DEF AddDevice
    <2>5. ThreadOK' /\ HoldsKept
      BY <2>2, <2>3, <2>4, <1>0, StartThread
    <2> QED
      BY <2>1, <2>5, <1>0, StayData, StayRest DEF AddDevice, TypeInv, Quiet
  <1>2. CASE CheckConnected(t)
    <2>1. ThreadOK' /\ HoldsKept
      BY <1>2, <1>0, GoToThread, ReturnThread DEF CheckConnected, At, Holding, Places, Adding, Opening, Dropping, Consulting
    <2>2. DataOK' /\ RecordsKept
      BY <1>2, <1>0, StayData DEF CheckConnected
    <2> QED
      BY <1>2, <2>1, <2>2, StayRest DEF CheckConnected, TypeInv, Quiet
  <1>3. CASE WaitListenerTimesOut(t)
    <2>1. ThreadOK' /\ HoldsKept
      BY <1>3, <1>0, ReturnThread DEF WaitListenerTimesOut, At, Holding
    <2>2. DataOK' /\ RecordsKept
      BY <1>3, <1>0, StayData DEF WaitListenerTimesOut
    <2> QED
      BY <1>3, <2>1, <2>2, StayRest DEF WaitListenerTimesOut, TypeInv, Quiet
  <1>4. CASE UpdateDevice(t)
    <2>1. ThreadOK' /\ HoldsKept
      BY <1>4, <1>0, GoToThread, ReturnThread DEF UpdateDevice, At, Holding, Places, Adding, Opening, Dropping, Consulting
    <2>2. DataOK' /\ RecordsKept
      BY <1>4, <1>0 DEF UpdateDevice, DataOK, DeviceInfo, RecordsKept, Records, ThreadOK, Operation, Serving, At, Places
    <2>3. LinkOK' /\ SessionOK' /\ BindOK' /\ MutexOK' /\ UNCHANGED socket
      BY <1>4, <1>0 DEF UpdateDevice, LinkOK, SessionOK, BindOK, MutexOK, linkVars, sessionVars, bindVars, ThreadOK, Serving, At, Operation
    <2> QED
      BY <2>1, <2>2, <2>3 DEF TypeInv, Quiet
  <1>5. CASE MarkConnecting(t)
    <2>1. ThreadOK' /\ HoldsKept
      BY <1>5, <1>0, GoToThread, ReturnThread DEF MarkConnecting, At, Holding, Places, Adding, Opening, Dropping, Consulting
    <2>2. DataOK' /\ RecordsKept
      BY <1>5, <1>0, SetStateData DEF MarkConnecting
    <2> QED
      BY <1>5, <2>1, <2>2, StayRest DEF MarkConnecting, TypeInv, Quiet
  <1>6. CASE SetConnectingDeviceId(t)
    <2>1. ThreadOK' /\ HoldsKept
      BY <1>6, <1>0, GoToThread DEF SetConnectingDeviceId, At, Holding, Places, Adding, Opening, Dropping, Consulting
    <2>2. DataOK' /\ RecordsKept
      BY <1>6, <1>0, StayData DEF SetConnectingDeviceId
    <2>3. LinkOK' /\ SessionOK' /\ BindOK' /\ MutexOK' /\ UNCHANGED socket
      BY <1>6, <1>0 DEF SetConnectingDeviceId, LinkOK, SessionOK, BindOK, MutexOK, linkVars, sessionVars, bindVars, ThreadOK, Serving, At, Operation
    <2> QED
      BY <2>1, <2>2, <2>3 DEF TypeInv, Quiet
  <1>7. CASE ConnectTrusted(t)
    <2>1. ThreadOK' /\ HoldsKept
      BY <1>7, <1>0, GoToThread DEF ConnectTrusted, At, Holding, Places, Adding, Opening, Dropping, Consulting
    <2>2. DataOK' /\ RecordsKept
      BY <1>7, <1>0, StayData DEF ConnectTrusted
    <2> QED
      BY <1>7, <2>1, <2>2, StayRest DEF ConnectTrusted, TypeInv, Quiet
  <1>8. CASE BindTarget(t)
    <2>1. ThreadOK' /\ HoldsKept
      BY <1>8, <1>0, GoToThread DEF BindTarget, At, Holding, Places, Adding, Opening, Dropping, Consulting
    <2>2. DataOK' /\ RecordsKept
      BY <1>8, <1>0, StayData DEF BindTarget
    <2>3. LinkOK' /\ SessionOK' /\ BindOK' /\ MutexOK' /\ UNCHANGED socket
      BY <1>8, <1>0 DEF BindTarget, LinkOK, SessionOK, BindOK, MutexOK, linkVars, sessionVars, bindVars, ThreadOK, Serving, At, Operation
    <2> QED
      BY <2>1, <2>2, <2>3 DEF TypeInv, Quiet
  <1>9. CASE BindTargetFails(t)
    <2>1. ThreadOK' /\ HoldsKept
      BY <1>9, <1>0, GoToThread DEF BindTargetFails, At, Holding, Places, Adding, Opening, Dropping, Consulting
    <2>2. DataOK' /\ RecordsKept
      BY <1>9, <1>0, StayData DEF BindTargetFails
    <2> QED
      BY <1>9, <2>1, <2>2, StayRest DEF BindTargetFails, TypeInv, Quiet
  <1>10. CASE SetDeviceIsActiveAuth(t)
    <2>1. ThreadOK' /\ HoldsKept
      BY <1>10, <1>0, GoToThread DEF SetDeviceIsActiveAuth, At, Holding, Places, Adding, Opening, Dropping, Consulting
    <2>2. DataOK' /\ RecordsKept
      <3>1. devices' \in [Devices -> DeviceInfo] /\ UNCHANGED known
        BY <1>10, <1>0, PutAuth DEF SetDeviceIsActiveAuth, DataOK
      <3>2. \A d \in Devices : devices'[d].transportId = devices[d].transportId
        BY <1>10, <1>0 DEF SetDeviceIsActiveAuth, DataOK, DeviceInfo
      <3> QED
        BY <3>1, <3>2, <1>0 DEF DataOK, RecordsKept, Records
    <2> QED
      BY <1>10, <2>1, <2>2, StayRest DEF SetDeviceIsActiveAuth, TypeInv, Quiet
  <1>11. CASE ExpectOnline(t)
    <2>1. ThreadOK' /\ HoldsKept
      BY <1>11, <1>0, ReturnThread DEF ExpectOnline, At, Holding
    <2>2. DataOK' /\ RecordsKept
      BY <1>11, <1>0, StayData DEF ExpectOnline
    <2>3. LinkOK' /\ SessionOK' /\ BindOK' /\ MutexOK' /\ UNCHANGED socket
      BY <1>11, <1>0 DEF ExpectOnline, LinkOK, SessionOK, BindOK, MutexOK, linkVars, sessionVars, bindVars, ThreadOK, Serving, At, Operation
    <2> QED
      BY <2>1, <2>2, <2>3 DEF TypeInv, Quiet
  <1>12. CASE RestoreFound(t)
    <2>1. ThreadOK' /\ HoldsKept
      BY <1>12, <1>0, GoToThread DEF RestoreFound, At, Holding, Places, Adding, Opening, Dropping, Consulting
    <2>2. DataOK' /\ RecordsKept
      BY <1>12, <1>0, SetStateData DEF RestoreFound
    <2> QED
      BY <1>12, <2>1, <2>2, StayRest DEF RestoreFound, TypeInv, Quiet
  <1>13. CASE ForgetConnecting(t)
    <2>1. ThreadOK' /\ HoldsKept
      BY <1>13, <1>0, ReturnThread DEF ForgetConnecting, At, Holding
    <2>2. DataOK' /\ RecordsKept
      BY <1>13, <1>0, StayData DEF ForgetConnecting
    <2>3. LinkOK' /\ SessionOK' /\ BindOK' /\ MutexOK' /\ UNCHANGED socket
      BY <1>13, <1>0 DEF ForgetConnecting, LinkOK, SessionOK, BindOK, MutexOK, linkVars, sessionVars, bindVars, ThreadOK, Serving, At, Operation
    <2> QED
      BY <2>1, <2>2, <2>3 DEF TypeInv, Quiet
  <1>14. CASE ConfirmConnected(t)
    <2>1. ThreadOK' /\ HoldsKept
      BY <1>14, <1>0, ReturnThread DEF ConfirmConnected, At, Holding
    <2>2. DataOK' /\ RecordsKept
      BY <1>14, <1>0, SetStateData DEF ConfirmConnected
    <2> QED
      BY <1>14, <2>1, <2>2, StayRest DEF ConfirmConnected, TypeInv, Quiet
  <1> QED
    BY <1>1, <1>2, <1>3, <1>4, <1>5, <1>6, <1>7, <1>8, <1>9, <1>10, <1>11, <1>12, <1>13, <1>14 DEF Connect

\* DeviceManager's callbacks (connection_manager.cpp:1458, 1624;
\* discovery_manager.cpp:262) are quiet.
LEMMA CallbackQuiet ==
  ASSUME TypeInv, NEW t \in Threads, Callback(t)
  PROVE  TypeInv' /\ Quiet
  <1>0. DataOK /\ LinkOK /\ SessionOK /\ BindOK /\ MutexOK /\ ThreadOK
    BY DEF TypeInv
  <1>1. CASE \E d \in Devices : OnBindResult(t, d)
    <2>1. PICK d \in Devices : OnBindResult(t, d)
      BY <1>1
    <2>2. devices[d].session \in Sinks \cup {None}
      BY <1>0 DEF DataOK, DeviceInfo
    <2>3. ThreadOK' /\ HoldsKept
      BY <2>1, <2>2, <1>0, StartThread, StayThread DEF OnBindResult, Places, Holding
    <2>4. BindOK' /\ LinkOK' /\ SessionOK' /\ MutexOK' /\ UNCHANGED socket
      BY <2>1, <1>0 DEF OnBindResult, BindOK, LinkOK, SessionOK, MutexOK, linkVars, sessionVars
    <2> QED
      BY <2>1, <2>3, <2>4, <1>0, StayData DEF OnBindResult, TypeInv, Quiet
  <1>2. CASE \E d \in Devices : OnDeviceOnline(t, d)
    <2>1. PICK d \in Devices : OnDeviceOnline(t, d)
      BY <1>2
    <2>3. ThreadOK' /\ HoldsKept
      BY <2>1, <1>0, StartThread DEF OnDeviceOnline, Places, Holding
    <2>4. BindOK' /\ LinkOK' /\ SessionOK' /\ MutexOK' /\ UNCHANGED socket
      BY <2>1, <1>0 DEF OnDeviceOnline, BindOK, LinkOK, SessionOK, MutexOK, linkVars, sessionVars
    <2> QED
      BY <2>1, <2>3, <2>4, <1>0, StayData DEF OnDeviceOnline, TypeInv, Quiet
  <1>3. CASE OpenOnline(t)
    <2>1. CASE thread' = [thread EXCEPT ![t].pc = "open", ![t].seen = devices[thread[t].dev].session]
      <3>1. thread[t].dev \in Devices /\ thread[t].sock = None
        BY <1>3, <1>0 DEF OpenOnline, At, ThreadOK, Serving, Holding
      <3>2. devices[thread[t].dev].session \in Sinks \cup {None}
        BY <1>0, <3>1 DEF DataOK, DeviceInfo
      <3> DEFINE new == [thread[t] EXCEPT !.pc = "open", !.seen = devices[thread[t].dev].session]
      <3>9. new \in Operation
        <4>1. thread[t] \in Operation /\ "open" \in Places
          BY <1>0, PlacesToGo DEF ThreadOK
        <4> QED
          BY <3>2, <4>1 DEF Operation
      <3>3. thread' \in [Threads -> Operation]
        BY <2>1, <3>9, <1>0 DEF ThreadOK
      <3>4. \A u \in Threads : thread'[u].sock = thread[u].sock /\ thread'[u].dev = thread[u].dev
                               /\ thread'[u].session = thread[u].session
        BY <2>1, <1>0 DEF ThreadOK, Operation
      <3>5. thread'[t].pc = "open" /\ \A u \in Threads \ {t} : thread'[u] = thread[u]
        BY <2>1, <1>0 DEF ThreadOK, Operation
      <3>6. ThreadOK'
        BY <3>1, <3>3, <3>4, <3>5, <1>0 DEF ThreadOK, Serving
      <3>7. HoldsKept
        BY <3>4 DEF HoldsKept, Holds
      <3>8. DataOK' /\ RecordsKept
        BY <1>3, <1>0, StayData DEF OpenOnline
      <3> QED
        BY <1>3, <3>6, <3>7, <3>8, StayRest DEF OpenOnline, TypeInv, Quiet
    <2>2. CASE Return(t)
      BY <2>2, <1>3, <1>0, ReturnThread, StayData, StayRest DEF OpenOnline, At, Holding, TypeInv, Quiet
    <2> QED
      BY <1>3, <2>1, <2>2 DEF OpenOnline
  <1>4. CASE \E d \in Devices : OnDeviceInfoFound(t, d)
    <2>1. PICK d \in Devices : OnDeviceInfoFound(t, d)
      BY <1>4
    <2>2. devices[d].session \in Sinks \cup {None} /\ "found" \in Places \ Holding
      BY <1>0 DEF DataOK, DeviceInfo, Places, Holding
    <2>3. Start(t, "found", "callback", d, None, devices[d].session, None)
      BY <2>1 DEF OnDeviceInfoFound
    <2>4. ThreadOK' /\ HoldsKept
      BY <2>2, <2>3, <1>0, StartThread
    <2> QED
      BY <2>1, <2>4, <1>0, StayData, StayRest DEF OnDeviceInfoFound, TypeInv, Quiet
  <1>5. CASE AddFound(t)
    <2>1. ThreadOK' /\ HoldsKept
      BY <1>5, <1>0, ReturnThread DEF AddFound, At, Holding
    <2>2. thread[t].dev \in Devices /\ thread[t].seen \in Sinks \cup {None}
      BY <1>5, <1>0 DEF AddFound, At, ThreadOK, Serving, Operation
    <2>3. DataOK' /\ RecordsKept
      BY <1>5, <1>0, <2>2, AddData DEF AddFound
    <2> QED
      BY <1>5, <2>1, <2>3, StayRest DEF AddFound, TypeInv, Quiet
  <1> QED
    BY <1>1, <1>2, <1>3, <1>4, <1>5 DEF Callback

\* The steps of OpenConsultSession (connection_manager.cpp:444) that neither get
\* nor give up a socket.
OpenQuietly(t) ==
  \/ GetDeviceNetworkId(t) \/ OpenSoftBusSocket(t) \/ Attempt(t)
  \/ CreateSocketFails(t) \/ BindSocket(t) \/ NotifyDisconnect(t) \/ SetConnected(t)

LEMMA OpenQuiet ==
  ASSUME TypeInv, NEW t \in Threads, OpenQuietly(t)
  PROVE  TypeInv' /\ Quiet
  <1>0. DataOK /\ LinkOK /\ SessionOK /\ BindOK /\ MutexOK /\ ThreadOK
    BY DEF TypeInv
  <1>1. CASE GetDeviceNetworkId(t)
    <2>1. ThreadOK' /\ HoldsKept
      BY <1>1, <1>0, GoToThread, ReturnThread
      DEF GetDeviceNetworkId, Fail, At, Holding, Places, Adding, Opening, Dropping, Consulting
    <2> QED
      BY <1>1, <2>1, <1>0, StayData, StayRest DEF GetDeviceNetworkId, TypeInv, Quiet
  <1>2. CASE OpenSoftBusSocket(t)
    <2> DEFINE new == [thread[t] EXCEPT !.pc = "try", !.first = TRUE]
    <2>1. thread[t] \in Operation /\ thread[t].dev \in Devices /\ thread[t].sock = None
      BY <1>2, <1>0 DEF OpenSoftBusSocket, At, ThreadOK, Serving, Holding
    <2>2. new \in Operation /\ new.dev = thread[t].dev /\ new.sock = None /\ new.pc = "try"
      <3>1. "try" \in Places
        BY PlacesToGo
      <3> QED
        BY <2>1, <3>1 DEF Operation
    <2>3. thread' = [thread EXCEPT ![t] = new]
      BY <1>2, <1>0 DEF OpenSoftBusSocket, ThreadOK
    <2>4. ThreadOK' /\ thread'[t] = new /\ \A u \in Threads \ {t} : thread'[u] = thread[u]
      BY <1>0, <2>1, <2>2, <2>3, PutThread
    <2>5. HoldsKept
      BY <2>1, <2>2, <2>4 DEF HoldsKept, Holds
    <2>6. LinkOK' /\ SessionOK' /\ BindOK' /\ MutexOK' /\ UNCHANGED socket
      BY <1>2, <1>0 DEF OpenSoftBusSocket, LinkOK, SessionOK, BindOK, MutexOK, linkVars, sessionVars, bindVars
    <2> QED
      BY <1>2, <1>0, <2>4, <2>5, <2>6, StayData DEF OpenSoftBusSocket, TypeInv, Quiet
  <1>3. CASE Attempt(t)
    <2>1. thread[t] \in Operation /\ thread[t].dev \in Devices /\ thread[t].sock = None
      BY <1>3, <1>0 DEF Attempt, At, ThreadOK, Serving, Holding
    <2>2. ThreadOK' /\ HoldsKept /\ MutexOK'
      <3>1. CASE GoTo(t, "create") /\ UNCHANGED mutex
        BY <3>1, <1>3, <1>0, GoToThread DEF Attempt, At, Holding, Places, Opening, MutexOK
      <3>2. CASE LeaveOpening(t, "failed")
        BY <3>2, <1>0, <2>1, LeaveThread, NoneIsApart DEF HoldsKept, Holds, MutexOK, LeaveOpening
      <3> QED
        BY <1>3, <3>1, <3>2 DEF Attempt
    <2>3. LinkOK' /\ SessionOK' /\ BindOK' /\ UNCHANGED socket
      BY <1>3, <1>0 DEF Attempt, LinkOK, SessionOK, BindOK, linkVars, sessionVars, bindVars
    <2> QED
      BY <1>3, <1>0, <2>2, <2>3, StayData DEF Attempt, TypeInv, Quiet
  <1>4. CASE CreateSocketFails(t)
    <2>1. thread[t].dev \in Devices /\ thread[t].sock = None
      BY <1>4, <1>0 DEF CreateSocketFails, At, ThreadOK, Serving, Holding
    <2>2. ThreadOK' /\ MutexOK' /\ HoldsKept
      BY <1>4, <1>0, <2>1, TryAgainThread, NoneIsApart DEF CreateSocketFails, HoldsKept, Holds
    <2>3. LinkOK' /\ SessionOK' /\ BindOK' /\ UNCHANGED socket
      BY <1>4, <1>0 DEF CreateSocketFails, LinkOK, SessionOK, BindOK, linkVars, sessionVars, bindVars
    <2> QED
      BY <1>4, <1>0, <2>2, <2>3, StayData DEF CreateSocketFails, TypeInv, Quiet
  <1>5. CASE BindSocket(t)
    <2>1. ThreadOK' /\ HoldsKept
      BY <1>5, <1>0, GoToThread DEF BindSocket, At, Holding, Places, Opening
    <2> QED
      BY <1>5, <2>1, <1>0, StayData, StayRest DEF BindSocket, TypeInv, Quiet
  <1>6. CASE NotifyDisconnect(t)
    <2>1. ThreadOK' /\ HoldsKept
      BY <1>6, <1>0, GoToThread, ReturnThread
      DEF NotifyDisconnect, Fail, At, Holding, Places, Adding, Opening, Dropping, Consulting
    <2>2. DataOK' /\ RecordsKept
      BY <1>6, <1>0, SetStateData, StayData DEF NotifyDisconnect
    <2> QED
      BY <1>6, <2>1, <2>2, StayRest DEF NotifyDisconnect, TypeInv, Quiet
  <1>7. CASE SetConnected(t)
    <2>1. ThreadOK' /\ HoldsKept
      BY <1>7, <1>0, GoToThread, ReturnThread
      DEF SetConnected, At, Holding, Places, Adding, Opening, Dropping, Consulting
    <2>2. DataOK' /\ RecordsKept
      BY <1>7, <1>0, SetStateData DEF SetConnected
    <2> QED
      BY <1>7, <2>1, <2>2, StayRest DEF SetConnected, TypeInv, Quiet
  <1> QED
    BY <1>1, <1>2, <1>3, <1>4, <1>5, <1>6, <1>7 DEF OpenQuietly

\* The steps of DisconnectDevice (connection_manager.cpp:708) that leave sockets
\* and their owners alone.
DisconnectQuietly(t) ==
  \/ \E s \in Sessions, d \in Devices : DisconnectDevice(t, s, d)
  \/ IsDeviceUsed(t) \/ MarkFound(t) \/ ForgetDropped(t)
  \/ RemoveTransIdMapping(t) \/ UpdateDeviceByDeviceId(t)

LEMMA DisconnectQuiet ==
  ASSUME TypeInv, NEW t \in Threads, DisconnectQuietly(t)
  PROVE  TypeInv' /\ Quiet
  <1>0. DataOK /\ LinkOK /\ SessionOK /\ BindOK /\ MutexOK /\ ThreadOK
    BY DEF TypeInv
  <1>1. CASE \E s \in Sessions, d \in Devices : DisconnectDevice(t, s, d)
    <2>1. PICK s \in Sessions, d \in Devices : DisconnectDevice(t, s, d)
      BY <1>1
    <2>2. "dropCheck" \in Places \ Holding /\ s \in Sessions \cup {None} /\ None \in Sockets \cup {None}
      BY DEF Places, Dropping, Holding
    <2>3. Start(t, "dropCheck", "drop", d, s, None, None)
      BY <2>1 DEF DisconnectDevice
    <2>4. ThreadOK' /\ HoldsKept
      BY <2>2, <2>3, <1>0, StartThread
    <2>5. BindOK' /\ LinkOK' /\ SessionOK' /\ MutexOK' /\ UNCHANGED socket
      BY <2>1, <1>0 DEF DisconnectDevice, BindOK, LinkOK, SessionOK, MutexOK, linkVars, sessionVars
    <2> QED
      BY <2>1, <2>4, <2>5, <1>0, StayData DEF DisconnectDevice, TypeInv, Quiet
  <1>2. CASE IsDeviceUsed(t)
    <2>1. ThreadOK' /\ HoldsKept
      <3>1. GoTo(t, "dropMark") \/ GoTo(t, "dropLast")
        BY <1>2 DEF IsDeviceUsed
      <3> QED
        BY <1>2, <3>1, <1>0, GoToThread DEF IsDeviceUsed, At, Holding, Places, Adding, Opening, Dropping, Consulting
    <2> QED
      BY <1>2, <2>1, <1>0, StayData, StayRest DEF IsDeviceUsed, TypeInv, Quiet
  <1>3. CASE MarkFound(t)
    <2>1. ThreadOK' /\ HoldsKept
      BY <1>3, <1>0, GoToThread DEF MarkFound, At, Holding, Places, Adding, Opening, Dropping, Consulting
    <2>2. DataOK' /\ RecordsKept
      BY <1>3, <1>0, SetStateData DEF MarkFound
    <2> QED
      BY <1>3, <2>1, <2>2, StayRest DEF MarkFound, TypeInv, Quiet
  <1>4. CASE ForgetDropped(t)
    <2>1. ThreadOK' /\ HoldsKept
      BY <1>4, <1>0, GoToThread DEF ForgetDropped, At, Holding, Places, Adding, Opening, Dropping, Consulting
    <2>2. BindOK' /\ LinkOK' /\ SessionOK' /\ MutexOK' /\ UNCHANGED socket
      BY <1>4, <1>0 DEF ForgetDropped, BindOK, LinkOK, SessionOK, MutexOK, linkVars, sessionVars
    <2> QED
      BY <1>4, <2>1, <2>2, <1>0, StayData DEF ForgetDropped, TypeInv, Quiet
  <1>5. CASE RemoveTransIdMapping(t)
    <2>1. ThreadOK' /\ HoldsKept
      BY <1>5, <1>0, GoToThread, ReturnThread DEF RemoveTransIdMapping, At, Holding, Places, Adding, Opening, Dropping, Consulting
    <2>2. BindOK' /\ LinkOK' /\ SessionOK' /\ MutexOK' /\ UNCHANGED socket
      BY <1>5, <1>0 DEF RemoveTransIdMapping, BindOK, LinkOK, SessionOK, MutexOK, sessionVars, bindVars
    <2> QED
      BY <1>5, <2>1, <2>2, <1>0, StayData DEF RemoveTransIdMapping, TypeInv, Quiet
  <1>6. CASE UpdateDeviceByDeviceId(t)
    <2>1. ThreadOK' /\ HoldsKept
      BY <1>6, <1>0, ReturnThread DEF UpdateDeviceByDeviceId, At, Holding
    <2>2. DataOK' /\ RecordsKept
      BY <1>6, <1>0, ResetData DEF UpdateDeviceByDeviceId
    <2>3. BindOK' /\ LinkOK' /\ SessionOK' /\ MutexOK' /\ UNCHANGED socket
      BY <1>6, <1>0 DEF UpdateDeviceByDeviceId, BindOK, LinkOK, SessionOK, MutexOK, linkVars, bindVars
    <2> QED
      BY <2>1, <2>2, <2>3 DEF TypeInv, Quiet
  <1> QED
    BY <1>1, <1>2, <1>3, <1>4, <1>5, <1>6 DEF DisconnectQuietly

\* The steps of a peer's consult session (connection_manager.cpp:479, 545), its
\* opening excepted.
ConsultQuietly(t) ==
  \/ \E k \in Sockets : OnConsultDataReceived(t, k)
  \/ MapSession(t) \/ AddConsulted(t) \/ MarkConsulted(t)
  \/ NotifyRemoteDeviceIsReady(t) \/ RefuseRemoteDevice(t)

LEMMA ConsultQuiet ==
  ASSUME TypeInv, NEW t \in Threads, ConsultQuietly(t)
  PROVE  TypeInv' /\ Quiet
  <1>0. DataOK /\ LinkOK /\ SessionOK /\ BindOK /\ MutexOK /\ ThreadOK
    BY DEF TypeInv
  <1>1. CASE \E k \in Sockets : OnConsultDataReceived(t, k)
    <2>1. PICK k \in Sockets : OnConsultDataReceived(t, k)
      BY <1>1
    <2>2. "sinkAdd" \in Places \ Holding
      BY DEF Places, Consulting, Holding
    <2>3. socket[k].peer \in Devices \cup {None} /\ castSession[k] \in Sinks
      BY <2>1, <1>0 DEF LinkOK, Socket, OnConsultDataReceived
    <2>4. socket[k].peer \in Devices
      BY <2>1, <1>0 DEF LinkOK, OnConsultDataReceived
    <2>5. Start(t, "sinkAdd", "consult", socket[k].peer, castSession[k], castSession[k], k)
      BY <2>1 DEF OnConsultDataReceived
    <2>6. castSession[k] \in Sessions \cup {None} /\ castSession[k] \in Sinks \cup {None}
      BY <2>3 DEF Sessions
    <2>7. ThreadOK' /\ HoldsKept
      BY <2>2, <2>4, <2>5, <2>6, <1>0, StartThread
    <2> QED
      BY <2>1, <2>7, <1>0, StayData, StayRest DEF OnConsultDataReceived, TypeInv, Quiet
  <1>2. CASE MapSession(t)
    <2>1. ThreadOK' /\ HoldsKept
      BY <1>2, <1>0, ReturnThread DEF MapSession, At, Holding
    <2>2. BindOK' /\ LinkOK' /\ SessionOK' /\ MutexOK' /\ UNCHANGED socket
      BY <1>2, <1>0 DEF MapSession, BindOK, LinkOK, SessionOK, MutexOK, sessionVars, bindVars, ThreadOK, Serving, At
    <2> QED
      BY <1>2, <2>1, <2>2, <1>0, StayData DEF MapSession, TypeInv, Quiet
  <1>3. CASE AddConsulted(t)
    <2>1. ThreadOK' /\ HoldsKept
      BY <1>3, <1>0, GoToThread DEF AddConsulted, At, Holding, Places, Consulting
    <2>2. thread[t].dev \in Devices /\ thread[t].seen \in Sinks \cup {None}
      BY <1>3, <1>0 DEF AddConsulted, At, ThreadOK, Serving, Operation
    <2>3. DataOK' /\ RecordsKept
      BY <1>3, <1>0, <2>2, AddData DEF AddConsulted
    <2> QED
      BY <1>3, <2>1, <2>3, StayRest DEF AddConsulted, TypeInv, Quiet
  <1>4. CASE MarkConsulted(t)
    <2>1. ThreadOK' /\ HoldsKept
      BY <1>4, <1>0, GoToThread, ReturnThread DEF MarkConsulted, At, Holding, Places, Adding, Opening, Dropping, Consulting
    <2>2. DataOK' /\ RecordsKept
      BY <1>4, <1>0, SetStateData DEF MarkConsulted
    <2> QED
      BY <1>4, <2>1, <2>2, StayRest DEF MarkConsulted, TypeInv, Quiet
  <1>5. CASE NotifyRemoteDeviceIsReady(t)
    <2>1. ThreadOK' /\ HoldsKept
      BY <1>5, <1>0, GoToThread DEF NotifyRemoteDeviceIsReady, At, Holding, Places, Adding, Opening, Dropping, Consulting
    <2> DEFINE d == thread[t].dev
               s == thread[t].session
    <2>2. d \in Devices /\ s \in Sinks
      BY <1>5, <1>0 DEF NotifyRemoteDeviceIsReady, At, ThreadOK, Serving, SessionOK
    <2>3. devices' \in [Devices -> DeviceInfo] /\ UNCHANGED known
      BY <1>5, <1>0, <2>2 DEF NotifyRemoteDeviceIsReady, DataOK, DeviceInfo
    <2>4. \A e \in Devices : devices'[e].transportId = devices[e].transportId
      BY <1>5, <1>0, <2>2 DEF NotifyRemoteDeviceIsReady, DataOK, DeviceInfo
    <2>5. DataOK' /\ RecordsKept
      BY <2>3, <2>4, <1>0 DEF DataOK, RecordsKept, Records
    <2>6. listed' \in [Sessions -> SUBSET Devices]
      BY <1>5, <1>0, <2>2 DEF NotifyRemoteDeviceIsReady, SessionOK, Sessions
    <2>7. BindOK' /\ LinkOK' /\ SessionOK' /\ MutexOK' /\ UNCHANGED socket
      BY <1>5, <1>0, <2>6 DEF NotifyRemoteDeviceIsReady, BindOK, LinkOK, SessionOK, MutexOK, linkVars, bindVars
    <2> QED
      BY <2>1, <2>5, <2>7 DEF TypeInv, Quiet
  <1>6. CASE RefuseRemoteDevice(t)
    <2>1. ThreadOK' /\ HoldsKept
      BY <1>6, <1>0, GoToThread DEF RefuseRemoteDevice, At, Holding, Places, Adding, Opening, Dropping, Consulting
    <2>2. DataOK' /\ RecordsKept
      BY <1>6, <1>0, RemoveData DEF RefuseRemoteDevice
    <2> QED
      BY <1>6, <2>1, <2>2, StayRest DEF RefuseRemoteDevice, TypeInv, Quiet
  <1> QED
    BY <1>1, <1>2, <1>3, <1>4, <1>5, <1>6 DEF ConsultQuietly

\* The aging of devices, and the end of a sink's session.
Aside ==
  \/ \E d \in Devices : UpdateDeviceState(d)
  \/ \E s \in Sinks : RemoveSessionListener(s)

LEMMA AsideQuiet ==
  ASSUME TypeInv, Aside
  PROVE  TypeInv' /\ Quiet
  <1>0. DataOK /\ LinkOK /\ SessionOK /\ BindOK /\ MutexOK /\ ThreadOK
    BY DEF TypeInv
  <1>2. CASE \E d \in Devices : UpdateDeviceState(d)
    BY <1>2, <1>0, RemoveData, StayThread, StayRest DEF UpdateDeviceState, TypeInv, Quiet
  <1>3. CASE \E s \in Sinks : RemoveSessionListener(s)
    <2>1. PICK s \in Sinks : RemoveSessionListener(s)
      BY <1>3
    <2>2. BindOK' /\ LinkOK' /\ SessionOK' /\ MutexOK' /\ UNCHANGED socket
      BY <2>1, <1>0 DEF RemoveSessionListener, BindOK, LinkOK, SessionOK, MutexOK, linkVars, bindVars
    <2> QED
      BY <2>1, <2>2, <1>0, StayThread, StayData DEF RemoveSessionListener, TypeInv, Quiet
  <1> QED
    BY <1>2, <1>3 DEF Aside

(***************************************************************************)
(* What becomes of sockets.                                                *)
(***************************************************************************)
Owned == TransportsAreLive /\ TransportsHaveOneOwner

\* What OpeningAccountsForSocket says of one step.
Accounts ==
  \A k \in Sockets :
    /\ \A t \in Threads : Holds(t, k) /\ ~Holds(t, k)' =>
         socket'[k] = Free \/ \E d \in Devices : Records(d, k)'
    /\ \A d \in Devices : Records(d, k) /\ d \in known' =>
         devices'[d].transportId \in {k, None}

LEMMA QuietAccounts ==
  ASSUME Quiet
  PROVE  Accounts
  BY DEF Quiet, HoldsKept, RecordsKept, Accounts

LEMMA QuietOwned ==
  ASSUME Quiet, Owned
  PROVE  Owned'
  <1>1. TransportsAreLive'
    BY DEF Quiet, HoldsKept, RecordsKept, Owned, TransportsAreLive
  <1>2. TransportsHaveOneOwner'
    BY DEF Quiet, HoldsKept, RecordsKept, Owned, TransportsHaveOneOwner
  <1> QED
    BY <1>1, <1>2 DEF Owned

LEMMA OnlyClientsAreOwned ==
  ASSUME Owned, NEW k \in Sockets, socket[k].role # "client"
  PROVE  (\A d \in Devices : ~Records(d, k)) /\ (\A t \in Threads : ~Holds(t, k))
  <1>1. ASSUME NEW d \in Devices, Records(d, k) PROVE FALSE
    <2>1. socket[k] = [peer |-> d, role |-> "client"]
      BY <1>1 DEF Owned, TransportsAreLive
    <2> QED
      BY <2>1
  <1>2. ASSUME NEW t \in Threads, Holds(t, k) PROVE FALSE
    <2>1. socket[k] = [peer |-> thread[t].dev, role |-> "client"]
      BY <1>2 DEF Owned, TransportsAreLive
    <2> QED
      BY <2>1
  <1> QED
    BY <1>1, <1>2

\* A socket that nobody owns changes.
LEMMA OthersSocket ==
  ASSUME NEW j \in Sockets, HoldsKept, RecordsKept,
         \A k \in Sockets \ {j} : socket'[k] = socket[k]
  PROVE  Accounts /\ (Owned /\ socket[j].role # "client" => Owned')
  <1>1. Accounts
    BY DEF HoldsKept, RecordsKept, Accounts
  <1>2. ASSUME Owned, socket[j].role # "client"
        PROVE  TransportsAreLive' /\ TransportsHaveOneOwner'
    <2>1. (\A d \in Devices : ~Records(d, j)) /\ (\A t \in Threads : ~Holds(t, j))
      BY <1>2, OnlyClientsAreOwned
    <2>2. TransportsAreLive'
      BY <1>2, <2>1 DEF HoldsKept, RecordsKept, Owned, TransportsAreLive
    <2>3. TransportsHaveOneOwner'
      BY <1>2 DEF HoldsKept, RecordsKept, Owned, TransportsHaveOneOwner
    <2> QED
      BY <2>2, <2>3
  <1> QED
    BY <1>1, <1>2 DEF Owned

\* An operation shuts its socket down and is rid of it.
LEMMA OwnSocketShut ==
  ASSUME NEW t \in Threads,
         thread'[t].sock = None, \A u \in Threads \ {t} : thread'[u] = thread[u],
         RecordsKept,
         \A k \in Sockets : socket'[k] = IF k = thread[t].sock THEN Free ELSE socket[k]
  PROVE  Accounts /\ (Owned => Owned')
  <1>1. \A k \in Sockets : ~Holds(t, k)'
    BY NoneIsApart DEF Holds
  <1>2. \A u \in Threads, k \in Sockets :
          Holds(u, k)' => u # t /\ Holds(u, k) /\ thread'[u].dev = thread[u].dev
    BY <1>1 DEF Holds
  <1>3. \A u \in Threads, k \in Sockets : Holds(u, k) /\ ~Holds(u, k)' => u = t /\ socket'[k] = Free
    BY DEF Holds
  <1>6. \A k \in Sockets, d \in Devices :
          Records(d, k) /\ d \in known' => devices'[d].transportId \in {k, None}
    BY DEF RecordsKept
  <1>4. Accounts
    BY <1>3, <1>6 DEF Accounts
  <1>5. ASSUME Owned PROVE TransportsAreLive' /\ TransportsHaveOneOwner'
    <2>1. \A k \in Sockets : socket'[k] # socket[k] => Holds(t, k)
      BY DEF Holds
    <2>2. \A k \in Sockets : Holds(t, k) =>
            (\A d \in Devices : ~Records(d, k)) /\ (\A u \in Threads : Holds(u, k) => u = t)
      BY <1>5 DEF Owned, TransportsHaveOneOwner
    <2>3. TransportsAreLive'
      BY <1>2, <1>5, <2>1, <2>2 DEF RecordsKept, Owned, TransportsAreLive
    <2>4. TransportsHaveOneOwner'
      BY <1>2, <1>5 DEF RecordsKept, Owned, TransportsHaveOneOwner
    <2> QED
      BY <2>3, <2>4
  <1> QED
    BY <1>4, <1>5 DEF Owned

(***************************************************************************)
(* The steps that are not quiet.                                           *)
(***************************************************************************)
\* CreateSocket (connection_manager.cpp:216): a free socket gets its only owner.
LEMMA CreateSocketStep ==
  ASSUME TypeInv, NEW t \in Threads, CreateSocket(t)
  PROVE  TypeInv' /\ Accounts /\ (Owned => Owned')
  <1>0. DataOK /\ LinkOK /\ SessionOK /\ BindOK /\ MutexOK /\ ThreadOK
    BY DEF TypeInv
  <1>1. PICK k \in Sockets :
          /\ socket[k] = Free
          /\ socket' = [socket EXCEPT ![k] = [peer |-> thread[t].dev, role |-> "client"]]
          /\ thread' = [thread EXCEPT ![t].pc = "bind", ![t].sock = k]
    BY DEF CreateSocket
  <1>2. thread[t] \in Operation /\ thread[t].dev \in Devices /\ thread[t].sock = None
    BY <1>0 DEF CreateSocket, At, ThreadOK, Serving, Holding
  <1> DEFINE new == [thread[t] EXCEPT !.pc = "bind", !.sock = k]
  <1>3. new \in Operation /\ new.dev = thread[t].dev /\ new.sock = k /\ new.pc = "bind"
    <2>1. "bind" \in Places
      BY PlacesToGo
    <2> QED
      BY <1>2, <2>1 DEF Operation
  <1>4. thread' = [thread EXCEPT ![t] = new]
    BY <1>1, <1>0 DEF ThreadOK
  <1>5. ThreadOK' /\ thread'[t] = new /\ \A u \in Threads \ {t} : thread'[u] = thread[u]
    BY <1>0, <1>2, <1>3, <1>4, PutThread DEF Holding
  <1>6. LinkOK'
    BY <1>0, <1>1, <1>2 DEF CreateSocket, LinkOK, Socket
  <1>7. DataOK' /\ RecordsKept
    BY <1>0, StayData DEF CreateSocket
  <1>8. SessionOK' /\ BindOK' /\ MutexOK'
    BY <1>0 DEF CreateSocket, SessionOK, BindOK, MutexOK, sessionVars, bindVars
  <1>9. socket'[k] = [peer |-> thread'[t].dev, role |-> "client"] /\ thread'[t].dev \in Devices
        /\ \A j \in Sockets \ {k} : socket'[j] = socket[j]
    BY <1>0, <1>1, <1>2, <1>3, <1>5 DEF LinkOK
  <1>10. \A u \in Threads, j \in Sockets :
           Holds(u, j)' <=> (u = t /\ j = k) \/ Holds(u, j)
    BY <1>2, <1>3, <1>5, NoneIsApart DEF Holds
  <1>11. Accounts
    BY <1>7, <1>10 DEF RecordsKept, Accounts
  <1>12. ASSUME Owned PROVE TransportsAreLive' /\ TransportsHaveOneOwner'
    <2>1. (\A d \in Devices : ~Records(d, k)) /\ (\A u \in Threads : ~Holds(u, k))
      BY <1>1, <1>12, OnlyClientsAreOwned DEF Free
    <2>2. \A u \in Threads, j \in Sockets : Holds(u, j) => thread'[u].dev = thread[u].dev
      BY <1>3, <1>5
    <2>3. TransportsAreLive'
      BY <1>7, <1>9, <1>10, <1>12, <2>1, <2>2 DEF RecordsKept, Owned, TransportsAreLive
    <2>4. TransportsHaveOneOwner'
      BY <1>7, <1>10, <1>12, <2>1 DEF RecordsKept, Owned, TransportsHaveOneOwner
    <2> QED
      BY <2>3, <2>4
  <1> QED
    BY <1>5, <1>6, <1>7, <1>8, <1>11, <1>12 DEF TypeInv, Owned

\* BindSocket that fails (connection_manager.cpp:237), which shuts the socket down.
LEMMA BindSocketFailsStep ==
  ASSUME TypeInv, NEW t \in Threads, BindSocketFails(t)
  PROVE  TypeInv' /\ Accounts /\ (Owned => Owned')
  <1>0. DataOK /\ LinkOK /\ SessionOK /\ BindOK /\ MutexOK /\ ThreadOK
    BY DEF TypeInv
  <1>1. thread[t].dev \in Devices
    BY <1>0 DEF BindSocketFails, At, ThreadOK, Serving
  <1>2. /\ ThreadOK' /\ MutexOK'
        /\ thread'[t].sock = None
        /\ \A u \in Threads \ {t} : thread'[u] = thread[u]
    BY <1>0, <1>1, TryAgainThread DEF BindSocketFails
  <1>3. LinkOK' /\ \A k \in Sockets : socket'[k] = IF k = thread[t].sock THEN Free ELSE socket[k]
    BY <1>0 DEF BindSocketFails, Shutdown, LinkOK, Socket, Free
  <1>4. SessionOK' /\ BindOK'
    BY <1>0 DEF BindSocketFails, SessionOK, BindOK, sessionVars, bindVars
  <1>5. DataOK' /\ RecordsKept
    BY <1>0, StayData DEF BindSocketFails
  <1> QED
    BY <1>2, <1>3, <1>4, <1>5, OwnSocketShut DEF TypeInv

\* OpenSoftBusSocket that finds the device changed after it has bound the
\* socket (connection_manager.cpp:1301).
LEMMA RecheckStep ==
  ASSUME TypeInv, NEW t \in Threads, Recheck(t)
  PROVE  TypeInv' /\ Accounts /\ (Owned => Owned')
  <1>0. DataOK /\ LinkOK /\ SessionOK /\ BindOK /\ MutexOK /\ ThreadOK
    BY DEF TypeInv
  <1>1. thread[t].dev \in Devices
    BY <1>0 DEF Recheck, At, ThreadOK, Serving
  <1>2. SessionOK' /\ BindOK' /\ DataOK' /\ RecordsKept
    BY <1>0, StayData DEF Recheck, SessionOK, BindOK, sessionVars, bindVars
  <1>3. CASE LeaveOpening(t, "failed") /\ Shutdown(thread[t].sock)
    <2>1. /\ ThreadOK' /\ MutexOK'
          /\ thread'[t].sock = None
          /\ \A u \in Threads \ {t} : thread'[u] = thread[u]
      BY <1>0, <1>1, <1>3, LeaveThread
    <2>2. LinkOK' /\ \A k \in Sockets : socket'[k] = IF k = thread[t].sock THEN Free ELSE socket[k]
      BY <1>0, <1>3 DEF Recheck, Shutdown, LinkOK, Socket, Free
    <2> QED
      BY <1>2, <2>1, <2>2, OwnSocketShut DEF TypeInv
  <1>4. CASE GoTo(t, "record") /\ UNCHANGED <<socket, mutex>>
    <2>1. ThreadOK' /\ HoldsKept
      BY <1>0, <1>4, GoToThread DEF Recheck, At, Holding, Places, Opening
    <2>2. LinkOK' /\ MutexOK'
      BY <1>0, <1>4 DEF Recheck, LinkOK, MutexOK
    <2> QED
      BY <1>2, <1>4, <2>1, <2>2, QuietAccounts, QuietOwned DEF TypeInv, Quiet
  <1> QED
    BY <1>3, <1>4 DEF Recheck

\* SetDeviceTransId (cast_device_data_manager.cpp:146) passes the socket on to
\* a device that has none, or OpenSoftBusSocket shuts it down.
LEMMA SetDeviceTransIdStep ==
  ASSUME TypeInv, NEW t \in Threads, SetDeviceTransId(t)
  PROVE  TypeInv' /\ Accounts /\ (Owned => Owned')
  <1> DEFINE d == thread[t].dev
             j == thread[t].sock
  <1>0. DataOK /\ LinkOK /\ SessionOK /\ BindOK /\ MutexOK /\ ThreadOK
    BY DEF TypeInv
  <1>1. d \in Devices /\ j \in Sockets \cup {None}
    BY <1>0 DEF SetDeviceTransId, At, ThreadOK, Serving, Operation
  <1>2. SessionOK' /\ BindOK'
    BY <1>0 DEF SetDeviceTransId, SessionOK, BindOK, sessionVars, bindVars
  <1>3. CASE ~(d \in known /\ devices[d].transportId = None)
    <2>1. LeaveOpening(t, "failed") /\ Shutdown(j) /\ UNCHANGED dataVars
      BY <1>3 DEF SetDeviceTransId, dataVars
    <2>2. /\ ThreadOK' /\ MutexOK'
          /\ thread'[t].sock = None
          /\ \A u \in Threads \ {t} : thread'[u] = thread[u]
      BY <1>0, <1>1, <2>1, LeaveThread
    <2>3. LinkOK' /\ \A k \in Sockets : socket'[k] = IF k = thread[t].sock THEN Free ELSE socket[k]
      BY <1>0, <2>1 DEF SetDeviceTransId, Shutdown, LinkOK, Socket, Free
    <2> QED
      BY <1>0, <1>2, <2>1, <2>2, <2>3, StayData, OwnSocketShut DEF TypeInv
  <1>4. CASE d \in known /\ devices[d].transportId = None
    <2>1. /\ devices' = [devices EXCEPT ![d].transportId = j]
          /\ LeaveOpening(t, "connected")
          /\ UNCHANGED <<socket, known, castSession>>
      BY <1>4 DEF SetDeviceTransId
    <2>2. /\ ThreadOK' /\ MutexOK'
          /\ thread'[t].sock = None
          /\ \A u \in Threads \ {t} : thread'[u] = thread[u]
      BY <1>0, <1>1, <2>1, LeaveThread
    <2>3. devices' \in [Devices -> DeviceInfo]
      BY <1>0, <1>1, <2>1 DEF DataOK, DeviceInfo
    <2>4. devices'[d].transportId = j
          /\ \A e \in Devices \ {d} : devices'[e].transportId = devices[e].transportId
      BY <1>0, <1>1, <2>1 DEF DataOK, DeviceInfo
    <2>5. DataOK' /\ LinkOK'
      BY <1>0, <1>4, <2>1, <2>3, <2>4 DEF DataOK, LinkOK
    <2>6. \A e \in Devices, k \in Sockets : Records(e, k)' <=> Records(e, k) \/ (e = d /\ k = j)
      BY <1>4, <2>1, <2>4, NoneIsApart DEF Records
    <2>7. \A u \in Threads, k \in Sockets :
            Holds(u, k)' => u # t /\ Holds(u, k) /\ thread'[u].dev = thread[u].dev
      BY <2>2, NoneIsApart DEF Holds
    <2>8. \A u \in Threads, k \in Sockets : Holds(u, k) /\ ~Holds(u, k)' => k = j
      BY <2>2 DEF Holds
    <2>9. \A e \in Devices, k \in Sockets : Records(e, k) => devices'[e].transportId = k
      BY <1>4, <2>4, NoneIsApart DEF Records
    <2>10. Accounts
      BY <1>1, <2>6, <2>8, <2>9 DEF Accounts
    <2>11. ASSUME Owned PROVE TransportsAreLive' /\ TransportsHaveOneOwner'
      <3>1. j \in Sockets => /\ socket[j] = [peer |-> d, role |-> "client"]
                             /\ \A u \in Threads : Holds(u, j) => u = t
        BY <2>11 DEF Owned, TransportsAreLive, TransportsHaveOneOwner, Holds
      <3>2. TransportsAreLive'
        BY <2>1, <2>6, <2>7, <2>11, <3>1 DEF Owned, TransportsAreLive
      <3>3. TransportsHaveOneOwner'
        BY <2>6, <2>7, <2>11, <3>1 DEF Owned, TransportsHaveOneOwner
      <3> QED
        BY <3>2, <3>3
    <2> QED
      BY <1>2, <2>2, <2>5, <2>10, <2>11 DEF TypeInv, Owned
  <1> QED
    BY <1>3, <1>4

\* ResetDeviceTransId (cast_device_data_manager.cpp:181) passes the device's
\* socket on to the operation that disconnects it.
LEMMA ResetDeviceTransIdStep ==
  ASSUME TypeInv, NEW t \in Threads, ResetDeviceTransId(t)
  PROVE  TypeInv' /\ Accounts /\ (Owned => Owned')
  <1> DEFINE d == thread[t].dev
             j == devices[d].transportId
             new == [thread[t] EXCEPT !.pc = "dropClose", !.sock = j]
  <1>0. DataOK /\ LinkOK /\ SessionOK /\ BindOK /\ MutexOK /\ ThreadOK
    BY DEF TypeInv
  <1>1. d \in Devices /\ thread[t] \in Operation /\ thread[t].sock = None
    BY <1>0 DEF ResetDeviceTransId, At, ThreadOK, Serving, Holding
  <1>2. j \in Sockets \cup {None}
    BY <1>0, <1>1 DEF DataOK, DeviceInfo
  <1>3. new \in Operation /\ new.dev = d /\ new.sock = j /\ new.pc = "dropClose"
    <2>1. "dropClose" \in Places
      BY PlacesToGo
    <2> QED
      BY <1>1, <1>2, <2>1 DEF Operation
  <1>4. thread' = [thread EXCEPT ![t] = new]
    BY <1>0 DEF ResetDeviceTransId, ThreadOK
  <1>5. ThreadOK' /\ thread'[t] = new /\ \A u \in Threads \ {t} : thread'[u] = thread[u]
    BY <1>0, <1>1, <1>3, <1>4, PutThread DEF Holding
  <1>6. devices' \in [Devices -> DeviceInfo] /\ UNCHANGED known
    BY <1>0, <1>1 DEF ResetDeviceTransId, DataOK, DeviceInfo
  <1>7. devices'[d].transportId = None
        /\ \A e \in Devices \ {d} : devices'[e].transportId = devices[e].transportId
    BY <1>0, <1>1 DEF ResetDeviceTransId, DataOK, DeviceInfo
  <1>8. DataOK'
    BY <1>0, <1>6, <1>7 DEF DataOK
  <1>9. LinkOK' /\ SessionOK' /\ BindOK' /\ MutexOK' /\ UNCHANGED socket
    BY StayRest DEF ResetDeviceTransId
  <1>10. \A e \in Devices, k \in Sockets : Records(e, k)' <=> Records(e, k) /\ e # d
    BY <1>6, <1>7, NoneIsApart DEF Records
  <1>11. \A u \in Threads, k \in Sockets : Holds(u, k)' <=> Holds(u, k) \/ (u = t /\ k = j)
    BY <1>1, <1>3, <1>5, NoneIsApart DEF Holds
  <1>12. Accounts
    BY <1>7, <1>11 DEF Accounts, Records
  <1>13. ASSUME Owned PROVE TransportsAreLive' /\ TransportsHaveOneOwner'
    <2>1. j \in Sockets => Records(d, j)
      BY <1>0, <1>1, NoneIsApart DEF DataOK, Records
    <2>2. j \in Sockets => socket[j] = [peer |-> d, role |-> "client"]
      BY <1>1, <1>13, <2>1 DEF Owned, TransportsAreLive
    <2>3. \A u \in Threads : j \in Sockets => ~Holds(u, j)
      BY <1>1, <1>13, <2>1 DEF Owned, TransportsHaveOneOwner
    <2>4. \A e \in Devices \ {d} : j \in Sockets => ~Records(e, j)
      <3>1. ASSUME NEW e \in Devices \ {d}, j \in Sockets, Records(e, j) PROVE FALSE
        <4>1. socket[j] = [peer |-> e, role |-> "client"]
          BY <1>13, <3>1 DEF Owned, TransportsAreLive
        <4> QED
          BY <2>2, <3>1, <4>1
      <3> QED
        BY <3>1
    <2>5. \A u \in Threads, k \in Sockets : Holds(u, k)' => thread'[u].dev = thread[u].dev
      BY <1>3, <1>5
    <2>6. thread[t].dev = d /\ thread'[t].dev = d
      BY <1>3, <1>5
    <2>7. TransportsAreLive'
      BY <1>9, <1>10, <1>11, <1>13, <2>2, <2>5, <2>6 DEF Owned, TransportsAreLive
    <2>8. TransportsHaveOneOwner'
      BY <1>10, <1>11, <1>13, <2>3, <2>4 DEF Owned, TransportsHaveOneOwner
    <2> QED
      BY <2>7, <2>8
  <1> QED
    BY <1>5, <1>8, <1>9, <1>12, <1>13 DEF TypeInv, Owned

\* CloseSession of DestroyConsulationSession (connection_manager.cpp:1205).
LEMMA CloseSessionStep ==
  ASSUME TypeInv, NEW t \in Threads, CloseSession(t)
  PROVE  TypeInv' /\ Accounts /\ (Owned => Owned')
  <1> DEFINE k == thread[t].sock
             new == [thread[t] EXCEPT !.pc = "dropMap", !.sock = None, !.conn = k]
  <1>0. DataOK /\ LinkOK /\ SessionOK /\ BindOK /\ MutexOK /\ ThreadOK
    BY DEF TypeInv
  <1>1. thread[t].dev \in Devices /\ thread[t] \in Operation /\ k \in Sockets \cup {None}
    BY <1>0 DEF CloseSession, At, ThreadOK, Serving, Operation
  <1>2. new \in Operation /\ new.dev = thread[t].dev /\ new.sock = None /\ new.pc = "dropMap"
    <2>1. "dropMap" \in Places
      BY PlacesToGo
    <2> QED
      BY <1>1, <2>1 DEF Operation
  <1>3. thread' = [thread EXCEPT ![t] = new]
    BY <1>0 DEF CloseSession, ThreadOK
  <1>4. ThreadOK' /\ thread'[t] = new /\ \A u \in Threads \ {t} : thread'[u] = thread[u]
    BY <1>0, <1>1, <1>2, <1>3, PutThread
  <1>5. LinkOK' /\ \A j \in Sockets : socket'[j] = IF j = thread[t].sock THEN Free ELSE socket[j]
    BY <1>0, NoneIsApart DEF CloseSession, LinkOK, Socket, Free
  <1>6. SessionOK' /\ BindOK' /\ MutexOK'
    BY <1>0 DEF CloseSession, SessionOK, BindOK, MutexOK, sessionVars, bindVars
  <1>7. DataOK' /\ RecordsKept
    BY <1>0, StayData DEF CloseSession
  <1>8. thread'[t].sock = None
    BY <1>2, <1>4
  <1>9. Accounts /\ (Owned => Owned')
    BY <1>4, <1>5, <1>7, <1>8, OwnSocketShut
  <1> QED
    BY <1>4, <1>5, <1>6, <1>7, <1>9 DEF TypeInv

\* OnConsultSessionOpened (connection_manager.cpp:545) by a peer.
LEMMA OnSessionOpenedStep ==
  ASSUME TypeInv, NEW t \in Threads, NEW k \in Sockets, NEW d \in Devices, OnSessionOpened(t, k, d)
  PROVE  TypeInv' /\ Accounts /\ (Owned => Owned')
  <1>0. DataOK /\ LinkOK /\ SessionOK /\ BindOK /\ MutexOK /\ ThreadOK
    BY DEF TypeInv
  <1>1. PICK s \in Sinks \ created :
          /\ created' = created \cup {s}
          /\ listeners' = listeners \cup {s}
          /\ Start(t, "ready", "consult", None, s, None, k)
    BY DEF OnSessionOpened
  <1>2. "ready" \in Places \ Holding /\ s \in Sessions \cup {None}
    BY DEF Places, Consulting, Holding, Sessions
  <1>3. ThreadOK' /\ HoldsKept
    BY <1>0, <1>1, <1>2, StartThread
  <1>4. socket[k] = Free /\ socket' = [socket EXCEPT ![k] = [peer |-> d, role |-> "server"]]
    BY DEF OnSessionOpened
  <1>5. LinkOK' /\ \A j \in Sockets \ {k} : socket'[j] = socket[j]
    BY <1>0, <1>4 DEF OnSessionOpened, LinkOK, Socket
  <1>6. SessionOK' /\ BindOK' /\ MutexOK'
    BY <1>0, <1>1 DEF OnSessionOpened, SessionOK, BindOK, MutexOK, bindVars
  <1>7. DataOK' /\ RecordsKept
    BY <1>0, StayData DEF OnSessionOpened
  <1>8. socket[k].role # "client"
    BY <1>4 DEF Free
  <1> QED
    BY <1>3, <1>5, <1>6, <1>7, <1>8, OthersSocket DEF TypeInv

\* SoftBus shuts a socket: OnSessionClosed, OnShutdown (connection_manager.cpp:157).
LEMMA SocketClosedStep ==
  ASSUME TypeInv, NEW k \in Sockets, OnSessionClosed(k) \/ OnShutdown(k)
  PROVE  TypeInv' /\ Accounts /\ (Owned /\ ~PeersMayClose => Owned')
  <1>0. DataOK /\ LinkOK /\ SessionOK /\ BindOK /\ MutexOK /\ ThreadOK
    BY DEF TypeInv
  <1>1. /\ socket' = [socket EXCEPT ![k] = Free]
        /\ UNCHANGED <<dataVars, castSession, sessionVars, bindVars, mutex, thread>>
    BY DEF OnSessionClosed, OnShutdown, Shutdown
  <1>2. LinkOK' /\ \A j \in Sockets \ {k} : socket'[j] = socket[j]
    BY <1>0, <1>1 DEF LinkOK, Socket, Free
  <1>3. SessionOK' /\ BindOK' /\ MutexOK'
    BY <1>0, <1>1 DEF SessionOK, BindOK, MutexOK, sessionVars, bindVars
  <1>4. DataOK' /\ RecordsKept /\ ThreadOK' /\ HoldsKept
    BY <1>0, <1>1, StayData, StayThread
  <1>5. ~PeersMayClose => socket[k].role # "client"
    BY DEF OnSessionClosed, OnShutdown
  <1> QED
    BY <1>2, <1>3, <1>4, <1>5, OthersSocket DEF TypeInv

\* Every step.
LEMMA StepKeeps ==
  ASSUME TypeInv, [Next]_vars
  PROVE  TypeInv' /\ Accounts /\ (Owned /\ ~PeersMayClose => Owned')
  <1>1. ASSUME NEW t \in Threads,
               Connect(t) \/ Callback(t) \/ OpenQuietly(t) \/ DisconnectQuietly(t) \/ ConsultQuietly(t)
        PROVE  TypeInv' /\ Quiet
    BY <1>1, ConnectQuiet, CallbackQuiet, OpenQuiet, DisconnectQuiet, ConsultQuiet
  <1>2. ASSUME NEW t \in Threads, OpenConsultSession(t), ~OpenQuietly(t)
        PROVE  TypeInv' /\ Accounts /\ (Owned => Owned')
    BY <1>2, CreateSocketStep, BindSocketFailsStep, RecheckStep, SetDeviceTransIdStep
    DEF OpenConsultSession, OpenQuietly
  <1>3. ASSUME NEW t \in Threads, Disconnect(t), ~DisconnectQuietly(t)
        PROVE  TypeInv' /\ Accounts /\ (Owned => Owned')
    BY <1>3, ResetDeviceTransIdStep, CloseSessionStep DEF Disconnect, DisconnectQuietly
  <1>4. ASSUME NEW t \in Threads, Consult(t), ~ConsultQuietly(t)
        PROVE  TypeInv' /\ Accounts /\ (Owned => Owned')
    BY <1>4, OnSessionOpenedStep DEF Consult, ConsultQuietly
  <1>5. CASE Aside
    BY <1>5, AsideQuiet, QuietAccounts, QuietOwned
  <1>6. CASE \E k \in Sockets : OnSessionClosed(k) \/ OnShutdown(k)
    BY <1>6, SocketClosedStep
  <1>7. CASE UNCHANGED vars
    <2>1. DataOK /\ ThreadOK
      BY DEF TypeInv
    <2>2. DataOK' /\ RecordsKept /\ ThreadOK' /\ HoldsKept
      BY <1>7, <2>1, StayData, StayThread DEF vars
    <2>3. LinkOK' /\ SessionOK' /\ BindOK' /\ MutexOK' /\ UNCHANGED socket
      BY <1>7, StayRest DEF vars
    <2> QED
      BY <2>2, <2>3, QuietAccounts, QuietOwned DEF TypeInv, Quiet
  <1> QED
    BY <1>1, <1>2, <1>3, <1>4, <1>5, <1>6, <1>7, QuietAccounts, QuietOwned DEF Next, Aside

LEMMA InitHolds ==
  ASSUME Init
  PROVE  TypeInv /\ Owned
  <1>1. Idle \in Operation
    BY DEF Idle, Operation, Places
  <1>2. ThreadOK /\ \A t \in Threads : thread[t].sock = None
    BY <1>1 DEF Init, ThreadOK, Serving, Idle
  <1>3. DataOK /\ known = {}
    BY DEF Init, DataOK, DeviceInfo, Reset
  <1>4. LinkOK
    BY DEF Init, LinkOK, Socket, Free
  <1>5. SessionOK /\ BindOK /\ MutexOK
    BY DEF Init, SessionOK, BindOK, MutexOK
  <1> QED
    BY <1>2, <1>3, <1>4, <1>5, NoneIsApart
    DEF TypeInv, Owned, TransportsAreLive, TransportsHaveOneOwner, Records, Holds

(***************************************************************************)
(* The theorems.                                                           *)
(***************************************************************************)
LEMMA TypesHold == Spec => []TypeInv
  <1>1. Init => TypeInv
    BY InitHolds
  <1>2. TypeInv /\ [Next]_vars => TypeInv'
    BY StepKeeps
  <1> QED
    BY <1>1, <1>2, PTL DEF Spec

\* Types; and no operation of ConnectionManager has a socket of its own but
\* while it opens or closes one.
THEOREM ConnectionTypeCorrect == Spec => []TypeOK
  BY TypesHold, TypeInvIsTypeOK, PTL

\* OpenSoftBusSocket (connection_manager.cpp:1301) records or shuts down every
\* socket it creates and displaces none, however peers and other operations
\* come in between.
THEOREM SocketsAccountedFor == Spec => OpeningAccountsForSocket
  <1>1. TypeInv /\ [Next]_vars => [Accounts]_vars
    BY StepKeeps
  <1>2. Spec => [][Accounts]_vars
    BY <1>1, TypesHold, PTL DEF Spec
  <1> QED
    BY <1>2 DEF OpeningAccountsForSocket, Accounts

LEMMA OwnedHolds ==
  ASSUME PeersMayClose = FALSE
  PROVE  Spec => []Owned
  <1>1. Init => TypeInv /\ Owned
    BY InitHolds
  <1>2. (TypeInv /\ Owned) /\ [Next]_vars => (TypeInv /\ Owned)'
    BY StepKeeps
  <1> QED
    BY <1>1, <1>2, PTL DEF Spec

\* As long as no peer shuts a socket that was opened to it, the transports that
\* devices have, and those that operations open or close, are open and lead to
\* the right device.
THEOREM TransportsLive ==
  ASSUME PeersMayClose = FALSE
  PROVE  Spec => []TransportsAreLive
  BY OwnedHolds, PTL DEF Owned

\* Under the same assumption no socket that an operation opens or closes is
\* recorded for a device or in the hands of another operation.
THEOREM TransportsOneOwner ==
  ASSUME PeersMayClose = FALSE
  PROVE  Spec => []TransportsHaveOneOwner
  BY OwnedHolds, PTL DEF Owned

(***************************************************************************)
(* Sessions of connections.  A session that was created for a connection   *)
(* is either with the one operation that has yet to enter it in the map,   *)
(* and in no entry, or in at most one entry.                               *)
(***************************************************************************)
Ready(t, s) == thread[t].pc = "ready" /\ thread[t].session = s

SessionInv ==
  /\ SessionServesOneConnection
  /\ \A k \in Sockets : castSession[k] # None => castSession[k] \in created
  /\ \A t \in Threads, s \in Sinks : Ready(t, s) =>
       /\ s \in created
       /\ \A k \in Sockets : castSession[k] # s
       /\ \A u \in Threads : Ready(u, s) => u = t

\* t's operation is none that has a session to enter, and the others are as they were.
NotReady(t) == thread'[t].pc # "ready" /\ \A u \in Threads \ {t} : thread'[u] = thread[u]

LEMMA GoToNotReady ==
  ASSUME ThreadOK, NEW t \in Threads, NEW place, place # "ready", GoTo(t, place)
  PROVE  NotReady(t)
  BY DEF ThreadOK, Operation, GoTo, NotReady

LEMMA ReturnNotReady ==
  ASSUME ThreadOK, NEW t \in Threads, Return(t)
  PROVE  NotReady(t)
  BY DEF ThreadOK, Operation, Return, Idle, NotReady

LEMMA StartNotReady ==
  ASSUME ThreadOK, NEW t \in Threads, NEW place, place # "ready", NEW call, NEW d, NEW s,
         NEW seen, NEW conn, Start(t, place, call, d, s, seen, conn)
  PROVE  NotReady(t)
  BY DEF ThreadOK, Start, NotReady

LEMMA LeaveNotReady ==
  ASSUME ThreadOK, NEW t \in Threads, NEW place, place # "ready", LeaveOpening(t, place)
  PROVE  NotReady(t)
  BY DEF ThreadOK, Operation, LeaveOpening, NotReady

LEMMA TryAgainNotReady ==
  ASSUME ThreadOK, NEW t \in Threads, TryAgain(t)
  PROVE  NotReady(t)
  <1>1. CASE thread[t].first
    BY <1>1 DEF ThreadOK, Operation, TryAgain, NotReady
  <1>2. CASE ~thread[t].first
    BY <1>2, LeaveNotReady DEF TryAgain
  <1> QED
    BY <1>1, <1>2

LEMMA FailNotReady ==
  ASSUME ThreadOK, NEW t \in Threads, Fail(t)
  PROVE  NotReady(t)
  BY GoToNotReady, ReturnNotReady DEF Fail

LEMMA ConnectNotReady ==
  ASSUME ThreadOK, NEW t \in Threads, Connect(t)
  PROVE  NotReady(t) /\ UNCHANGED <<castSession, created>>
  <1>1. UNCHANGED <<castSession, created>>
    BY DEF Connect, AddDevice, CheckConnected, WaitListenerTimesOut, UpdateDevice, MarkConnecting,
       SetConnectingDeviceId, ConnectTrusted, BindTarget, BindTargetFails, SetDeviceIsActiveAuth,
       ExpectOnline, RestoreFound, ForgetConnecting, ConfirmConnected, linkVars, sessionVars
  <1>2. ASSUME \E s \in Sources, d \in Devices : AddDevice(t, s, d)
        PROVE  NotReady(t)
    BY <1>2, StartNotReady DEF AddDevice
  <1>3. ASSUME CheckConnected(t) \/ WaitListenerTimesOut(t) \/ UpdateDevice(t) \/ MarkConnecting(t)
        PROVE  NotReady(t)
    BY <1>3, GoToNotReady, ReturnNotReady
    DEF CheckConnected, WaitListenerTimesOut, UpdateDevice, MarkConnecting
  <1>4. ASSUME \/ SetConnectingDeviceId(t) \/ BindTarget(t)
               \/ BindTargetFails(t) \/ SetDeviceIsActiveAuth(t)
        PROVE  NotReady(t)
    BY <1>4, GoToNotReady
    DEF SetConnectingDeviceId, BindTarget, BindTargetFails, SetDeviceIsActiveAuth
  <1>5. ASSUME ConnectTrusted(t)
        PROVE  NotReady(t)
    BY <1>5, GoToNotReady DEF ConnectTrusted
  <1>6. ASSUME ExpectOnline(t) \/ RestoreFound(t) \/ ForgetConnecting(t) \/ ConfirmConnected(t)
        PROVE  NotReady(t)
    BY <1>6, GoToNotReady, ReturnNotReady
    DEF ExpectOnline, RestoreFound, ForgetConnecting, ConfirmConnected
  <1> QED
    BY <1>1, <1>2, <1>3, <1>4, <1>5, <1>6 DEF Connect

LEMMA CallbackNotReady ==
  ASSUME ThreadOK, NEW t \in Threads, Callback(t)
  PROVE  (NotReady(t) \/ UNCHANGED thread) /\ UNCHANGED <<castSession, created>>
  <1>1. UNCHANGED <<castSession, created>>
    BY DEF Callback, OnBindResult, OnDeviceOnline, OnDeviceInfoFound, OpenOnline, AddFound,
       linkVars, sessionVars
  <1>2. ASSUME \E d \in Devices : OnBindResult(t, d) \/ OnDeviceOnline(t, d) \/ OnDeviceInfoFound(t, d)
        PROVE  (NotReady(t) \/ UNCHANGED thread)
    BY <1>2, StartNotReady DEF OnBindResult, OnDeviceOnline, OnDeviceInfoFound
  <1>3. ASSUME OpenOnline(t)
        PROVE  (NotReady(t) \/ UNCHANGED thread)
    BY <1>3, ReturnNotReady DEF OpenOnline, ThreadOK, Operation, NotReady
  <1>4. ASSUME AddFound(t)
        PROVE  (NotReady(t) \/ UNCHANGED thread)
    BY <1>4, ReturnNotReady DEF AddFound
  <1> QED
    BY <1>1, <1>2, <1>3, <1>4 DEF Callback

LEMMA OpenNotReady ==
  ASSUME ThreadOK, NEW t \in Threads, OpenConsultSession(t)
  PROVE  NotReady(t) /\ UNCHANGED <<castSession, created>>
  <1>1. UNCHANGED <<castSession, created>>
    BY DEF OpenConsultSession, GetDeviceNetworkId, OpenSoftBusSocket, Attempt, CreateSocket,
       CreateSocketFails, BindSocket, BindSocketFails, Recheck, SetDeviceTransId,
       NotifyDisconnect, SetConnected, linkVars, sessionVars
  <1>2. ASSUME GetDeviceNetworkId(t) \/ NotifyDisconnect(t) \/ SetConnected(t) \/ BindSocket(t)
        PROVE  NotReady(t)
    BY <1>2, GoToNotReady, ReturnNotReady, FailNotReady
    DEF GetDeviceNetworkId, NotifyDisconnect, SetConnected, BindSocket
  <1>3. ASSUME OpenSoftBusSocket(t) \/ CreateSocket(t)
        PROVE  NotReady(t)
    BY <1>3 DEF OpenSoftBusSocket, CreateSocket, ThreadOK, Operation, NotReady
  <1>4. ASSUME CreateSocketFails(t) \/ BindSocketFails(t)
        PROVE  NotReady(t)
    BY <1>4, TryAgainNotReady DEF CreateSocketFails, BindSocketFails
  <1>5. ASSUME Attempt(t) \/ Recheck(t) \/ SetDeviceTransId(t)
        PROVE  NotReady(t)
    BY <1>5, LeaveNotReady, GoToNotReady DEF Attempt, Recheck, SetDeviceTransId
  <1> QED
    BY <1>1, <1>2, <1>3, <1>4, <1>5 DEF OpenConsultSession

LEMMA DisconnectNotReady ==
  ASSUME ThreadOK, NEW t \in Threads, Disconnect(t)
  PROVE  /\ NotReady(t) /\ UNCHANGED created
         /\ UNCHANGED castSession \/ castSession' = [castSession EXCEPT ![thread[t].conn] = None]
  <1>1. /\ UNCHANGED created
        /\ UNCHANGED castSession \/ castSession' = [castSession EXCEPT ![thread[t].conn] = None]
    BY DEF Disconnect, DisconnectDevice, IsDeviceUsed, MarkFound, ForgetDropped,
       ResetDeviceTransId, CloseSession, RemoveTransIdMapping, UpdateDeviceByDeviceId,
       linkVars, sessionVars
  <1>2. ASSUME \E s \in Sessions, d \in Devices : DisconnectDevice(t, s, d)
        PROVE  NotReady(t)
    BY <1>2, StartNotReady DEF DisconnectDevice
  <1>3. ASSUME IsDeviceUsed(t)
        PROVE  NotReady(t)
    BY <1>3, GoToNotReady DEF IsDeviceUsed
  <1>4. ASSUME MarkFound(t) \/ ForgetDropped(t) \/ RemoveTransIdMapping(t) \/ UpdateDeviceByDeviceId(t)
        PROVE  NotReady(t)
    BY <1>4, GoToNotReady, ReturnNotReady
    DEF MarkFound, ForgetDropped, RemoveTransIdMapping, UpdateDeviceByDeviceId
  <1>5. ASSUME ResetDeviceTransId(t) \/ CloseSession(t)
        PROVE  NotReady(t)
    BY <1>5 DEF ResetDeviceTransId, CloseSession, ThreadOK, Operation, NotReady
  <1> QED
    BY <1>1, <1>2, <1>3, <1>4, <1>5 DEF Disconnect

LEMMA NotReadyKeepsSessions ==
  ASSUME TypeInv, SessionInv, NEW t \in Threads, NotReady(t) \/ UNCHANGED thread,
         UNCHANGED created,
         \/ UNCHANGED castSession
         \/ castSession' = [castSession EXCEPT ![thread[t].conn] = None]
  PROVE  SessionInv'
  <1>1. castSession \in [Sockets -> Sinks \cup {None}]
    BY DEF TypeInv, LinkOK
  <1>2. \A k \in Sockets : castSession'[k] \in {castSession[k], None}
    BY <1>1
  <1>3. \A u \in Threads, s \in Sinks : Ready(u, s)' => Ready(u, s)
    BY DEF NotReady, Ready
  <1>4. SessionServesOneConnection'
    BY <1>2 DEF SessionInv, SessionServesOneConnection
  <1> QED
    BY <1>2, <1>3, <1>4, NoneIsApart DEF SessionInv

LEMMA OnSessionOpenedKeepsSessions ==
  ASSUME TypeInv, SessionInv, NEW t \in Threads, NEW k \in Sockets, NEW d \in Devices,
         OnSessionOpened(t, k, d)
  PROVE  SessionInv'
  <1>1. PICK s \in Sinks \ created :
          created' = created \cup {s} /\ Start(t, "ready", "consult", None, s, None, k)
    BY DEF OnSessionOpened
  <1>2. UNCHANGED castSession /\ ThreadOK
    BY DEF OnSessionOpened, TypeInv
  <1>3. thread'[t].session = s /\ \A u \in Threads \ {t} : thread'[u] = thread[u]
    BY <1>1, <1>2 DEF Start, ThreadOK
  <1>4. \A u \in Threads, r \in Sinks :
          Ready(u, r)' => (Ready(u, r) /\ u # t) \/ (u = t /\ r = s)
    BY <1>3 DEF Ready
  <1>5. (\A k2 \in Sockets : castSession[k2] # s) /\ \A u \in Threads : ~Ready(u, s)
    BY <1>1, NoneIsApart DEF SessionInv
  <1>6. SessionServesOneConnection'
    BY <1>2 DEF SessionInv, SessionServesOneConnection
  <1> QED
    BY <1>1, <1>2, <1>4, <1>5, <1>6 DEF SessionInv

LEMMA MapSessionKeepsSessions ==
  ASSUME TypeInv, SessionInv, NEW t \in Threads, MapSession(t)
  PROVE  SessionInv'
  <1> DEFINE k == thread[t].conn
             s == thread[t].session
  <1>1. /\ ThreadOK /\ castSession \in [Sockets -> Sinks \cup {None}]
        /\ castSession' = [castSession EXCEPT ![k] = IF @ = None THEN s ELSE @]
        /\ At(t, "ready") /\ Return(t) /\ UNCHANGED created
    BY DEF TypeInv, LinkOK, MapSession, sessionVars
  <1>2. s \in Sinks /\ Ready(t, s)
    BY <1>1 DEF ThreadOK, Serving, At, Ready
  <1>3. \A u \in Threads, r \in Sinks : Ready(u, r)' => Ready(u, r) /\ u # t
    BY <1>1, ReturnNotReady DEF NotReady, Ready
  <1>4. \A u \in Threads, r \in Sinks : Ready(u, r)' => r # s
    BY <1>2, <1>3 DEF SessionInv
  <1> HIDE DEF s
  <1>5. \A j \in Sockets :
          castSession'[j] = castSession[j] \/ (j = k /\ castSession'[j] = s)
    BY <1>1 DEF s
  <1>6. s \in created /\ \A j \in Sockets : castSession[j] # s
    BY <1>2 DEF SessionInv
  <1>7. SessionServesOneConnection'
    BY <1>5, <1>6 DEF SessionInv, SessionServesOneConnection
  <1> QED
    BY <1>1, <1>3, <1>4, <1>5, <1>6, <1>7 DEF SessionInv

LEMMA ConsultKeepsSessions ==
  ASSUME TypeInv, SessionInv, NEW t \in Threads, Consult(t)
  PROVE  SessionInv'
  <1>0. ThreadOK
    BY DEF TypeInv
  <1>1. CASE \E k \in Sockets, d \in Devices : OnSessionOpened(t, k, d)
    BY <1>1, OnSessionOpenedKeepsSessions
  <1>2. CASE \E k \in Sockets : OnConsultDataReceived(t, k)
    BY <1>0, <1>2, StartNotReady, NotReadyKeepsSessions
    DEF OnConsultDataReceived, linkVars, sessionVars
  <1>3. CASE MapSession(t)
    BY <1>3, MapSessionKeepsSessions
  <1>4. CASE \/ AddConsulted(t) \/ MarkConsulted(t)
             \/ NotifyRemoteDeviceIsReady(t) \/ RefuseRemoteDevice(t)
    <2>1. NotReady(t)
      BY <1>0, <1>4, GoToNotReady, ReturnNotReady
      DEF AddConsulted, MarkConsulted, NotifyRemoteDeviceIsReady, RefuseRemoteDevice
    <2>2. UNCHANGED <<castSession, created>>
      BY <1>4 DEF AddConsulted, MarkConsulted, NotifyRemoteDeviceIsReady, RefuseRemoteDevice,
         linkVars, sessionVars
    <2> QED
      BY <2>1, <2>2, NotReadyKeepsSessions
  <1> QED
    BY <1>1, <1>2, <1>3, <1>4 DEF Consult

LEMMA SessionsKept ==
  ASSUME TypeInv, SessionInv, [Next]_vars
  PROVE  SessionInv'
  <1>0. ThreadOK
    BY DEF TypeInv
  <1>1. ASSUME NEW t \in Threads, Connect(t) \/ Callback(t) \/ OpenConsultSession(t) \/ Disconnect(t)
        PROVE  SessionInv'
    BY <1>0, <1>1, ConnectNotReady, CallbackNotReady, OpenNotReady, DisconnectNotReady,
       NotReadyKeepsSessions
  <1>2. ASSUME UNCHANGED <<castSession, created, thread>>
        PROVE  SessionInv'
    BY <1>2 DEF SessionInv, SessionServesOneConnection, Ready
  <1>3. CASE \/ \E d \in Devices : UpdateDeviceState(d)
             \/ \E k \in Sockets : OnSessionClosed(k) \/ OnShutdown(k)
             \/ \E s \in Sinks : RemoveSessionListener(s)
             \/ UNCHANGED vars
    BY <1>2, <1>3 DEF UpdateDeviceState, OnSessionClosed, OnShutdown, RemoveSessionListener,
       vars, linkVars, sessionVars
  <1> QED
    BY <1>1, <1>3, ConsultKeepsSessions DEF Next

\* For any number of sockets, sessions and operations, whatever peers open, shut
\* and send: castSessionId of a connection is never another connection's too.
THEOREM SessionsNotShared == Spec => []SessionServesOneConnection
  <1>1. Init => SessionInv
    BY DEF Init, SessionInv, SessionServesOneConnection, Ready, Idle
  <1>2. TypeInv /\ SessionInv /\ [Next]_vars => SessionInv'
    BY SessionsKept
  <1>3. SessionInv => SessionServesOneConnection
    BY DEF SessionInv
  <1> QED
    BY <1>1, <1>2, <1>3, TypesHold, PTL DEF Spec
=============================================================================
