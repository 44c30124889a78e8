------------------------------ MODULE Channels ------------------------------
(***************************************************************************)
(* The channels of a session (service/src/session/src/channel): what       *)
(* ChannelManager keeps, and the threads under it.  Over TCP the source    *)
(* listens, in a thread that accepts one peer and starts another to read.  *)
(* Over SoftBus the source starts a session server, the sink a thread that *)
(* opens a session, and callbacks find the connection of a session by its  *)
(* name in a map all connections of the process share.                     *)
(*                                                                         *)
(* The session's looper makes channels and closes them; what uses one, the *)
(* RTSP engine or the local file channel, keeps it until told.  A step     *)
(* ends where a thread takes or leaves a mutex, blocks, or calls another   *)
(* component.                                                              *)
(*                                                                         *)
(* External: SoftBus, the kernel's sockets.                                *)
(***************************************************************************)
EXTENDS Naturals, FiniteSets

CONSTANTS
  Modules,        \* the kinds of channels: "rtsp", "stream"
  Links,          \* the links of the session's device that are considered
  Ends,           \* which ends: TRUE is the source
  MaxConnections, \* bound: channels made
  MaxSessions     \* bound: SoftBus sessions open at a time

ASSUME ChannelsAssumption ==
  /\ MaxConnections \in Nat /\ MaxSessions \in Nat
  /\ Modules \subseteq {"rtsp", "stream"}
  /\ Links \subseteq {"TCP", "SOFT_BUS"} /\ Ends \subseteq BOOLEAN

VARIABLES
  side,       \* the link of the session's device and the session's end
  made,       \* connectionNum_
  module,     \* the module type of a connection: with the session's id, its SoftBus name
  managed,    \* ChannelManager's connectionMap_
  looper,     \* where the session's looper is, and the connection it is busy with
  listed,     \* the session lists the device
  user,       \* channel_ of the RTSP engine and of the local file channel
  work,       \* where the thread that sets a connection up is
  cut,        \* where that was when the connection was first closed
  hand,       \* the descriptor or the session id that thread was given
  tcp,        \* remoteSocket_, isReceiving_, stopReceive_
  shut,       \* connections whose socket was shut down
  reader,     \* where the thread that reads a connection is
  on,         \* whose socket it is blocked on
  file,       \* the socket a descriptor stands for
  passive,    \* isPassiveClose_
  id,         \* softBusSessionId_
  entry,      \* SoftBusConnection::connectionMap_, by name
  idName,     \* sessionIdToNameMap_
  servers,    \* the names SoftBus has a session server for
  sess,       \* SoftBus's sessions, and the callback that is running for each
  dying,      \* connections whose last reference a thread has dropped
  jam         \* a thread destroys a connection with the map's mutex in hand

managerVars == <<side, made, module, managed, listed>>
socketVars == <<hand, tcp, shut, reader, on, file>>
nameVars == <<passive, id, entry, idName, servers>>
busVars == <<nameVars, sess, dying, jam>>
channelsVars == <<managerVars, looper, user, work, cut, socketVars, busVars>>

NoConn == 0
NoName == "none"
Conns == 1..MaxConnections
Sockets == 1..MaxConnections
Sessions == 1..MaxSessions

Idle == [at |-> "idle", conn |-> NoConn]
Free == [st |-> "free", name |-> NoName, at |-> "idle", conn |-> NoConn]

Tcp == side.link = "TCP"
SoftBus == ~Tcp
Least(S) == CHOOSE x \in S : \A y \in S : x <= y

ChannelsInit ==
  /\ side \in [link : Links, source : Ends]
  /\ made = 0 /\ managed = {} /\ looper = Idle /\ listed = FALSE
  /\ module = [c \in Conns |-> NoName]
  /\ user = [m \in Modules |-> NoConn]
  /\ work = [c \in Conns |-> "end"] /\ cut = [c \in Conns |-> "no"]
  /\ tcp = [c \in Conns |-> [remote |-> 0, isReceiving |-> FALSE, stopReceive |-> FALSE]]
  /\ hand = [c \in Conns |-> 0]
  /\ shut = {} /\ reader = [c \in Conns |-> "none"] /\ on = [c \in Conns |-> NoConn]
  /\ file = [f \in Sockets |-> NoConn]
  /\ passive = [c \in Conns |-> FALSE] /\ id = [c \in Conns |-> 0]
  /\ entry = [m \in Modules |-> NoConn] /\ idName = [s \in Sessions |-> NoName]
  /\ servers = {} /\ sess = [s \in Sessions |-> Free]
  /\ dying = {} /\ jam = FALSE

-----------------------------------------------------------------------------
(* The references to a SoftBus connection; the last one destroys it.           *)

Held(c) ==
  \/ c \in managed \/ c = looper.conn
  \/ \E m \in Modules : c \in {user[m], entry[m]}
  \/ work[c] # "end"
  \/ \E s \in Sessions : sess[s].conn = c

Dropped == {c \in Conns : Held(c) /\ ~Held(c)'}

(* Thread t may drop references here; a TCP connection leaves nothing to do.   *)
DropsAs(t) ==
  /\ dying' = IF Tcp THEN {} ELSE dying \cup (Dropped \X {t})
  /\ UNCHANGED jam

(* The same with connectionMapMtx_ in hand, which the destructor asks for.     *)
DropsUnderLock ==
  /\ jam' = (Dropped # {})
  /\ UNCHANGED dying

Looper == <<"looper", 0>>
Event(s) == <<"event", s>>
Destroying(t) == \E c \in Conns : <<c, t>> \in dying

-----------------------------------------------------------------------------
(* What the session makes of the reports (ChannelManagerListenerImpl).  The    *)
(* errors reported to it end in DestroyAllChannels, which may come anyway.     *)

OnChannelCreated(c) ==
  user' = IF listed THEN [user EXCEPT ![module[c]] = c] ELSE user

(* The channel is dropped whichever it is. *)
OnChannelRemoved(c) == user' = [user EXCEPT ![module[c]] = NoConn]

-----------------------------------------------------------------------------
(* ChannelManager::CreateChannel.  The looper makes one RTSP channel when it   *)
(* connects, and a stream channel whenever the peer asks for one.              *)

NewChannel(m) ==
  /\ looper = Idle /\ ~Destroying(Looper) /\ made < MaxConnections
  /\ IF m = "stream" THEN listed ELSE \A c \in managed : module[c] # m
  /\ made' = made + 1
  /\ module' = [module EXCEPT ![made + 1] = m]
  /\ listed' = TRUE
  /\ UNCHANGED side

(* TcpConnection::StartListen.  A connection that cannot bind is not kept, but *)
(* has its thread all the same.                                                *)
StartListenTcp(m) ==
  /\ Tcp /\ side.source /\ NewChannel(m)
  /\ \/ managed' = managed \cup {made + 1} /\ work' = [work EXCEPT ![made + 1] = "start"]
     \/ managed' = managed /\ work' = [work EXCEPT ![made + 1] = "unbound"]
  /\ UNCHANGED <<looper, user, cut, socketVars, busVars>>

(* StartConnection.  Over TCP the thread leaves at once, and says nothing:     *)
(* nobody fills in the port that a request is for.                             *)
StartConnection(m) ==
  /\ ~side.source /\ NewChannel(m)
  /\ managed' = managed \cup {made + 1}
  /\ work' = IF Tcp THEN work ELSE [work EXCEPT ![made + 1] = "serve"]
  /\ UNCHANGED <<looper, user, cut, socketVars, busVars>>

(* SoftBusConnection::StartListen: a session server that cannot be had is only *)
(* logged.                                                                     *)
StartListen(m) ==
  /\ SoftBus /\ side.source /\ NewChannel(m)
  /\ looper' = [at |-> "enter", conn |-> made + 1]
  /\ \/ servers' = servers \cup {m}
     \/ servers' = servers
  /\ UNCHANGED <<managed, user, work, cut, socketVars, passive, id, entry, idName, sess, dying, jam>>

EnterListening ==
  LET c == looper.conn IN
  /\ looper.at = "enter" /\ ~jam
  /\ entry' = [entry EXCEPT ![module[c]] = c]
  /\ managed' = managed \cup {c}
  /\ looper' = Idle
  /\ UNCHANGED <<side, made, module, listed, user, work, cut, socketVars, passive, id, idName,
                 servers, sess>>
  /\ DropsUnderLock

-----------------------------------------------------------------------------
(* TcpConnection: the thread that accepts.                                     *)

Goto(c, place) == work' = [work EXCEPT ![c] = place]

(* It comes to accept, after which closing the listening socket may or may not *)
(* wake it; if it was closed, or never bound, accept and the channel fail.     *)
Accept(c) ==
  /\ \/ work[c] = "start" /\ Goto(c, IF cut[c] = "no" THEN "accept" ELSE "end")
     \/ work[c] = "unbound" /\ Goto(c, "end")
     \/ work[c] = "accept" /\ cut[c] # "no" /\ Goto(c, "end")
  /\ UNCHANGED <<managerVars, looper, user, cut, socketVars, busVars>>

(* A peer connects: the least descriptor that is free. *)
PeerConnects(c) ==
  LET f == Least({g \in Sockets : file[g] = NoConn}) IN
  /\ work[c] = "accept"
  /\ file' = [file EXCEPT ![f] = c]
  /\ hand' = [hand EXCEPT ![c] = f]
  /\ Goto(c, "accepted")
  /\ UNCHANGED <<managerVars, looper, user, cut, tcp, shut, reader, on, busVars>>

(* The peer has no port any more: the channel fails, the socket stays open.    *)
PeerPortFails(c) ==
  /\ work[c] = "accepted" /\ Goto(c, "failed")
  /\ UNCHANGED <<managerVars, looper, user, cut, socketVars, busVars>>

(* remoteSocket_ is set, without connectionMtx_. *)
SetRemoteSocket(c) ==
  /\ work[c] = "accepted" /\ Goto(c, "open")
  /\ tcp' = [tcp EXCEPT ![c].remote = hand[c]]
  /\ UNCHANGED <<managerVars, looper, user, cut, hand, shut, reader, on, file, busVars>>

(* OnConnectionOpened, and the thread that reads. *)
OpenTcp(c) ==
  /\ work[c] = "open" /\ Goto(c, "end")
  /\ OnChannelCreated(c)
  /\ reader' = [reader EXCEPT ![c] = "new"]
  /\ UNCHANGED <<managerVars, looper, cut, hand, tcp, shut, on, file, busVars>>

-----------------------------------------------------------------------------
(* TcpConnection: the thread that reads.                                       *)

Read(c, from, to) == reader[c] = from /\ reader' = [reader EXCEPT ![c] = to]

ReadLooper(c) ==
  /\ Read(c, "new", "loop")
  /\ tcp' = [tcp EXCEPT ![c].isReceiving = TRUE]
  /\ UNCHANGED <<managerVars, looper, user, work, cut, hand, shut, on, file, busVars>>

(* Round the loop: the descriptor stands for what it now stands for.           *)
Recv(c) ==
  /\ IF tcp[c].isReceiving
     THEN Read(c, "loop", "recv") /\ on' = [on EXCEPT ![c] = file[hand[c]]]
     ELSE Read(c, "loop", "end") /\ UNCHANGED on
  /\ UNCHANGED <<managerVars, looper, user, work, cut, hand, tcp, shut, file, busVars>>

(* Whatever recv returned, TcpSocket::Recv then looks at stopReceive_. *)
Received(c) == IF tcp[c].stopReceive THEN "end" ELSE "handle"

(* A message is there: the header and the payload in one step. *)
RecvPacket(c) ==
  /\ on[c] # NoConn /\ on[c] \notin shut
  /\ Read(c, "recv", Received(c))
  /\ UNCHANGED <<managerVars, looper, user, work, cut, hand, tcp, shut, on, file, busVars>>

(* There is nothing to wait for: the descriptor is closed, or the socket shut  *)
(* down.  An error is reported.  When only the peer has ended the connection,  *)
(* recv returns 0 for good, which Recv takes for no data yet, and goes round.  *)
RecvEnds(c) ==
  /\ on[c] = NoConn \/ on[c] \in shut
  /\ Read(c, "recv", "end")
  /\ UNCHANGED <<managerVars, looper, user, work, cut, hand, tcp, shut, on, file, busVars>>

(* The connection is reset, or a length is illegal. *)
RecvFails(c) ==
  /\ on[c] # NoConn /\ Read(c, "recv", "end")
  /\ UNCHANGED <<managerVars, looper, user, work, cut, hand, tcp, shut, on, file, busVars>>

HandleReceivedData(c) ==
  /\ Read(c, "handle", "loop")
  /\ UNCHANGED <<managerVars, looper, user, work, cut, hand, tcp, shut, on, file, busVars>>

-----------------------------------------------------------------------------
(* SoftBusConnection::SetupSession.                                            *)

(* StartSoftBusService, or the connection fails; so it does without a network  *)
(* id for the device.                                                          *)
StartSoftBusService(c) ==
  /\ work[c] = "serve"
  /\ \/ Goto(c, "setup") /\ servers' = servers \cup {module[c]}
     \/ Goto(c, "end") /\ servers' \in {servers, servers \cup {module[c]}}
  /\ UNCHANGED <<managerVars, looper, user, cut, socketVars, passive, id, entry, idName, sess>>
  /\ DropsAs(<<"work", c>>)

Available == {s \in Sessions : sess[s].st = "free"}

OpenSoftBusSession(c) ==
  /\ work[c] = "setup"
  /\ \/ /\ module[c] \in servers /\ Available # {}
        /\ sess' = [sess EXCEPT ![Least(Available)] =
                      [st |-> "opening", name |-> module[c], at |-> "idle", conn |-> NoConn]]
        /\ hand' = [hand EXCEPT ![c] = Least(Available)]
        /\ Goto(c, "name")
     \/ Goto(c, "end") /\ UNCHANGED <<sess, hand>>
  /\ UNCHANGED <<managerVars, looper, user, cut, tcp, shut, reader, on, file, nameVars>>
  /\ DropsAs(<<"work", c>>)

(* SoftBusWrapper::SetSessionId: an id that has a name keeps it. *)
Named(s, m) == IF idName[s] = NoName THEN [idName EXCEPT ![s] = m] ELSE idName

SetSessionId(c) ==
  /\ work[c] = "name" /\ Goto(c, "enter")
  /\ id' = [id EXCEPT ![c] = hand[c]]
  /\ idName' = Named(hand[c], module[c])
  /\ UNCHANGED <<managerVars, looper, user, cut, socketVars, passive, entry, servers, sess, dying,
                 jam>>

EnterSession(c) ==
  /\ work[c] = "enter" /\ ~jam /\ Goto(c, "end")
  /\ entry' = [entry EXCEPT ![module[c]] = c]
  /\ UNCHANGED <<managerVars, looper, user, cut, socketVars, passive, id, idName, servers, sess>>
  /\ DropsUnderLock

-----------------------------------------------------------------------------
(* SoftBus: sessions, and the callbacks for each, one at a time.               *)

PeerOpens(m) ==
  /\ side.source /\ m \in servers /\ Available # {}
  /\ sess' = [sess EXCEPT ![Least(Available)] =
                [st |-> "opened", name |-> m, at |-> "idle", conn |-> NoConn]]
  /\ UNCHANGED <<managerVars, looper, user, work, cut, socketVars, nameVars, dying, jam>>

(* The session that was asked for is there, or not; the callback is the same. *)
PeerAnswers(s) ==
  /\ sess[s].st = "opening"
  /\ \E result \in {"opened", "refused"} : sess' = [sess EXCEPT ![s].st = result]
  /\ UNCHANGED <<managerVars, looper, user, work, cut, socketVars, nameVars, dying, jam>>

PeerCloses(s) ==
  /\ sess[s].st = "up" /\ sess[s].at = "idle"
  /\ sess' = [sess EXCEPT ![s].st = "down"]
  /\ UNCHANGED <<managerVars, looper, user, work, cut, socketVars, nameVars, dying, jam>>

(* The callback for s returns. *)
Returned(s) ==
  IF sess[s].st = "opened"
  THEN [sess EXCEPT ![s] = [st |-> "up", name |-> sess[s].name, at |-> "idle", conn |-> NoConn]]
  ELSE [sess EXCEPT ![s] = Free]

(* GetConnection: by the id's name in sessionIdToNameMap_, or SoftBus's for it. *)
FoundBy(s) == entry[IF idName[s] = NoName THEN sess[s].name ELSE idName[s]]

(* A callback begins with its connection, or ends without. *)
Begin(s, place) ==
  /\ sess[s].at = "idle" /\ ~Destroying(Event(s)) /\ ~jam
  /\ sess' = IF FoundBy(s) = NoConn THEN Returned(s)
             ELSE [sess EXCEPT ![s].at = place, ![s].conn = FoundBy(s)]

OnConnectionSessionOpened(s) ==
  /\ sess[s].st \in {"opened", "refused"}
  /\ Begin(s, "report")
  /\ UNCHANGED <<managerVars, looper, user, work, cut, socketVars, nameVars, dying, jam>>

Active(c) == ~side.source

ReportOpened(s) ==
  LET c == sess[s].conn IN
  /\ sess[s].at = "report"
  /\ passive' = [passive EXCEPT ![c] = FALSE]
  /\ IF Active(c) THEN UNCHANGED <<id, idName>>
     ELSE id' = [id EXCEPT ![c] = s] /\ idName' = Named(s, module[c])
  /\ OnChannelCreated(c)
  /\ sess' = Returned(s)
  /\ UNCHANGED <<managerVars, looper, work, cut, socketVars, entry, servers>>
  /\ DropsAs(Event(s))

OnConnectionSessionClosed(s) ==
  /\ sess[s].st = "down"
  /\ Begin(s, "erase")
  /\ passive' = IF FoundBy(s) = NoConn THEN passive ELSE [passive EXCEPT ![FoundBy(s)] = TRUE]
  /\ UNCHANGED <<managerVars, looper, user, work, cut, socketVars, id, entry, idName, servers,
                 dying, jam>>

-----------------------------------------------------------------------------
(* CloseConnection.                                                            *)

Cut(c) == IF cut[c] = "no" THEN [cut EXCEPT ![c] = work[c]] ELSE cut

ShutdownOnly(c) ==  \* mutant
  [file |-> file, shut |-> shut \cup {c}, stop |-> TRUE]

NeverStopped(c) ==  \* mutant
  [file |-> [file EXCEPT ![tcp[c].remote] = NoConn], shut |-> shut \cup {c}, stop |-> FALSE]

ClosedOnly(c) ==  \* mutant
  [file |-> [file EXCEPT ![tcp[c].remote] = NoConn], shut |-> shut, stop |-> TRUE]

(* TcpSocket::Shutdown *)
Shutdown(c) ==
  [file |-> [file EXCEPT ![tcp[c].remote] = NoConn], shut |-> shut \cup {c}, stop |-> TRUE]

(* TcpConnection::CloseConnection, and its report. *)
CloseTcp(c) ==
  LET has == tcp[c].remote # 0 IN
  /\ Tcp
  /\ cut' = Cut(c)
  /\ tcp' = [tcp EXCEPT ![c] = [remote |-> 0, isReceiving |-> FALSE,
                                stopReceive |-> IF has THEN Shutdown(c).stop ELSE @.stopReceive]]
  /\ file' = IF has THEN Shutdown(c).file ELSE file
  /\ shut' = IF has THEN Shutdown(c).shut ELSE shut
  /\ OnChannelRemoved(c)
  /\ UNCHANGED <<work, hand, reader, on, busVars>>

WithoutEntry(c) == entry  \* mutant

(* SoftBusConnection::CloseConnection: first the entry, whoever has it now. *)
Erased(c) == [entry EXCEPT ![module[c]] = NoConn]

(* SoftBus ends sessions; one whose callback runs keeps its id until then.     *)
Ended(S) ==
  [s \in Sessions |->
     IF s \notin S \/ sess[s].st = "free" THEN sess[s]
     ELSE IF sess[s].at = "idle" THEN Free ELSE [sess[s] EXCEPT !.st = "gone"]]

(* RemoveSessionServer *)
Unserved(m) == servers \ {m}

(* Then the session, unless the peer closed it, and the session server, whose  *)
(* sessions end with it.                                                       *)
OwnSession(c) == IF passive[c] \/ id[c] = 0 THEN {} ELSE {id[c]}
EndedWith(c) ==
  Ended(OwnSession(c) \cup {s \in Sessions : sess[s].name \in servers \ Unserved(module[c])})

EndSession(c) ==
  /\ idName' = [s \in Sessions |-> IF s \in OwnSession(c) THEN NoName ELSE idName[s]]
  /\ passive' = [passive EXCEPT ![c] = FALSE]
  /\ servers' = Unserved(module[c])
  /\ UNCHANGED <<id, socketVars>>

(* In OnConnectionSessionClosed. *)
EraseEntry(s) ==
  LET c == sess[s].conn IN
  /\ sess[s].at = "erase" /\ ~jam
  /\ entry' = Erased(c) /\ cut' = Cut(c)
  /\ sess' = [sess EXCEPT ![s].at = "stop"]
  /\ UNCHANGED <<managerVars, looper, user, work, socketVars, passive, id, idName, servers>>
  /\ DropsUnderLock

StopService(s) ==
  LET c == sess[s].conn IN
  /\ sess[s].at = "stop"
  /\ EndSession(c)
  /\ sess' = [EndedWith(c) EXCEPT ![s].at = "remove"]
  /\ UNCHANGED <<managerVars, looper, user, work, cut, entry, dying, jam>>

ReportClosed(s) ==
  /\ sess[s].at = "remove"
  /\ OnChannelRemoved(sess[s].conn)
  /\ sess' = Returned(s)
  /\ UNCHANGED <<managerVars, looper, work, cut, socketVars, nameVars>>
  /\ DropsAs(Event(s))

(* The destructor closes the connection once more. *)
Destroy(c, t) ==
  /\ <<c, t>> \in dying /\ ~jam
  /\ entry' = Erased(c)
  /\ EndSession(c)
  /\ sess' = EndedWith(c)
  /\ dying' = dying \ {<<c, t>>}
  /\ UNCHANGED <<managerVars, looper, user, work, cut>>
  /\ jam' = (Dropped # {})

-----------------------------------------------------------------------------
(* ChannelManager::DestroyAllChannels; the session then forgets its device.    *)

DestroyAllChannels ==
  /\ looper = Idle /\ listed /\ ~Destroying(Looper)
  /\ looper' = [at |-> "destroy", conn |-> NoConn]
  /\ UNCHANGED <<managerVars, user, work, cut, socketVars, busVars>>

First == Least(managed)

DestroyTcp ==
  /\ looper.at = "destroy" /\ managed # {}
  /\ CloseTcp(First)
  /\ managed' = managed \ {First}
  /\ UNCHANGED <<side, made, module, listed, looper>>

CloseConnection ==
  /\ SoftBus /\ looper.at = "destroy" /\ managed # {} /\ ~Destroying(Looper) /\ ~jam
  /\ entry' = Erased(First) /\ cut' = Cut(First)
  /\ looper' = [at |-> "close", conn |-> First]
  /\ UNCHANGED <<managerVars, user, work, socketVars, passive, id, idName, servers, sess>>
  /\ DropsUnderLock

CloseSoftBusSession ==
  LET c == looper.conn IN
  /\ looper.at = "close"
  /\ EndSession(c)
  /\ sess' = EndedWith(c)
  /\ managed' = managed \ {c}
  /\ looper' = [at |-> "destroy", conn |-> NoConn]
  /\ UNCHANGED <<side, made, module, listed, user, work, cut, entry>>
  /\ DropsAs(Looper)

RemoveRemoteDevice ==
  /\ looper.at = "destroy" /\ managed = {} /\ ~Destroying(Looper)
  /\ looper' = Idle /\ listed' = FALSE
  /\ UNCHANGED <<side, made, module, managed, user, work, cut, socketVars, busVars>>

-----------------------------------------------------------------------------
Reading(c) ==
  \/ ReadLooper(c) \/ Recv(c) \/ RecvPacket(c) \/ RecvEnds(c) \/ RecvFails(c)
  \/ HandleReceivedData(c)

Accepting(c) ==
  \/ Accept(c) \/ PeerConnects(c) \/ PeerPortFails(c) \/ SetRemoteSocket(c) \/ OpenTcp(c)

SetupSession(c) ==
  \/ StartSoftBusService(c) \/ OpenSoftBusSession(c) \/ SetSessionId(c) \/ EnterSession(c)

Callback(s) ==
  \/ OnConnectionSessionOpened(s) \/ ReportOpened(s)
  \/ OnConnectionSessionClosed(s) \/ EraseEntry(s) \/ StopService(s) \/ ReportClosed(s)

ChannelsNext ==
  \/ \E m \in Modules : StartListenTcp(m) \/ StartConnection(m) \/ StartListen(m) \/ PeerOpens(m)
  \/ EnterListening
  \/ DestroyAllChannels \/ DestroyTcp \/ CloseConnection \/ CloseSoftBusSession
  \/ RemoveRemoteDevice
  \/ \E c \in Conns : Reading(c) \/ Accepting(c) \/ SetupSession(c)
  \/ \E s \in Sessions : PeerAnswers(s) \/ PeerCloses(s) \/ Callback(s)
  \/ \E d \in dying : Destroy(d[1], d[2])

ChannelsSpec == ChannelsInit /\ [][ChannelsNext]_channelsVars

(* Threads are scheduled, and a socket that is shut or closed returns.         *)
ChannelsFairness ==
  \A c \in Conns :
    /\ WF_channelsVars(ReadLooper(c)) /\ WF_channelsVars(Recv(c)) /\ WF_channelsVars(RecvEnds(c))
    /\ WF_channelsVars(HandleReceivedData(c)) /\ WF_channelsVars(OpenTcp(c))

ChannelsFairSpec == ChannelsSpec /\ ChannelsFairness

(***************************************************************************)
(* Properties.                                                             *)
(***************************************************************************)

\* Types, and that references and ids are of what was made.
ChannelsTypeOK ==
  /\ side \in [link : Links, source : Ends] /\ made \in 0..MaxConnections /\ managed \subseteq 1..made
  /\ module \in [Conns -> Modules \cup {NoName}]
  /\ looper \in [at : {"idle", "enter", "destroy", "close"}, conn : 0..made]
  /\ user \in [Modules -> 0..made] /\ entry \in [Modules -> 0..made]
  /\ hand \in [Conns -> Nat]
  /\ tcp \in [Conns -> [remote : {0} \cup Sockets, isReceiving : BOOLEAN, stopReceive : BOOLEAN]]
  /\ file \in [Sockets -> 0..made] /\ on \in [Conns -> 0..made] /\ shut \subseteq 1..made
  /\ passive \in [Conns -> BOOLEAN] /\ id \in [Conns -> {0} \cup Sessions]
  /\ idName \in [Sessions -> Modules \cup {NoName}] /\ servers \subseteq Modules
  /\ \A s \in Sessions :
       sess[s] = Free \/ (sess[s].st # "free" /\ sess[s].name \in Modules /\ sess[s].conn \in 0..made)
  /\ \A d \in dying : ~Held(d[1])

Closed(c) == cut[c] # "no"

\* The connection was closed while the thread that sets it up had still to go
\* on; and before it had stored what it set up where the closing looks for it.
Midway(c) == cut[c] \notin {"no", "end", "failed", "unbound"}
Undone(c) == Midway(c) /\ cut[c] # "open"

\* A closed connection gives back what it had: its descriptor is closed, unless
\* the peer's port could not be had or the socket was accepted too late for
\* CloseConnection; and a session server runs only for a connection that is
\* kept or being made, unless that was closed before its thread had started the
\* server (tcp_connection.cpp:164, softbus_connection.cpp:519-542).
ClosedIsReturned ==
  /\ \A f \in Sockets :
       file[f] # NoConn /\ Closed(file[f]) => Undone(file[f]) \/ work[file[f]] = "failed"
  /\ SoftBus => \A m \in servers :
       \E c \in Conns : module[c] = m /\ (c \in managed \cup {looper.conn} \/ Undone(c))

\* A message that is handed on is of the connection's own peer, and the
\* connection was not closed, unless it was accepted too late: a descriptor
\* may stand for another connection's socket by the time a reader uses it.
PacketsAreOwn ==
  [][\A c \in Conns :
       reader[c] = "recv" /\ reader'[c] = "handle" => on[c] = c /\ (Closed(c) => Undone(c))]_channelsVars

\* The thread that reads a closed connection ends, unless the connection was
\* accepted too late or the thread waits on the socket of a later one.
ReadersEnd ==
  \A c \in Conns :
    Tcp /\ Closed(c) /\ ~Undone(c) ~>
      /\ work[c] \notin {"accepted", "open"}
      /\ reader[c] \in {"none", "end"} \/ on[c] \notin {NoConn, c}

\* A connection is never destroyed, and so closed, by a thread that has the
\* map's mutex, which would wait for itself: unless the map got an entry for a
\* connection that was closed before its thread had entered it.
LockSurvives == jam => \E c \in Conns : Undone(c)
=============================================================================
