-------------------------- MODULE DiscoveryProofs --------------------------
(***************************************************************************)
(* Discovery keeps its types and its mutexes one owner each; its deadlocks *)
(* run through those who ask with DiscoveryManager's mutex in hand; what   *)
(* it lists was told, what it tells to be offline was missed twice, and a  *)
(* discovery that was started has a thread: for any devices, threads and   *)
(* calls.                                                                  *)
(***************************************************************************)
EXTENDS Discovery, FiniteSetTheorems, TLAPS

(***************************************************************************)
(* The invariant.                                                          *)
(***************************************************************************)
\* Where an operation may be.
Stationed(o, place) ==
  \/ o = "none" /\ place = "idle"
  \/ o = "start" /\ place \in {"clear", "placeholder"}
  \/ o = "stop" /\ place \in {"request", "fresh", "halt"}
  \/ o = "connect" /\ place \in {"set", "fresh", "halt", "fail"}
  \/ o = "disconnect" /\ place \in {"drop", "fresh", "halt", "again"}
  \/ o = "release" /\ place \in {"enter", "check", "fresh", "halt", "reset", "resetSink"}
  \/ o = "died" /\ place \in {"check", "fresh", "halt", "reset"}
  \/ o = "found" /\ place \in {"look", "add", "report", "list"}
  \/ o = "scan" /\ place \in {"update", "ask", "sink", "tell", "count"}

Asked == {"none", "start", "stop", "connect", "disconnect", "release", "died"}

MayDo(t, o) ==
  \/ t \in Callers /\ o \in Asked
  \/ t \in Finders /\ o \in {"none", "found"}
  \/ t = Scan /\ o \in {"none", "scan"}

ThreadTypes ==
  /\ op \in [Threads -> Asked \cup {"found", "scan"}] /\ DOMAIN at = Threads
  /\ \A t \in Threads : MayDo(t, op[t]) /\ Stationed(op[t], at[t])
  /\ dev \in [Threads -> Devices \cup {NoDevice}]
  /\ calls \in 0 .. MaxCalls

Entries == [face : Faces, count : Nat]
Known == [known : BOOLEAN, fresh : SUBSET Kinds, addr : SUBSET Kinds]

\* A finder reports the device it is busy with, by its name.
Reporting(f) ==
  /\ found[f].face \in Faces /\ found[f].face.dev = dev[f] /\ ~found[f].face.blank
  /\ dev[f] \in Devices

FoundTypes ==
  /\ DOMAIN found = Finders \cup {Scan}
  /\ \A f \in Finders : op[f] = "found" => Reporting(f)

DataTypes ==
  /\ remoteDeviceMap \subseteq Entries /\ expired \subseteq Entries
  /\ scanCount \in Nat /\ base \in Nat
  /\ data \in [Devices -> Known]
  /\ connecting \in Devices \cup {NoDevice}
  /\ online \subseteq Devices /\ torn \subseteq Devices
  /\ quiet \in [Devices -> 0 .. 2]

FlagTypes ==
  /\ hasStartDiscovery \in BOOLEAN /\ listener \in BOOLEAN /\ sink \in BOOLEAN
  /\ served \in BOOLEAN /\ discovering \in BOOLEAN
  /\ queue \in [start : BOOLEAN, continue : Nat, count : Nat]
  /\ runner \in [spawned : Nat, running : BOOLEAN, finished : BOOLEAN, crossed : BOOLEAN]

TypeInv == ThreadTypes /\ FoundTypes /\ DataTypes /\ FlagTypes

\* No two threads hold a mutex, unless both hold the shared one to read.
Excludes(t, u) ==
  /\ \A lock \in {"dm", "cm", "write"} : ~(Holds(t, lock) /\ Holds(u, lock))
  /\ ~(Holds(t, "read") /\ Holds(u, "write"))

LockInv == \A t \in Threads, u \in Threads : t # u => Excludes(t, u)

\* From the clearing of the list to the placeholder no finder looks at it.
ClearedInv ==
  (\E t \in Callers : at[t] = "placeholder") => remoteDeviceMap = {} /\ Midway \subseteq torn

Told == listener /\ sink /\ served
Reported(d) == Told => data[d].known /\ d \in online
Finds(f, d) == MidFind(f) /\ dev[f] = d
Sole(f, d) == Finds(f, d) /\ \A g \in Finders \ {f} : ~Finds(g, d)

\* A device nobody is about to enter is listed once, and reported.
Settled(d) ==
  /\ \A e, o \in Listed(d) : e = o
  /\ (\E e \in Listed(d) : ~e.face.blank) => Reported(d)

\* One that only f is about to enter has no entry but the one f renews.
Pending(f, d) ==
  /\ at[f] \in {"add", "report"} => Listed(d) = {}
  /\ at[f] = "report" => data[d].known
  /\ at[f] = "list" => Reported(d) /\ \A e \in Listed(d) : e.face = found[f].face

Kept(d) ==
  /\ d \notin Midway => Settled(d)
  /\ \A f \in Finders : Sole(f, d) => Pending(f, d)

ListInv == \A d \in Devices \ torn : Kept(d)

\* An entry's count is no further behind than the device has been quiet for.
CountInv ==
  \A d \in Devices \ torn : \A e \in Listed(d) : quiet[d] = 2 \/ scanCount <= e.count + quiet[d]

Due(d) == d \in torn \/ quiet[d] = 2

\* What the scan is through with is listed, and due.
ExpiredInv ==
  at[Scan] \in {"ask", "sink", "tell"} =>
    expired \subseteq remoteDeviceMap /\ \A e \in expired : Due(e.face.dev)

AgingInv ==
  at[Scan] \in {"sink", "tell"} =>
    /\ dev[Scan] \in Devices /\ Due(dev[Scan])
    /\ found[Scan].face.dev = dev[Scan]
    /\ \E e \in remoteDeviceMap : e.face = found[Scan].face

\* A start that has got its thread keeps one.
RunnerInv ==
  queue.start \/ (\E t \in Callers : at[t] = "placeholder") =>
    runner.spawned > 0 \/ (runner.running /\ ~runner.finished) \/ runner.crossed

AgeInv == CountInv /\ ExpiredInv /\ AgingInv

IInv == TypeInv /\ LockInv /\ ClearedInv /\ ListInv /\ AgeInv /\ RunnerInv

(***************************************************************************)
(* Threads.                                                                *)
(***************************************************************************)
LEMMA ThreadsApart ==
  /\ Callers \subseteq Threads /\ Finders \subseteq Threads /\ Scan \in Threads
  /\ Scan \notin Callers /\ Scan \notin Finders /\ Callers \cap Finders = {}
  /\ Threads = Callers \cup Finders \cup {Scan}
  BY DiscoveryAssumption DEF Threads, Callers, Scan

Others(t) == \A u \in Threads \ {t} : at'[u] = at[u] /\ op'[u] = op[u] /\ dev'[u] = dev[u]

LEMMA Moves ==
  ASSUME ThreadTypes, NEW t \in Threads, NEW o, NEW place, NEW d \in Devices \cup {NoDevice},
         MayDo(t, o), Stationed(o, place), calls' \in 0 .. MaxCalls,
         op' = [op EXCEPT ![t] = o], at' = [at EXCEPT ![t] = place], dev' = [dev EXCEPT ![t] = d]
  PROVE  ThreadTypes' /\ Others(t) /\ at'[t] = place /\ op'[t] = o /\ dev'[t] = d
<1>1. /\ op' \in [Threads -> Asked \cup {"found", "scan"}] /\ DOMAIN at' = Threads
      /\ dev' \in [Threads -> Devices \cup {NoDevice}]
      /\ at'[t] = place /\ op'[t] = o /\ dev'[t] = d
  <2>1. o \in Asked \cup {"found", "scan"}
    BY DEF MayDo, Asked
  <2> QED
    BY <2>1 DEF ThreadTypes
<1>2. Others(t)
  BY DEF ThreadTypes, Others
<1>3. ASSUME NEW u \in Threads PROVE MayDo(u, op'[u]) /\ Stationed(op'[u], at'[u])
  BY <1>1, <1>2 DEF ThreadTypes, Others
<1> QED
  BY <1>1, <1>2, <1>3 DEF ThreadTypes

\* A step within an operation.
LEMMA Goes ==
  ASSUME ThreadTypes, NEW t \in Threads, NEW place, Stationed(op[t], place),
         Go(t, place), UNCHANGED <<op, dev, calls>>
  PROVE  ThreadTypes' /\ Others(t) /\ at'[t] = place /\ op'[t] = op[t] /\ dev'[t] = dev[t]
<1>1. /\ at' = [at EXCEPT ![t] = place] /\ calls' \in 0 .. MaxCalls
      /\ op' = op /\ dev' = dev /\ MayDo(t, op[t])
  BY DEF Go, ThreadTypes
<1>2. at'[t] = place /\ \A u \in Threads \ {t} : at'[u] = at[u]
  BY <1>1 DEF ThreadTypes
<1> QED
  BY <1>1, <1>2 DEF ThreadTypes, Others

\* Its end.
LEMMA Ends ==
  ASSUME ThreadTypes, NEW t \in Threads, Done(t), UNCHANGED calls
  PROVE  ThreadTypes' /\ Others(t) /\ at'[t] = "idle" /\ op'[t] = "none"
<1>1. MayDo(t, "none") /\ Stationed("none", "idle")
  BY ThreadsApart DEF MayDo, Stationed, Asked
<1>2. calls' \in 0 .. MaxCalls
  BY DEF ThreadTypes
<1> QED
  BY <1>1, <1>2, Moves DEF Done

\* Its beginning.
LEMMA Begins ==
  ASSUME ThreadTypes, NEW t \in Callers, NEW o \in Asked, NEW d \in Devices \cup {NoDevice},
         NEW place, Stationed(o, place), Begin(t, o, d, place)
  PROVE  ThreadTypes' /\ Others(t) /\ at'[t] = place /\ op'[t] = o /\ at[t] = "idle"
<1>1. t \in Threads /\ MayDo(t, o)
  BY ThreadsApart DEF MayDo
<1>2. calls' \in 0 .. MaxCalls
  BY DiscoveryAssumption DEF Begin, ThreadTypes
<1>3. at[t] = "idle"
  BY <1>1 DEF Begin, ThreadTypes, Stationed
<1> QED
  BY <1>1, <1>2, <1>3, Moves DEF Begin, Go

(***************************************************************************)
(* Locks.                                                                  *)
(***************************************************************************)
LEMMA HoldsWhere ==
  ASSUME NEW t
  PROVE  /\ Holds(t, "dm") = (at[t] \in {"placeholder", "ask", "sink", "tell"})
         /\ Holds(t, "cm") = (op[t] = "disconnect" /\ at[t] \in {"fresh", "halt"})
         /\ Holds(t, "read") = (op[t] = "stop" /\ at[t] \in {"fresh", "halt"})
         /\ Holds(t, "write") = (op[t] = "release" /\ at[t] # "enter")
  BY DEF Holds, Stopping

LEMMA WantsWhere ==
  ASSUME NEW t
  PROVE  /\ Wants(t, "dm") = (at[t] \in {"clear", "fresh", "check", "reset", "update", "look",
                                         "report", "list"})
         /\ Wants(t, "cm") = (at[t] \in {"placeholder", "set", "drop", "fail", "again",
                                         "resetSink", "ask", "sink"})
         /\ Wants(t, "read") = (at[t] \in {"request", "report", "tell"})
         /\ Wants(t, "write") = (at[t] = "enter")
  BY DEF Wants

Locks == {"dm", "cm", "read", "write"}

\* A mutex that a thread takes was granted to it.
LEMMA LockStep ==
  ASSUME LockInv, NEW t \in Threads, Others(t),
         \A lock \in Locks : Holds(t, lock)' => Holds(t, lock) \/ (Wants(t, lock) /\ Granted(t))
  PROVE  LockInv'
<1>1. ASSUME NEW u \in Threads \ {t}
      PROVE  \A lock \in Locks : Holds(u, lock)' = Holds(u, lock)
  BY DEF Others, Holds, Stopping, Locks
<1>2. ASSUME NEW u \in Threads \ {t}
      PROVE  Excludes(t, u)' /\ Excludes(u, t)'
  <2>1. Excludes(t, u) /\ Excludes(u, t)
    BY <1>2 DEF LockInv
  <2>2. Granted(t) => ~Bars(u, t)
    BY <1>2 DEF Granted
  <2>3. Holds(u, "write") => op[u] = "release"
    BY HoldsWhere
  <2>4. \A lock \in {"dm", "cm", "write"} : ~(Holds(t, lock)' /\ Holds(u, lock)')
    BY <1>1, <2>1, <2>2 DEF Locks, Excludes, Bars
  <2>5. ~(Holds(t, "read")' /\ Holds(u, "write")')
    BY <1>1, <2>1, <2>2, <2>3 DEF Locks, Excludes, Bars
  <2>6. ~(Holds(u, "read")' /\ Holds(t, "write")')
    BY <1>1, <2>1, <2>2 DEF Locks, Excludes, Bars
  <2> QED
    BY <2>4, <2>5, <2>6 DEF Excludes
<1>3. ASSUME NEW u \in Threads, NEW v \in Threads, u # v, u # t, v # t
      PROVE  Excludes(u, v)'
  BY <1>1, <1>3 DEF LockInv, Excludes, Locks
<1> QED
  BY <1>2, <1>3 DEF LockInv

(***************************************************************************)
(* What a step elsewhere leaves as it is.                                  *)
(***************************************************************************)
NoFinder == \A f \in Finders : at'[f] = at[f] /\ dev'[f] = dev[f] /\ found'[f] = found[f]

LEMMA FindersStay ==
  ASSUME NoFinder
  PROVE  /\ Midway' = Midway
         /\ \A f \in Finders, d \in Devices :
              /\ Finds(f, d)' = Finds(f, d) /\ Sole(f, d)' = Sole(f, d)
<1>1. \A f \in Finders : MidFind(f)' = MidFind(f) /\ dev'[f] = dev[f]
  BY DEF NoFinder, MidFind
<1>2. Midway' = Midway
  BY <1>1 DEF Midway
<1>3. \A f \in Finders : \A d \in Devices : Finds(f, d)' = Finds(f, d)
  BY <1>1 DEF Finds
<1>4. \A f \in Finders : \A d \in Devices : Sole(f, d)' = Sole(f, d)
  BY <1>3 DEF Sole
<1> QED
  BY <1>2, <1>3, <1>4

\* The entries of d, and what is known and told of it, stay as they are.
Untouched(d) ==
  /\ Listed(d)' = Listed(d)
  /\ data[d].known => data'[d].known
  /\ Told' => Told /\ (d \in online => d \in online')

LEMMA KeptElsewhere ==
  ASSUME NEW d \in Devices, Kept(d), Untouched(d), NoFinder
  PROVE  Kept(d)'
<1>1. d \notin Midway' => Settled(d)'
  BY FindersStay DEF Kept, Settled, Reported, Untouched
<1>2. ASSUME NEW f \in Finders, Sole(f, d)'
      PROVE  Pending(f, d)'
  <2>1. Sole(f, d)
    BY <1>2, FindersStay
  <2>2. at'[f] = at[f] /\ found'[f] = found[f]
    BY DEF NoFinder
  <2>3. Pending(f, d)
    BY <2>1 DEF Kept
  <2> QED
    BY <2>2, <2>3 DEF Pending, Reported, Untouched
<1> QED
  BY <1>1, <1>2 DEF Kept

\* A step of a thread that neither finds nor scans, but for StartDiscovery.
Aside(t) ==
  /\ Others(t) /\ at[t] # "placeholder" /\ at'[t] # "placeholder"
  /\ UNCHANGED <<found, expired, base, mapVars, quiet, torn>>
  /\ \A d \in Devices : data'[d].known = data[d].known
  /\ Told' => Told /\ online' = online

LEMMA AsideFinders ==
  ASSUME NEW t \in Callers, Others(t), UNCHANGED found
  PROVE  /\ NoFinder
         /\ at'[Scan] = at[Scan] /\ dev'[Scan] = dev[Scan] /\ found'[Scan] = found[Scan]
  BY ThreadsApart DEF Others, NoFinder

LEMMA AsideKeeps ==
  ASSUME TypeInv, ClearedInv, ListInv, AgeInv, NEW t \in Callers, Aside(t)
  PROVE  ClearedInv' /\ ListInv' /\ AgeInv'
<1>1. /\ NoFinder /\ remoteDeviceMap' = remoteDeviceMap /\ torn' = torn /\ quiet' = quiet
      /\ scanCount' = scanCount /\ expired' = expired
      /\ at'[Scan] = at[Scan] /\ dev'[Scan] = dev[Scan] /\ found'[Scan] = found[Scan]
  BY AsideFinders DEF Aside, mapVars
<1>2. ClearedInv'
  <2>1. ASSUME NEW u \in Callers, at'[u] = "placeholder"
        PROVE  at[u] = "placeholder"
    BY <2>1, ThreadsApart DEF Aside, Others
  <2> QED
    BY <1>1, <2>1, FindersStay DEF ClearedInv
<1>3. ASSUME NEW d \in Devices PROVE Untouched(d) /\ Listed(d)' = Listed(d)
  BY <1>1 DEF Untouched, Aside, Listed
<1>4. ListInv'
  BY <1>1, <1>3, KeptElsewhere DEF ListInv
<1>5. AgeInv'
  BY <1>1, <1>3 DEF AgeInv, CountInv, ExpiredInv, AgingInv, Due
<1> QED
  BY <1>2, <1>4, <1>5

LEMMA NotFreshKeeps ==
  ASSUME data \in [Devices -> Known], NEW S
  PROVE  /\ NotFresh(S) \in [Devices -> Known]
         /\ \A d \in Devices : NotFresh(S)[d].known = data[d].known
<1>1. ASSUME NEW d \in Devices
      PROVE  /\ [data[d] EXCEPT !.fresh = {}] \in Known
             /\ [data[d] EXCEPT !.fresh = {}].known = data[d].known
  BY DEF Known
<1> QED
  BY <1>1 DEF NotFresh

LEMMA AsideRunner ==
  ASSUME RunnerInv, NEW t \in Callers, Others(t), at'[t] # "placeholder",
         UNCHANGED <<queue, runner>>
  PROVE  RunnerInv'
<1>1. ASSUME NEW u \in Callers, at'[u] = "placeholder"
      PROVE  at[u] = "placeholder"
  BY <1>1, ThreadsApart DEF Others
<1> QED
  BY <1>1 DEF RunnerInv

LEMMA AsideIInv ==
  ASSUME IInv, NEW t \in Callers, Aside(t), ThreadTypes', LockInv', RunnerInv', FlagTypes',
         data' \in [Devices -> Known], connecting' \in Devices \cup {NoDevice},
         online' \subseteq Devices
  PROVE  IInv'
<1>1. ClearedInv' /\ ListInv' /\ AgeInv'
  BY AsideKeeps DEF IInv
<1>2. DataTypes'
  BY DEF IInv, TypeInv, DataTypes, Aside, mapVars
<1>3. FoundTypes'
  <2>1. found' = found
    BY DEF Aside
  <2>2. ASSUME NEW f \in Finders PROVE op'[f] = op[f] /\ dev'[f] = dev[f]
    BY ThreadsApart DEF Aside, Others
  <2> QED
    BY <2>1, <2>2 DEF IInv, TypeInv, FoundTypes, Reporting
<1> QED
  BY <1>1, <1>2, <1>3 DEF IInv, TypeInv

\* Most of them leave the list, the events and the runner alone.
LEMMA PlainStep ==
  ASSUME IInv, NEW t \in Callers, Others(t), ThreadTypes',
         at[t] # "placeholder", at'[t] # "placeholder",
         \A lock \in Locks : Holds(t, lock)' => Holds(t, lock) \/ (Wants(t, lock) /\ Granted(t)),
         UNCHANGED <<found, expired, base, mapVars, queue, runner, quiet, torn>>,
         hasStartDiscovery' \in BOOLEAN, discovering' \in BOOLEAN,
         data' \in [Devices -> Known], \A d \in Devices : data'[d].known = data[d].known,
         connecting' \in Devices \cup {NoDevice},
         \/ UNCHANGED <<listener, sink, served, online>>
         \/ listener' = FALSE /\ UNCHANGED <<sink, served, online>>
         \/ sink' = FALSE /\ UNCHANGED <<listener, served, online>>
         \/ served' = FALSE /\ online' = {} /\ UNCHANGED <<listener, sink>>
  PROVE  IInv'
<1>1. /\ Told' => Told /\ online' = online
      /\ online' \subseteq Devices
  BY DEF Told, IInv, TypeInv, DataTypes
<1>2. Aside(t)
  BY <1>1 DEF Aside
<1>3. t \in Threads /\ LockInv /\ RunnerInv
  BY ThreadsApart DEF IInv
<1>4. LockInv' /\ RunnerInv'
  BY <1>3, LockStep, AsideRunner
<1>5. FlagTypes'
  BY DEF IInv, TypeInv, FlagTypes
<1> QED
  BY <1>1, <1>2, <1>4, <1>5, AsideIInv


(***************************************************************************)
(* Requests, connections and the death of DeviceManager.                   *)
(***************************************************************************)
\* Where a thread is tells what it does.
LEMMA CallerAt ==
  ASSUME TypeInv, NEW t \in Callers
  PROVE  /\ t \in Threads /\ op[t] \in Asked /\ Stationed(op[t], at[t])
         /\ dev[t] \in Devices \cup {NoDevice} /\ ThreadTypes
  BY ThreadsApart DEF TypeInv, ThreadTypes, MayDo

LEMMA FreshPlain ==
  ASSUME IInv, NEW S
  PROVE  /\ NotFresh(S) \in [Devices -> Known]
         /\ \A d \in Devices : NotFresh(S)[d].known = data[d].known
  BY NotFreshKeeps DEF IInv, TypeInv, DataTypes

LEMMA PlainTypes ==
  ASSUME IInv
  PROVE  /\ hasStartDiscovery \in BOOLEAN /\ discovering \in BOOLEAN
         /\ data \in [Devices -> Known] /\ connecting \in Devices \cup {NoDevice}
  BY DEF IInv, TypeInv, FlagTypes, DataTypes

LEMMA BeginStep ==
  ASSUME IInv, NEW t \in Callers, NEW o \in Asked, NEW d \in Devices \cup {NoDevice},
         NEW place \in {"clear", "request", "set", "drop", "enter"},
         Stationed(o, place), Begin(t, o, d, place)
  PROVE  IInv'
<1>1. ThreadTypes' /\ Others(t) /\ at'[t] = place /\ op'[t] = o /\ at[t] = "idle"
  BY Begins DEF IInv, TypeInv
<1>5. o = "release" => place = "enter"
  BY DEF Stationed
<1>2. ASSUME NEW lock \in Locks PROVE ~Holds(t, lock)'
  BY <1>1, <1>5 DEF Holds, Stopping, Locks
<1>3. UNCHANGED <<found, expired, base, mapVars, eventVars, otherVars, history>>
  BY DEF Begin
<1>4. /\ UNCHANGED <<found, expired, base, mapVars, queue, runner, quiet, torn>>
      /\ UNCHANGED <<hasStartDiscovery, discovering, data, connecting>>
      /\ UNCHANGED <<listener, sink, served, online>>
  BY <1>3 DEF eventVars, otherVars, history
<1> QED
  BY <1>1, <1>2, <1>4, PlainTypes, PlainStep

LEMMA CallsKeep ==
  ASSUME IInv, NEW t \in Callers,
         \/ StartDiscovery(t)
         \/ StopDiscovery(t)
         \/ Release(t)
         \/ DisconnectDevice(t)
         \/ \E d \in Devices : ConnectDevice(t, d)
  PROVE  IInv'
<1>1. CASE StartDiscovery(t)
  <2>1. "start" \in Asked /\ Stationed("start", "clear")
    BY DEF Asked, Stationed
  <2> QED
    BY <1>1, <2>1, BeginStep DEF StartDiscovery
<1>2. CASE StopDiscovery(t)
  <2>1. "stop" \in Asked /\ Stationed("stop", "request")
    BY DEF Asked, Stationed
  <2> QED
    BY <1>2, <2>1, BeginStep DEF StopDiscovery
<1>3. CASE Release(t)
  <2>1. "release" \in Asked /\ Stationed("release", "enter")
    BY DEF Asked, Stationed
  <2> QED
    BY <1>3, <2>1, BeginStep DEF Release
<1>4. CASE DisconnectDevice(t)
  <2>1. "disconnect" \in Asked /\ Stationed("disconnect", "drop")
    BY DEF Asked, Stationed
  <2> QED
    BY <1>4, <2>1, BeginStep DEF DisconnectDevice
<1>5. CASE \E d \in Devices : ConnectDevice(t, d)
  <2>1. "connect" \in Asked /\ Stationed("connect", "set")
    BY DEF Asked, Stationed
  <2> QED
    BY <1>5, <2>1, BeginStep DEF ConnectDevice
<1> QED
  BY <1>1, <1>2, <1>3, <1>4, <1>5

\* StopDiscovery marks the devices, and with them the events, as done with.
LEMMA StopKeeps ==
  ASSUME IInv, NEW t \in Callers,
         \/ LockShared(t)
         \/ SetConnectingDeviceId(t)
         \/ DropConnecting(t)
         \/ SetDeviceNotFresh(t)
  PROVE  IInv'
<1>0. /\ t \in Threads /\ op[t] \in Asked /\ Stationed(op[t], at[t]) /\ ThreadTypes
      /\ dev[t] \in Devices \cup {NoDevice}
  BY CallerAt DEF IInv
<1>1. CASE LockShared(t)
  <2>1. at[t] = "request" /\ op[t] = "stop" /\ Granted(t)
    BY <1>0, <1>1 DEF LockShared, Is, Stationed
  <2>2. ThreadTypes' /\ Others(t) /\ at'[t] = "fresh" /\ op'[t] = "stop"
    <3>1. Stationed(op[t], "fresh") /\ Go(t, "fresh") /\ UNCHANGED <<op, dev, calls>>
      BY <1>1, <2>1 DEF LockShared, MarkStopped, Stationed
    <3> QED
      BY <1>0, <2>1, <3>1, Goes
  <2>3. ASSUME NEW lock \in Locks, Holds(t, lock)' PROVE Wants(t, lock)
    BY <2>1, <2>2, <2>3 DEF Holds, Stopping, Locks, Wants
  <2> QED
    BY <1>1, <2>1, <2>2, <2>3, PlainTypes, PlainStep
    DEF LockShared, MarkStopped, mapVars, otherVars, history
<1>2. CASE SetConnectingDeviceId(t)
  <2>1. at[t] = "set" /\ op[t] = "connect" /\ Granted(t)
    BY <1>0, <1>2 DEF SetConnectingDeviceId, Is, Stationed
  <2>2. ThreadTypes' /\ Others(t) /\ at'[t] = "fresh" /\ op'[t] = "connect"
    <3>1. Stationed(op[t], "fresh") /\ Go(t, "fresh") /\ UNCHANGED <<op, dev, calls>>
      BY <1>2, <2>1 DEF SetConnectingDeviceId, MarkStopped, Stationed
    <3> QED
      BY <1>0, <2>1, <3>1, Goes
  <2>3. ASSUME NEW lock \in Locks PROVE ~Holds(t, lock)'
    BY <2>2 DEF Holds, Stopping, Locks
  <2> QED
    BY <1>0, <1>2, <2>1, <2>2, <2>3, PlainTypes, PlainStep
    DEF SetConnectingDeviceId, MarkStopped, mapVars, otherVars, history
<1>3. CASE DropConnecting(t)
  <2>1. at[t] = "drop" /\ op[t] = "disconnect" /\ Granted(t)
    BY <1>0, <1>3 DEF DropConnecting, Is, Stationed
  <2>2. ThreadTypes' /\ Others(t) /\ at'[t] = "fresh" /\ op'[t] = "disconnect"
    <3>1. Stationed(op[t], "fresh") /\ Go(t, "fresh") /\ UNCHANGED <<op, dev, calls>>
      BY <1>3, <2>1 DEF DropConnecting, MarkStopped, Stationed
    <3> QED
      BY <1>0, <2>1, <3>1, Goes
  <2>3. ASSUME NEW lock \in Locks, Holds(t, lock)' PROVE Wants(t, lock)
    BY <2>1, <2>2, <2>3 DEF Holds, Stopping, Locks, Wants
  <2> QED
    BY <1>3, <2>1, <2>2, <2>3, PlainTypes, PlainStep
    DEF DropConnecting, MarkStopped, mapVars, otherVars, history
<1>4. CASE SetDeviceNotFresh(t)
  <2>1. at[t] = "fresh"
    BY <1>4 DEF SetDeviceNotFresh, Is
  <2>2. ThreadTypes' /\ Others(t) /\ at'[t] = "halt" /\ op'[t] = op[t]
    <3>1. Stationed(op[t], "halt") /\ Go(t, "halt") /\ UNCHANGED <<op, dev, calls>>
      BY <1>0, <1>4, <2>1 DEF SetDeviceNotFresh, Stationed
    <3> QED
      BY <1>0, <3>1, Goes
  <2>3. ASSUME NEW lock \in Locks, Holds(t, lock)' PROVE Holds(t, lock)
    BY <2>1, <2>2, <2>3 DEF Holds, Stopping, Locks
  <2> QED
    BY <1>4, <2>1, <2>2, <2>3, PlainTypes, FreshPlain, PlainStep
    DEF SetDeviceNotFresh, mapVars, eventVars, history
<1> QED
  BY <1>1, <1>2, <1>3, <1>4

LEMMA ReleaseKeeps ==
  ASSUME IInv, NEW t \in Callers,
         \/ ClearConnectingDeviceId(t)
         \/ ReleaseLocked(t)
         \/ ResetListener(t)
         \/ DeinitConnections(t)
         \/ Deinit(t)
         \/ OnRemoteDied(t)
  PROVE  IInv'
<1>0. /\ t \in Threads /\ op[t] \in Asked /\ Stationed(op[t], at[t]) /\ ThreadTypes
      /\ dev[t] \in Devices \cup {NoDevice}
  BY CallerAt DEF IInv
<1>9. ASSUME Done(t), UNCHANGED calls
      PROVE  /\ ThreadTypes' /\ Others(t) /\ at'[t] = "idle"
             /\ \A lock \in Locks : ~Holds(t, lock)'
  <2>1. ThreadTypes' /\ Others(t) /\ at'[t] = "idle" /\ op'[t] = "none"
    BY <1>0, <1>9, Ends
  <2> QED
    BY <2>1 DEF Holds, Stopping, Locks
<1>1. CASE ClearConnectingDeviceId(t)
  <2>1. at[t] # "placeholder" /\ Done(t) /\ UNCHANGED calls
    BY <1>1 DEF ClearConnectingDeviceId, Is
  <2> QED
    BY <1>1, <1>9, <2>1, PlainTypes, PlainStep
    DEF ClearConnectingDeviceId, mapVars, eventVars, history
<1>2. CASE ReleaseLocked(t)
  <2>1. at[t] = "enter" /\ op[t] = "release" /\ Granted(t)
    BY <1>0, <1>2 DEF ReleaseLocked, Is, Stationed
  <2>2. CASE Done(t)
    BY <1>2, <1>9, <2>1, <2>2, PlainTypes, PlainStep
    DEF ReleaseLocked, mapVars, eventVars
  <2>3. CASE Go(t, "check") /\ UNCHANGED <<op, dev>>
    <3>1. ThreadTypes' /\ Others(t) /\ at'[t] = "check" /\ op'[t] = "release"
      <4>1. Stationed(op[t], "check") /\ UNCHANGED calls
        BY <1>2, <2>1 DEF ReleaseLocked, Stationed
      <4> QED
        BY <1>0, <2>1, <2>3, <4>1, Goes
    <3>2. ASSUME NEW lock \in Locks, Holds(t, lock)' PROVE Wants(t, lock)
      BY <2>1, <3>1, <3>2 DEF Holds, Stopping, Locks, Wants
    <3> QED
      BY <1>2, <2>1, <3>1, <3>2, PlainTypes, PlainStep
      DEF ReleaseLocked, mapVars, eventVars
  <2> QED
    BY <1>2, <2>2, <2>3 DEF ReleaseLocked
<1>3. CASE ResetListener(t)
  <2>1. at[t] = "reset"
    BY <1>3 DEF ResetListener, Is
  <2>2. CASE Done(t)
    BY <1>3, <1>9, <2>1, <2>2, PlainTypes, PlainStep
    DEF ResetListener, mapVars, eventVars, history
  <2>3. CASE op[t] = "release" /\ Go(t, "resetSink") /\ UNCHANGED <<op, dev>>
    <3>1. ThreadTypes' /\ Others(t) /\ at'[t] = "resetSink" /\ op'[t] = "release"
      <4>1. Stationed(op[t], "resetSink") /\ UNCHANGED calls
        BY <1>3, <2>3 DEF ResetListener, Stationed
      <4> QED
        BY <1>0, <2>3, <4>1, Goes
    <3>2. ASSUME NEW lock \in Locks, Holds(t, lock)' PROVE Holds(t, lock)
      BY <2>1, <2>3, <3>1, <3>2 DEF Holds, Stopping, Locks
    <3> QED
      BY <1>3, <2>1, <3>1, <3>2, PlainTypes, PlainStep
      DEF ResetListener, mapVars, eventVars, history
  <2> QED
    BY <1>3, <2>2, <2>3 DEF ResetListener
<1>4. CASE DeinitConnections(t)
  <2>1. at[t] # "placeholder" /\ Done(t) /\ UNCHANGED calls
    BY <1>4 DEF DeinitConnections, Is
  <2> QED
    BY <1>4, <1>9, <2>1, PlainTypes, PlainStep
    DEF DeinitConnections, mapVars, eventVars, history
<1>5. CASE Deinit(t)
  <2>1. at[t] = "check"
    BY <1>5 DEF Deinit, Is
  <2>2. CASE Done(t) /\ UNCHANGED hasStartDiscovery
    BY <1>5, <1>9, <2>1, <2>2, PlainTypes, PlainStep
    DEF Deinit, mapVars, otherVars, history
  <2>3. ASSUME NEW place \in {"fresh", "resetSink"}, Go(t, place), UNCHANGED <<op, dev>>,
               place = "resetSink" => op[t] = "release", hasStartDiscovery' \in BOOLEAN
        PROVE  IInv'
    <3>1. ThreadTypes' /\ Others(t) /\ at'[t] = place /\ op'[t] = op[t]
      <4>1. Stationed(op[t], place) /\ UNCHANGED calls
        BY <1>0, <1>5, <2>1, <2>3 DEF Deinit, Stationed
      <4> QED
        BY <1>0, <2>3, <4>1, Goes
    <3>2. op[t] \in {"release", "died"}
      BY <1>0, <2>1 DEF Stationed
    <3>3. ASSUME NEW lock \in Locks, Holds(t, lock)' PROVE Holds(t, lock)
      BY <2>1, <3>1, <3>2, <3>3 DEF Holds, Stopping, Locks
    <3> QED
      BY <1>5, <2>1, <2>3, <3>1, <3>3, PlainTypes, PlainStep
      DEF Deinit, mapVars, otherVars, history
  <2> QED
    BY <1>5, <2>2, <2>3, PlainTypes DEF Deinit, MarkStopped
<1>6. CASE OnRemoteDied(t)
  <2>1. at[t] = "idle" /\ op[t] = "none" /\ calls' \in 0 .. MaxCalls
    BY <1>0, <1>6, DiscoveryAssumption DEF OnRemoteDied, Stationed, ThreadTypes
  <2>2. /\ ThreadTypes' /\ Others(t) /\ at'[t] \in {"idle", "check"}
        /\ op'[t] \in {"none", "died"}
    <3>1. CASE UNCHANGED <<op, at>>
      BY <1>0, <1>6, <2>1, <3>1 DEF OnRemoteDied, ThreadTypes, Others
    <3>2. CASE op' = [op EXCEPT ![t] = "died"] /\ Go(t, "check")
      <4>1. MayDo(t, "died") /\ Stationed("died", "check")
        BY DEF MayDo, Asked, Stationed
      <4>2. dev' = [dev EXCEPT ![t] = dev[t]]
        BY <1>0, <1>6 DEF OnRemoteDied, ThreadTypes
      <4> QED
        BY <1>0, <2>1, <3>2, <4>1, <4>2, Moves DEF Go
    <3> QED
      BY <1>6, <3>1, <3>2 DEF OnRemoteDied
  <2>3. ASSUME NEW lock \in Locks PROVE ~Holds(t, lock)'
    BY <2>2 DEF Holds, Stopping, Locks
  <2> QED
    BY <1>6, <2>1, <2>2, <2>3, PlainTypes, PlainStep
    DEF OnRemoteDied, mapVars, otherVars, history
<1> QED
  BY <1>1, <1>2, <1>3, <1>4, <1>5, <1>6

\* The runner is told to leave; a start under way has crossed with this.
LEMMA HaltKeeps ==
  ASSUME IInv, NEW t \in Callers, StopDmDiscovery(t)
  PROVE  IInv'
<1>0. /\ t \in Threads /\ op[t] \in Asked /\ Stationed(op[t], at[t]) /\ ThreadTypes
      /\ dev[t] \in Devices \cup {NoDevice}
  BY CallerAt DEF IInv
<1>1. /\ at[t] = "halt"
      /\ queue' = [queue EXCEPT !.start = FALSE, !.continue = 0]
      /\ runner' = [runner EXCEPT !.finished = @ \/ runner.running,
                      !.crossed = @ \/ \E u \in Callers : at[u] = "placeholder"]
      /\ discovering' = FALSE
      /\ UNCHANGED <<calls, found, expired, base, mapVars, hasStartDiscovery, otherVars, history>>
  BY DEF StopDmDiscovery
<1> DEFINE Gone == /\ ThreadTypes' /\ Others(t) /\ at'[t] # "placeholder"
                   /\ \A lock \in Locks : Holds(t, lock)' => Holds(t, lock)
<1>2. Gone
  <2>1. CASE Done(t)
    <3>1. ThreadTypes' /\ Others(t) /\ at'[t] = "idle" /\ op'[t] = "none"
      BY <1>0, <1>1, <2>1, Ends
    <3> QED
      BY <3>1 DEF Holds, Stopping, Locks
  <2>2. ASSUME NEW place \in {"fail", "again", "reset"}, Go(t, place), UNCHANGED <<op, dev>>,
               Stationed(op[t], place)
        PROVE  Gone
    <3>1. ThreadTypes' /\ Others(t) /\ at'[t] = place /\ op'[t] = op[t]
      BY <1>0, <1>1, <2>2, Goes
    <3> QED
      BY <1>1, <2>2, <3>1 DEF Holds, Stopping, Locks
  <2>3. CASE op[t] = "connect" /\ Go(t, "fail") /\ UNCHANGED <<op, dev>>
    BY <2>2, <2>3 DEF Stationed
  <2>4. CASE op[t] = "disconnect" /\ Go(t, "again") /\ UNCHANGED <<op, dev>>
    BY <2>2, <2>4 DEF Stationed
  <2>5. CASE op[t] \in {"release", "died"} /\ Go(t, "reset") /\ UNCHANGED <<op, dev>>
    BY <2>2, <2>5 DEF Stationed
  <2> QED
    BY <2>1, <2>3, <2>4, <2>5 DEF StopDmDiscovery
<1>3. LockInv'
  BY <1>0, <1>2, LockStep DEF IInv
<1>4. FlagTypes' /\ ~queue'.start /\ runner'.spawned = runner.spawned
      /\ runner'.crossed = (runner.crossed \/ \E u \in Callers : at[u] = "placeholder")
  BY <1>1 DEF IInv, TypeInv, FlagTypes, otherVars
<1>5. RunnerInv'
  <2>1. ASSUME NEW u \in Callers, at'[u] = "placeholder"
        PROVE  at[u] = "placeholder"
    BY <1>2, <2>1, ThreadsApart DEF Others
  <2> QED
    BY <1>4, <2>1 DEF RunnerInv
<1>6. Aside(t)
  BY <1>1, <1>2 DEF Aside, otherVars, history, Told
<1>7. /\ data' \in [Devices -> Known] /\ connecting' \in Devices \cup {NoDevice}
      /\ online' \subseteq Devices
  BY <1>1 DEF otherVars, history, IInv, TypeInv, DataTypes
<1> QED
  BY <1>2, <1>3, <1>4, <1>5, <1>6, <1>7, AsideIInv

(***************************************************************************)
(* The runner and its events.                                              *)
(***************************************************************************)
LEMMA StutterKeeps ==
  ASSUME IInv,
         UNCHANGED <<op, at, dev, calls, found, expired, base, remoteDeviceMap, scanCount,
                     data, connecting, listener, sink, served, online, quiet, torn>>
  PROVE  /\ ThreadTypes' /\ FoundTypes' /\ DataTypes' /\ LockInv'
         /\ ClearedInv' /\ ListInv' /\ AgeInv'
<1>1. NoFinder
  BY DEF NoFinder
<1>2. ThreadTypes' /\ FoundTypes' /\ DataTypes'
  BY DEF IInv, TypeInv, ThreadTypes, FoundTypes, Reporting, DataTypes
<1>3. LockInv'
  BY DEF IInv, LockInv, Excludes, Holds, Stopping
<1>4. \A d \in Devices : Untouched(d) /\ Listed(d)' = Listed(d)
  BY DEF Untouched, Listed, Told
<1>5. ListInv'
  BY <1>1, <1>4, KeptElsewhere DEF IInv, ListInv
<1>6. AgeInv'
  BY <1>4 DEF IInv, AgeInv, CountInv, ExpiredInv, AgingInv, Due
<1>7. ClearedInv'
  BY <1>1, FindersStay DEF IInv, ClearedInv
<1> QED
  BY <1>2, <1>3, <1>5, <1>6, <1>7

LEMMA RunnerKeeps ==
  ASSUME IInv,
         Run \/ Leave \/ \E event \in {"start", "continue"} : SkipEvent(event)
  PROVE  IInv'
<1>1. UNCHANGED <<op, at, dev, calls, found, expired, base, remoteDeviceMap, scanCount,
                  data, connecting, listener, sink, served, online, quiet, torn>>
  BY DEF Run, Leave, SkipEvent, threadVars, mapVars, otherVars, history
<1>2. FlagTypes' /\ RunnerInv'
  <2>0. FlagTypes /\ RunnerInv
    BY DEF IInv, TypeInv
  <2>1. CASE Run
    <3>1. /\ runner \in [spawned : Nat, running : BOOLEAN, finished : BOOLEAN, crossed : BOOLEAN]
          /\ runner.spawned > 0 /\ UNCHANGED <<queue, discovering, hasStartDiscovery>>
      BY <2>0, <2>1 DEF Run, FlagTypes
    <3>2. CASE runner.running
      <4>1. runner' = [runner EXCEPT !.spawned = @ - 1, !.crossed = @ \/ runner.finished]
        BY <2>1, <3>2 DEF Run
      <4>2. (runner.crossed \/ runner.finished) \in BOOLEAN /\ runner.spawned - 1 \in Nat
        BY <3>1
      <4>3. runner' \in [spawned : Nat, running : BOOLEAN, finished : BOOLEAN, crossed : BOOLEAN]
        BY <3>1, <4>1, <4>2
      <4>4. /\ runner'.running = runner.running /\ runner'.finished = runner.finished
            /\ runner'.crossed = (runner.crossed \/ runner.finished)
        BY <3>1, <4>1
      <4> QED
        BY <1>1, <2>0, <3>1, <3>2, <4>3, <4>4 DEF FlagTypes, RunnerInv
    <3>3. CASE ~runner.running
      <4>1. runner' = [runner EXCEPT !.spawned = @ - 1, !.running = TRUE, !.finished = FALSE]
        BY <2>1, <3>3 DEF Run
      <4>2. runner.spawned - 1 \in Nat
        BY <3>1
      <4>3. runner' \in [spawned : Nat, running : BOOLEAN, finished : BOOLEAN, crossed : BOOLEAN]
        BY <3>1, <4>1, <4>2
      <4>4. runner'.running = TRUE /\ runner'.finished = FALSE
        BY <3>1, <4>1
      <4> QED
        BY <1>1, <2>0, <3>1, <4>3, <4>4 DEF FlagTypes, RunnerInv
    <3> QED
      BY <3>2, <3>3
  <2>2. CASE Leave
    BY <1>1, <2>0, <2>2 DEF Leave, FlagTypes, RunnerInv
  <2>3. ASSUME NEW event \in {"start", "continue"}, SkipEvent(event)
        PROVE  FlagTypes' /\ RunnerInv'
    <3>1. queue' \in [start : BOOLEAN, continue : Nat, count : Nat] /\ (queue'.start => queue.start)
      <4>1. queue \in [start : BOOLEAN, continue : Nat, count : Nat]
        BY <2>0 DEF FlagTypes
      <4>2. CASE event = "start"
        <5>1. queue' = [queue EXCEPT !.start = FALSE]
          BY <2>3, <4>2 DEF SkipEvent, Dequeued
        <5> QED
          BY <4>1, <5>1
      <4>3. CASE event = "continue"
        <5>1. queue.continue > 0 /\ queue' = [queue EXCEPT !.continue = @ - 1]
          BY <2>3, <4>3 DEF SkipEvent, Dequeued, Queued
        <5>2. queue.continue - 1 \in Nat
          BY <4>1, <5>1
        <5> QED
          BY <4>1, <5>1, <5>2
      <4> QED
        BY <2>3, <4>2, <4>3
    <3> QED
      BY <1>1, <2>0, <2>3, <3>1 DEF SkipEvent, FlagTypes, RunnerInv
  <2> QED
    BY <2>1, <2>2, <2>3
<1> QED
  BY <1>1, <1>2, StutterKeeps DEF IInv, TypeInv

(***************************************************************************)
(* StartDiscovery.                                                         *)
(***************************************************************************)
LEMMA MidwayIsFound ==
  ASSUME TypeInv, NEW f \in Finders, MidFind(f)
  PROVE  Reporting(f) /\ dev[f] \in Devices /\ op[f] = "found"
<1>1. Stationed(op[f], at[f])
  BY ThreadsApart DEF TypeInv, ThreadTypes
<1>2. op[f] = "found"
  BY <1>1 DEF MidFind, Stationed
<1> QED
  BY <1>2 DEF TypeInv, FoundTypes, Reporting

LEMMA MidwayDevices ==
  ASSUME TypeInv
  PROVE  Midway \subseteq Devices
  BY MidwayIsFound DEF Midway

LEMMA SoleIsMidway ==
  ASSUME NEW f \in Finders, NEW d, Finds(f, d)
  PROVE  d \in Midway
  BY DEF Finds, Midway

\* Whoever holds DiscoveryManager's mutex keeps the others from it.
LEMMA OneHolds ==
  ASSUME LockInv, NEW t \in Threads, Holds(t, "dm") \/ (Wants(t, "dm") /\ Granted(t)),
         NEW u \in Threads \ {t}
  PROVE  ~Holds(u, "dm")
<1>1. CASE Holds(t, "dm")
  BY <1>1 DEF LockInv, Excludes
<1>2. CASE Wants(t, "dm") /\ Granted(t)
  BY <1>2 DEF Granted, Bars
<1> QED
  BY <1>1, <1>2

LEMMA ClearKeeps ==
  ASSUME IInv, NEW t \in Callers, ClearDevices(t)
  PROVE  IInv'
<1>0. /\ t \in Threads /\ op[t] \in Asked /\ Stationed(op[t], at[t]) /\ ThreadTypes
      /\ LockInv /\ TypeInv
  BY CallerAt DEF IInv
<1>1. /\ at[t] = "clear" /\ Granted(t) /\ Go(t, "placeholder")
      /\ runner' = [runner EXCEPT !.spawned = @ + 1]
      /\ scanCount' = 0 /\ remoteDeviceMap' = {} /\ torn' = Midway
      /\ data' = NotFresh(ListedDevices)
      /\ UNCHANGED <<op, dev, calls, found, expired, base, hasStartDiscovery,
                     queue, discovering, listener, sink, connecting, served, online, quiet>>
  BY DEF ClearDevices, Is
<1>2. op[t] = "start" /\ Wants(t, "dm")
  BY <1>0, <1>1 DEF Stationed, Wants
<1>3. ThreadTypes' /\ Others(t) /\ at'[t] = "placeholder" /\ op'[t] = "start"
  <2>1. Stationed(op[t], "placeholder")
    BY <1>2 DEF Stationed
  <2> QED
    BY <1>0, <1>1, <1>2, <2>1, Goes
<1>4. LockInv'
  <2>1. ASSUME NEW lock \in Locks, Holds(t, lock)' PROVE Wants(t, lock)
    BY <1>2, <1>3, <2>1 DEF Holds, Stopping, Locks
  <2> QED
    BY <1>0, <1>1, <1>3, <2>1, LockStep
<1>5. NoFinder /\ at'[Scan] = at[Scan]
  BY <1>1, <1>3, AsideFinders
<1>6. at[Scan] \notin {"placeholder", "ask", "sink", "tell"}
  <2>1. ~Holds(Scan, "dm")
    BY <1>0, <1>1, <1>2, OneHolds, ThreadsApart
  <2> QED
    BY <2>1 DEF Holds
<1>7. Midway' = Midway /\ Midway \subseteq Devices
  BY <1>0, <1>5, FindersStay, MidwayDevices
<1>8. \A d \in Devices : Listed(d)' = {}
  BY <1>1 DEF Listed
<1>9. ListInv'
  <2>1. ASSUME NEW d \in Devices, d \notin torn' PROVE Kept(d)'
    <3>1. d \notin Midway
      BY <1>1, <2>1
    <3>2. \A f \in Finders : ~Sole(f, d)'
      BY <1>5, <3>1, FindersStay, SoleIsMidway DEF Sole
    <3> QED
      BY <1>8, <3>2 DEF Kept, Settled
  <2> QED
    BY <2>1 DEF ListInv
<1>10. AgeInv' /\ ClearedInv'
  BY <1>1, <1>5, <1>6, <1>7, <1>8 DEF AgeInv, CountInv, ExpiredInv, AgingInv, ClearedInv
<1>11. runner' \in [spawned : Nat, running : BOOLEAN, finished : BOOLEAN, crossed : BOOLEAN]
       /\ runner'.spawned > 0
  <2>1. runner \in [spawned : Nat, running : BOOLEAN, finished : BOOLEAN, crossed : BOOLEAN]
    BY <1>0 DEF TypeInv, FlagTypes
  <2>2. runner.spawned + 1 \in Nat /\ runner.spawned + 1 > 0
    BY <2>1
  <2> QED
    BY <1>1, <2>1, <2>2
<1>12. FlagTypes' /\ RunnerInv'
  BY <1>0, <1>1, <1>11 DEF TypeInv, FlagTypes, RunnerInv
<1>13. DataTypes'
  <2>1. data' \in [Devices -> Known]
    BY <1>1, FreshPlain
  <2>2. DataTypes
    BY <1>0 DEF TypeInv
  <2> QED
    BY <1>1, <1>7, <2>1, <2>2 DEF DataTypes
<1>14. FoundTypes'
  <2>1. ASSUME NEW f \in Finders PROVE op'[f] = op[f] /\ dev'[f] = dev[f]
    BY <1>1
  <2> QED
    BY <1>0, <1>1, <2>1 DEF TypeInv, FoundTypes, Reporting
<1> QED
  BY <1>3, <1>4, <1>9, <1>10, <1>12, <1>13, <1>14 DEF IInv, TypeInv

LEMMA PlaceholderEntry ==
  ASSUME TypeInv, NEW d \in Devices \cup {NoDevice}
  PROVE  /\ Placeholder(d) \subseteq Entries
         /\ \A e, o \in Placeholder(d) : e = o
         /\ \A e \in Placeholder(d) : e.face.blank /\ e.count = scanCount + 1
<1>1. CASE d # NoDevice /\ data[d].known
  <2> DEFINE face == [dev |-> d, fresh |-> data[d].fresh, addr |-> data[d].addr, blank |-> TRUE]
  <2>1. data[d] \in Known /\ d \in Devices /\ scanCount + 1 \in Nat
    BY <1>1 DEF TypeInv, DataTypes
  <2>2. face \in Faces /\ face.blank
    BY <2>1 DEF Known, Faces
  <2>3. Placeholder(d) = {[face |-> face, count |-> scanCount + 1]}
    BY <1>1 DEF Placeholder, Entry
  <2> QED
    BY <2>1, <2>2, <2>3 DEF Entries
<1>2. CASE ~(d # NoDevice /\ data[d].known)
  BY <1>2 DEF Placeholder
<1> QED
  BY <1>1, <1>2

LEMMA KeepKeeps ==
  ASSUME IInv, NEW t \in Callers, KeepConnecting(t)
  PROVE  IInv'
<1>0. /\ t \in Threads /\ op[t] \in Asked /\ Stationed(op[t], at[t]) /\ ThreadTypes
      /\ LockInv /\ TypeInv
  BY CallerAt DEF IInv
<1>1. /\ at[t] = "placeholder" /\ Done(t)
      /\ remoteDeviceMap' = remoteDeviceMap \cup Placeholder(connecting)
      /\ hasStartDiscovery' = TRUE
      /\ queue' = [queue EXCEPT !.start = TRUE]
      /\ UNCHANGED <<calls, found, expired, base, scanCount, runner, discovering,
                     listener, sink, connecting, data, served, online, quiet, torn>>
  BY DEF KeepConnecting, Is, otherVars, history
<1>2. ThreadTypes' /\ Others(t) /\ at'[t] = "idle" /\ op'[t] = "none"
  BY <1>0, <1>1, Ends
<1>3. LockInv'
  <2>1. ASSUME NEW lock \in Locks PROVE ~Holds(t, lock)'
    BY <1>2 DEF Holds, Stopping, Locks
  <2> QED
    BY <1>0, <1>2, <2>1, LockStep
<1>4. /\ NoFinder
      /\ at'[Scan] = at[Scan] /\ at[Scan] \notin {"ask", "sink", "tell"}
  <2>1. ~Holds(Scan, "dm")
    BY <1>0, <1>1, OneHolds, ThreadsApart DEF Holds
  <2> QED
    BY <1>1, <1>2, <2>1, AsideFinders DEF Holds
<1>5. ASSUME NEW u \in Callers PROVE at'[u] # "placeholder"
  <2>1. CASE u = t
    BY <1>2, <2>1
  <2>2. CASE u # t
    <3>1. ~Holds(u, "dm")
      BY <1>0, <1>1, <2>2, OneHolds, ThreadsApart DEF Holds
    <3> QED
      BY <1>2, <2>2, <3>1, ThreadsApart DEF Holds, Others
  <2> QED
    BY <2>1, <2>2
<1>6. remoteDeviceMap = {} /\ Midway \subseteq torn /\ Midway' = Midway
  BY <1>1, <1>4, FindersStay DEF IInv, ClearedInv
<1>7. /\ remoteDeviceMap' = Placeholder(connecting) /\ Placeholder(connecting) \subseteq Entries
      /\ \A e, o \in remoteDeviceMap' : e = o
      /\ \A e \in remoteDeviceMap' : e.face.blank /\ e.count = scanCount + 1
  <2>1. connecting \in Devices \cup {NoDevice}
    BY <1>0 DEF TypeInv, DataTypes
  <2> QED
    BY <1>0, <1>1, <1>6, <2>1, PlaceholderEntry
<1>8. \A d \in Devices : Listed(d)' \subseteq remoteDeviceMap'
  BY DEF Listed
<1>9. ListInv'
  <2>1. ASSUME NEW d \in Devices, d \notin torn' PROVE Kept(d)'
    <3>1. d \notin Midway
      BY <1>1, <1>6, <2>1
    <3>2. \A f \in Finders : ~Sole(f, d)'
      BY <1>4, <3>1, FindersStay, SoleIsMidway DEF Sole
    <3>3. Settled(d)'
      BY <1>7, <1>8 DEF Settled
    <3> QED
      BY <3>2, <3>3 DEF Kept
  <2> QED
    BY <2>1 DEF ListInv
<1>10. CountInv'
  <2>1. ASSUME NEW d \in Devices, NEW e \in Listed(d)'
        PROVE  scanCount' <= e.count + quiet'[d]
    <3>1. e.count = scanCount + 1 /\ scanCount' = scanCount /\ quiet' = quiet
      BY <1>1, <1>7, <1>8, <2>1
    <3>2. scanCount \in Nat /\ quiet[d] \in 0 .. 2
      BY <1>0 DEF TypeInv, DataTypes
    <3> QED
      BY <3>1, <3>2
  <2> QED
    BY <2>1 DEF CountInv
<1>11. AgeInv' /\ ClearedInv'
  BY <1>4, <1>5, <1>10 DEF AgeInv, ExpiredInv, AgingInv, ClearedInv
<1>12. FlagTypes' /\ RunnerInv'
  BY <1>0, <1>1 DEF IInv, TypeInv, FlagTypes, RunnerInv
<1>13. DataTypes'
  BY <1>0, <1>1, <1>7 DEF TypeInv, DataTypes
<1>14. FoundTypes'
  <2>1. ASSUME NEW f \in Finders PROVE op'[f] = op[f] /\ dev'[f] = dev[f]
    BY <1>2, ThreadsApart DEF Others
  <2> QED
    BY <1>0, <1>1, <2>1 DEF TypeInv, FoundTypes, Reporting
<1> QED
  BY <1>2, <1>3, <1>9, <1>11, <1>12, <1>13, <1>14 DEF IInv, TypeInv


(***************************************************************************)
(* The scan.                                                               *)
(***************************************************************************)
LEMMA ScanFacts ==
  ASSUME IInv
  PROVE  /\ Scan \in Threads /\ ThreadTypes /\ LockInv /\ TypeInv
         /\ Stationed(op[Scan], at[Scan]) /\ MayDo(Scan, op[Scan])
         /\ dev[Scan] \in Devices \cup {NoDevice}
  BY ThreadsApart DEF IInv, TypeInv, ThreadTypes

LEMMA ScanFinders ==
  ASSUME Others(Scan), \A f \in Finders : found'[f] = found[f]
  PROVE  /\ NoFinder /\ \A t \in Callers : at'[t] = at[t]
         /\ \A f \in Finders : op'[f] = op[f] /\ dev'[f] = dev[f]
  BY ThreadsApart DEF Others, NoFinder

\* While the scan has DiscoveryManager's mutex, nobody is about to enter the placeholder.
LEMMA ScanKeeps ==
  ASSUME IInv, Others(Scan), ThreadTypes', DOMAIN found' = DOMAIN found,
         \A f \in Finders : found'[f] = found[f],
         remoteDeviceMap' \subseteq remoteDeviceMap, torn \subseteq torn',
         torn' \subseteq Devices,
         \A lock \in Locks :
           Holds(Scan, lock)' => Holds(Scan, lock) \/ (Wants(Scan, lock) /\ Granted(Scan))
  PROVE  LockInv' /\ ClearedInv' /\ FoundTypes'
<1>1. LockInv'
  BY ScanFacts, LockStep
<1>2. /\ NoFinder /\ \A t \in Callers : at'[t] = at[t]
      /\ \A f \in Finders : op'[f] = op[f] /\ dev'[f] = dev[f]
  BY ScanFinders
<1>3. ClearedInv'
  BY <1>2, FindersStay DEF IInv, ClearedInv
<1>4. FoundTypes'
  BY <1>2 DEF IInv, TypeInv, FoundTypes, Reporting
<1> QED
  BY <1>1, <1>3, <1>4

\* The flags that a scan leaves.
LEMMA ScanFlags ==
  ASSUME IInv, Others(Scan), hasStartDiscovery' \in BOOLEAN, discovering' \in BOOLEAN,
         UNCHANGED <<listener, sink, served, runner>>,
         queue' \in [start : BOOLEAN, continue : Nat, count : Nat],
         queue'.start => queue.start
  PROVE  FlagTypes' /\ RunnerInv'
<1>1. \A t \in Callers : at'[t] = at[t]
  BY ThreadsApart DEF Others
<1> QED
  BY <1>1 DEF IInv, TypeInv, FlagTypes, RunnerInv

LEMMA ProcessKeeps ==
  ASSUME IInv, NEW event \in {"start", "continue"}, ProcessEvent(event)
  PROVE  IInv'
<1>0. /\ Scan \in Threads /\ ThreadTypes /\ LockInv /\ TypeInv
      /\ Stationed(op[Scan], at[Scan]) /\ dev[Scan] \in Devices \cup {NoDevice}
  BY ScanFacts
<1>1. /\ at[Scan] = "idle" /\ Queued(event)
      /\ op' = [op EXCEPT ![Scan] = "scan"] /\ at' = [at EXCEPT ![Scan] = "update"]
      /\ discovering' = FALSE
      /\ UNCHANGED <<dev, calls, found, expired, base, mapVars, hasStartDiscovery, runner,
                     otherVars, history>>
  BY DEF ProcessEvent, Go
<1>2. ThreadTypes' /\ Others(Scan) /\ at'[Scan] = "update" /\ op'[Scan] = "scan"
  <2>1. MayDo(Scan, "scan") /\ Stationed("scan", "update")
    BY DEF MayDo, Stationed
  <2>2. dev' = [dev EXCEPT ![Scan] = dev[Scan]] /\ calls' \in 0 .. MaxCalls
    BY <1>0, <1>1 DEF ThreadTypes
  <2> QED
    BY <1>0, <1>1, <2>1, <2>2, Moves
<1>3. UNCHANGED <<remoteDeviceMap, scanCount, expired, base, data, connecting, listener, sink,
                  served, online, quiet, torn>>
  BY <1>1 DEF mapVars, otherVars, history
<1>4. torn \subseteq Devices
  BY <1>0 DEF TypeInv, DataTypes
<1>5. LockInv' /\ ClearedInv' /\ FoundTypes'
  <2>1. ASSUME NEW lock \in Locks PROVE ~Holds(Scan, lock)'
    BY <1>2 DEF Holds, Stopping, Locks
  <2> QED
    BY <1>1, <1>2, <1>3, <1>4, <2>1, ScanKeeps
<1>6. queue' \in [start : BOOLEAN, continue : Nat, count : Nat] /\ (queue'.start => queue.start)
  <2> DEFINE n == IF event = "start" THEN 1 ELSE queue.count + 1
  <2>1. queue \in [start : BOOLEAN, continue : Nat, count : Nat] /\ n \in Nat
    BY <1>0 DEF TypeInv, FlagTypes
  <2>2. Dequeued(event) \in [start : BOOLEAN, continue : Nat, count : Nat]
        /\ (Dequeued(event).start => queue.start)
    <3>1. CASE event = "start"
      <4>1. Dequeued(event) = [queue EXCEPT !.start = FALSE]
        BY <3>1 DEF Dequeued
      <4> QED
        BY <2>1, <4>1
    <3>2. CASE event = "continue"
      <4>1. queue.continue > 0 /\ Dequeued(event) = [queue EXCEPT !.continue = @ - 1]
        BY <1>1, <3>2 DEF Dequeued, Queued
      <4>2. queue.continue - 1 \in Nat
        BY <2>1, <4>1
      <4> QED
        BY <2>1, <4>1, <4>2
    <3> QED
      BY <3>1, <3>2
  <2>3. PICK k \in Nat : queue' = [Dequeued(event) EXCEPT !.count = n, !.continue = k]
    <3>1. Dequeued(event).continue \in Nat /\ Dequeued(event).continue + 1 \in Nat
      BY <2>2
    <3> QED
      BY <3>1 DEF ProcessEvent
  <2> HIDE DEF n
  <2> QED
    BY <2>1, <2>2, <2>3
<1>7. FlagTypes' /\ RunnerInv'
  <2>1. hasStartDiscovery' \in BOOLEAN /\ discovering' \in BOOLEAN
    BY <1>1, PlainTypes
  <2> QED
    BY <1>1, <1>2, <1>3, <1>6, <2>1, ScanFlags
<1>8. DataTypes'
  BY <1>0, <1>3 DEF TypeInv, DataTypes
<1>9. ASSUME NEW d \in Devices PROVE Untouched(d) /\ Listed(d)' = Listed(d)
  BY <1>3 DEF Untouched, Listed, Told
<1>10. ListInv'
  BY <1>1, <1>2, <1>3, <1>9, ScanFinders, KeptElsewhere DEF IInv, ListInv
<1>11. AgeInv'
  BY <1>2, <1>3, <1>9 DEF IInv, AgeInv, CountInv, ExpiredInv, AgingInv
<1> QED
  BY <1>2, <1>5, <1>7, <1>8, <1>10, <1>11 DEF IInv, TypeInv

LEMMA AgedMoves ==
  ASSUME IInv, at[Scan] \in {"update", "ask", "sink", "tell"}, NEW rest, AgedBut(rest),
         NEW d \in Devices \cup {NoDevice}, dev' = [dev EXCEPT ![Scan] = d],
         UNCHANGED <<op, calls, scanCount>>
  PROVE  /\ ThreadTypes' /\ Others(Scan) /\ op'[Scan] = "scan"
         /\ at'[Scan] \in {"count", "ask"} /\ expired' = rest /\ base' \in Nat
<1>0. /\ Scan \in Threads /\ ThreadTypes /\ TypeInv
      /\ Stationed(op[Scan], at[Scan]) /\ MayDo(Scan, op[Scan])
  BY ScanFacts
<1>1. op[Scan] = "scan"
  BY <1>0 DEF Stationed
<1>2. PICK place \in {"count", "ask"} : at' = [at EXCEPT ![Scan] = place]
  BY DEF AgedBut, Go
<1>3. Stationed("scan", place) /\ MayDo(Scan, "scan")
  BY DEF Stationed, MayDo
<1>4. op' = [op EXCEPT ![Scan] = "scan"] /\ calls' \in 0 .. MaxCalls
  BY <1>0, <1>1 DEF ThreadTypes
<1>5. expired' = rest /\ base' \in Nat
  BY <1>0 DEF AgedBut, TypeInv, DataTypes
<1> QED
  BY <1>0, <1>2, <1>3, <1>4, <1>5, Moves

LEMMA RefreshedKeeps ==
  ASSUME TypeInv, NEW d \in Devices
  PROVE  Refreshed(d) \in Known /\ Refreshed(d).known = data[d].known
<1>1. data[d] \in Known
  BY DEF TypeInv, DataTypes
<1> DEFINE reported == {k \in Kinds : <<d, k>> \in reportTypeMap}
           less == [data[d] EXCEPT !.fresh = @ \cap reported, !.addr = @ \cap reported]
<1>2. less \in Known /\ less.known = data[d].known
  <2> HIDE DEF reported
  <2> QED
    BY <1>1 DEF Known
<1>3. Refreshed(d) = less \/ Refreshed(d) = data[d]
  BY DEF Refreshed
<1> HIDE DEF less
<1> QED
  BY <1>1, <1>2, <1>3

LEMMA UpdateKeeps ==
  ASSUME IInv, UpdateDeviceState
  PROVE  IInv'
<1>0. /\ Scan \in Threads /\ ThreadTypes /\ LockInv /\ TypeInv /\ DataTypes
      /\ dev[Scan] \in Devices \cup {NoDevice}
  BY ScanFacts DEF TypeInv
<1> DEFINE missed == {e \in remoteDeviceMap : Missed(e)}
<1>1. /\ at[Scan] = "update" /\ Granted(Scan) /\ AgedBut(missed)
      /\ data' = [d \in Devices |-> Refreshed(d)]
      /\ UNCHANGED <<op, dev, calls, found, remoteDeviceMap, scanCount, eventVars, listener, sink,
                     connecting, served, online, quiet, torn>>
  BY DEF UpdateDeviceState, Is, history
<1>2. missed \subseteq remoteDeviceMap /\ \A e \in missed : Missed(e)
  OBVIOUS
<1> HIDE DEF missed
<1>3. /\ ThreadTypes' /\ Others(Scan) /\ op'[Scan] = "scan"
      /\ at'[Scan] \in {"count", "ask"} /\ expired' = missed /\ base' \in Nat
  <2>1. dev' = [dev EXCEPT ![Scan] = dev[Scan]]
    BY <1>0, <1>1 DEF ThreadTypes
  <2> QED
    BY <1>0, <1>1, <2>1, AgedMoves
<1>4. LockInv' /\ ClearedInv' /\ FoundTypes'
  <2>1. ASSUME NEW lock \in Locks, Holds(Scan, lock)' PROVE Wants(Scan, lock)
    BY <1>1, <1>3, <2>1 DEF Holds, Wants, Stopping, Locks
  <2>2. torn \subseteq Devices
    BY <1>0 DEF DataTypes
  <2> QED
    BY <1>1, <1>3, <2>1, <2>2, ScanKeeps
<1>5. FlagTypes' /\ RunnerInv'
  BY <1>0, <1>1, <1>3, ScanFlags DEF eventVars, TypeInv, FlagTypes
<1>6. data' \in [Devices -> Known] /\ \A d \in Devices : data'[d].known = data[d].known
  BY <1>0, <1>1, RefreshedKeeps
<1>7. DataTypes'
  BY <1>0, <1>1, <1>2, <1>3, <1>6 DEF DataTypes
<1>8. ASSUME NEW d \in Devices PROVE Untouched(d) /\ Listed(d)' = Listed(d)
  BY <1>1, <1>6 DEF Untouched, Listed, Told
<1>9. ListInv'
  BY <1>1, <1>3, <1>8, ScanFinders, KeptElsewhere DEF IInv, ListInv
<1>10. ASSUME NEW e \in missed PROVE Due(e.face.dev)'
  <2>1. /\ e \in remoteDeviceMap /\ e.count \in Nat /\ e.face.dev \in Devices
        /\ e.count + 1 < scanCount /\ scanCount \in Nat
    BY <1>0, <1>2 DEF DataTypes, Entries, Faces, Missed
  <2>2. quiet[e.face.dev] \in 0 .. 2 /\ e \in Listed(e.face.dev)
    BY <1>0, <2>1 DEF DataTypes, Listed
  <2>3. e.face.dev \in torn \/ quiet[e.face.dev] = 2 \/ scanCount <= e.count + quiet[e.face.dev]
    BY <2>1, <2>2 DEF IInv, AgeInv, CountInv
  <2>4. e.face.dev \in torn \/ quiet[e.face.dev] = 2
    BY <2>1, <2>2, <2>3
  <2> QED
    BY <1>1, <2>4 DEF Due
<1>11. AgeInv'
  <2>1. CountInv'
    BY <1>1, <1>8 DEF IInv, AgeInv, CountInv
  <2>2. ExpiredInv'
    BY <1>1, <1>2, <1>3, <1>10 DEF ExpiredInv
  <2>3. AgingInv'
    BY <1>3 DEF AgingInv
  <2> QED
    BY <2>1, <2>2, <2>3 DEF AgeInv
<1> QED
  BY <1>3, <1>4, <1>5, <1>7, <1>9, <1>11 DEF IInv, TypeInv

LEMMA AskKeeps ==
  ASSUME IInv, NEW e \in remoteDeviceMap, GetConnectingDeviceId(e)
  PROVE  IInv'
<1>0. /\ Scan \in Threads /\ ThreadTypes /\ LockInv /\ TypeInv /\ DataTypes
      /\ Stationed(op[Scan], at[Scan]) /\ dev[Scan] \in Devices \cup {NoDevice}
  BY ScanFacts DEF TypeInv
<1>1. /\ at[Scan] = "ask" /\ e \in expired /\ op[Scan] = "scan"
      /\ UNCHANGED <<op, calls, remoteDeviceMap, scanCount, eventVars, otherVars, history>>
  BY <1>0 DEF GetConnectingDeviceId, Is, Stationed
<1>2. UNCHANGED <<op, calls, remoteDeviceMap, scanCount, data, connecting, listener, sink,
                  served, online, quiet, torn, queue, runner, hasStartDiscovery, discovering>>
  BY <1>1 DEF eventVars, otherVars, history
<1>3. /\ e \in Entries /\ e.face.dev \in Devices
      /\ expired \subseteq remoteDeviceMap /\ \A o \in expired : Due(o.face.dev)
  BY <1>0, <1>1 DEF DataTypes, Entries, Faces, IInv, AgeInv, ExpiredInv
<1>4. /\ ThreadTypes' /\ Others(Scan) /\ op'[Scan] = "scan"
      /\ at'[Scan] \in {"count", "ask", "sink"} /\ expired' \subseteq expired /\ base' \in Nat
      /\ DOMAIN found' = DOMAIN found /\ \A f \in Finders : found'[f] = found[f]
      /\ at'[Scan] = "sink" => dev'[Scan] = e.face.dev /\ found'[Scan].face = e.face
  <2>1. CASE AgedBut(expired \ {e}) /\ UNCHANGED <<dev, found>>
    <3>1. dev' = [dev EXCEPT ![Scan] = dev[Scan]]
      BY <1>0, <2>1 DEF ThreadTypes
    <3>2. UNCHANGED <<op, calls, scanCount>> /\ AgedBut(expired \ {e})
      BY <1>2, <2>1
    <3>3. /\ ThreadTypes' /\ Others(Scan) /\ op'[Scan] = "scan"
          /\ at'[Scan] \in {"count", "ask"} /\ expired' = expired \ {e} /\ base' \in Nat
      BY <1>0, <1>1, <3>1, <3>2, AgedMoves
    <3> QED
      BY <2>1, <3>3
  <2>2. CASE /\ Go(Scan, "sink")
             /\ dev' = [dev EXCEPT ![Scan] = e.face.dev]
             /\ found' = [found EXCEPT ![Scan] = Report(e.face, {})]
             /\ UNCHANGED <<expired, base, reportTypeMap>>
    <3>1. MayDo(Scan, "scan") /\ Stationed("scan", "sink")
      BY DEF MayDo, Stationed
    <3>2. op' = [op EXCEPT ![Scan] = "scan"] /\ calls' \in 0 .. MaxCalls
      BY <1>0, <1>1 DEF ThreadTypes
    <3>3. /\ ThreadTypes' /\ Others(Scan) /\ at'[Scan] = "sink" /\ op'[Scan] = "scan"
          /\ dev'[Scan] = e.face.dev
      <4>1. PICK d \in Devices \cup {NoDevice} : d = e.face.dev
        BY <1>3
      <4>2. at' = [at EXCEPT ![Scan] = "sink"] /\ dev' = [dev EXCEPT ![Scan] = d]
        BY <2>2, <4>1 DEF Go
      <4>3. /\ ThreadTypes' /\ Others(Scan)
            /\ at'[Scan] = "sink" /\ op'[Scan] = "scan" /\ dev'[Scan] = d
        BY <1>0, <3>1, <3>2, <4>2, Moves
      <4> QED
        BY <4>1, <4>3
    <3>4. /\ DOMAIN found' = DOMAIN found /\ \A f \in Finders : found'[f] = found[f]
          /\ found'[Scan].face = e.face
      BY <1>0, <2>2, ThreadsApart DEF Report, TypeInv, FoundTypes
    <3>5. expired' = expired /\ base' \in Nat
      BY <1>0, <2>2 DEF DataTypes
    <3> QED
      BY <3>3, <3>4, <3>5
  <2> QED
    BY <2>1, <2>2 DEF GetConnectingDeviceId
<1>5. LockInv' /\ ClearedInv' /\ FoundTypes'
  <2>1. ASSUME NEW lock \in Locks, Holds(Scan, lock)' PROVE Holds(Scan, lock)
    BY <1>1, <1>4, <2>1 DEF Holds, Stopping, Locks
  <2>2. torn \subseteq Devices
    BY <1>0 DEF DataTypes
  <2> QED
    BY <1>2, <1>4, <2>1, <2>2, ScanKeeps
<1>6. FlagTypes' /\ RunnerInv'
  BY <1>0, <1>2, <1>4, ScanFlags DEF TypeInv, FlagTypes
<1>7. DataTypes'
  BY <1>0, <1>2, <1>4 DEF DataTypes
<1>8. ASSUME NEW d \in Devices PROVE Untouched(d) /\ Listed(d)' = Listed(d)
  BY <1>2 DEF Untouched, Listed, Told
<1>9. ListInv'
  BY <1>2, <1>4, <1>8, ScanFinders, KeptElsewhere DEF IInv, ListInv
<1>10. AgeInv'
  <2>1. CountInv'
    BY <1>2, <1>8 DEF IInv, AgeInv, CountInv
  <2>2. \A d : Due(d)' = Due(d)
    BY <1>2 DEF Due
  <2>3. ExpiredInv'
    BY <1>2, <1>3, <1>4, <2>2 DEF ExpiredInv
  <2>4. AgingInv'
    BY <1>1, <1>2, <1>3, <1>4, <2>2 DEF AgingInv
  <2> QED
    BY <2>1, <2>3, <2>4 DEF AgeInv
<1> QED
  BY <1>4, <1>5, <1>6, <1>7, <1>9, <1>10 DEF IInv, TypeInv

LEMMA NotifyKeeps ==
  ASSUME IInv, NotifyDeviceIsOffline
  PROVE  IInv'
<1>0. /\ Scan \in Threads /\ ThreadTypes /\ LockInv /\ TypeInv /\ DataTypes
      /\ Stationed(op[Scan], at[Scan])
  BY ScanFacts DEF TypeInv
<1>1. /\ at[Scan] = "sink" /\ op[Scan] = "scan" /\ Go(Scan, "tell")
      /\ UNCHANGED <<op, dev, calls, found, expired, base, mapVars, eventVars, otherVars, history>>
  BY <1>0 DEF NotifyDeviceIsOffline, Is, Stationed
<1>2. UNCHANGED <<op, dev, calls, found, expired, base, remoteDeviceMap, scanCount, data,
                  connecting, listener, sink, served, online, quiet, torn, queue, runner,
                  hasStartDiscovery, discovering>>
  BY <1>1 DEF mapVars, eventVars, otherVars, history
<1>3. ThreadTypes' /\ Others(Scan) /\ at'[Scan] = "tell" /\ op'[Scan] = "scan"
  <2>1. Stationed(op[Scan], "tell")
    BY <1>1 DEF Stationed
  <2> QED
    BY <1>0, <1>1, <2>1, Goes
<1>4. LockInv' /\ ClearedInv' /\ FoundTypes'
  <2>1. ASSUME NEW lock \in Locks, Holds(Scan, lock)' PROVE Holds(Scan, lock)
    BY <1>1, <1>3, <2>1 DEF Holds, Stopping, Locks
  <2>2. torn \subseteq Devices
    BY <1>0 DEF DataTypes
  <2> QED
    BY <1>2, <1>3, <2>1, <2>2, ScanKeeps
<1>5. FlagTypes' /\ RunnerInv'
  BY <1>0, <1>2, <1>3, ScanFlags DEF TypeInv, FlagTypes
<1>6. DataTypes'
  BY <1>0, <1>2 DEF DataTypes
<1>7. ASSUME NEW d \in Devices PROVE Untouched(d) /\ Listed(d)' = Listed(d)
  BY <1>2 DEF Untouched, Listed, Told
<1>8. ListInv'
  BY <1>2, <1>3, <1>7, ScanFinders, KeptElsewhere DEF IInv, ListInv
<1>9. AgeInv'
  BY <1>1, <1>2, <1>3, <1>7 DEF IInv, AgeInv, CountInv, ExpiredInv, AgingInv, Due
<1> QED
  BY <1>3, <1>4, <1>5, <1>6, <1>8, <1>9 DEF IInv, TypeInv

LEMMA RemoveKeeps ==
  ASSUME IInv, ReportDeviceOffline \/ RemoveUnreported
  PROVE  IInv'
<1>0. /\ Scan \in Threads /\ ThreadTypes /\ LockInv /\ TypeInv /\ DataTypes
      /\ Stationed(op[Scan], at[Scan])
  BY ScanFacts DEF TypeInv
<1> DEFINE d == dev[Scan]
<1>1. /\ at[Scan] \in {"sink", "tell"} /\ RemoveDevice(d)
      /\ online' \subseteq online /\ \A c \in Devices \ {d} : c \in online => c \in online'
  BY DEF ReportDeviceOffline, RemoveUnreported, Is
<1>2. /\ op[Scan] = "scan" /\ d \in Devices /\ found[Scan].face.dev = d
      /\ expired \subseteq remoteDeviceMap /\ \A e \in expired : Due(e.face.dev)
  BY <1>0, <1>1 DEF Stationed, IInv, AgeInv, AgingInv, ExpiredInv
<1>3. PICK aged \in remoteDeviceMap : aged.face = found[Scan].face
  BY <1>1 DEF IInv, AgeInv, AgingInv
<1>4. /\ data' = [data EXCEPT ![d] = Unknown]
      /\ remoteDeviceMap' = remoteDeviceMap \ AgedEntry
      /\ AgedBut(expired \ AgedEntry)
      /\ dev' = [dev EXCEPT ![Scan] = NoDevice]
      /\ found' = [found EXCEPT ![Scan] = Nothing]
      /\ torn' = torn \cup ({d} \cap Midway)
      /\ UNCHANGED <<op, calls, scanCount, eventVars, listener, sink, connecting, served, quiet>>
  BY <1>1 DEF RemoveDevice
<1>5. /\ ThreadTypes' /\ Others(Scan) /\ op'[Scan] = "scan"
      /\ at'[Scan] \in {"count", "ask"} /\ expired' = expired \ AgedEntry /\ base' \in Nat
  BY <1>1, <1>4, AgedMoves
<1>6. /\ DOMAIN found' = DOMAIN found /\ \A f \in Finders : found'[f] = found[f]
      /\ torn \subseteq torn' /\ torn' \subseteq Devices
      /\ remoteDeviceMap' \subseteq remoteDeviceMap
  <2>1. DOMAIN found' = DOMAIN found /\ \A f \in Finders : found'[f] = found[f]
    BY <1>0, <1>4, ThreadsApart DEF TypeInv, FoundTypes
  <2> QED
    BY <1>0, <1>2, <1>4, <2>1 DEF DataTypes
<1>7. LockInv' /\ ClearedInv' /\ FoundTypes'
  <2>1. ASSUME NEW lock \in Locks, Holds(Scan, lock)' PROVE Holds(Scan, lock)
    BY <1>1, <1>5, <2>1 DEF Holds, Stopping, Locks
  <2> QED
    BY <1>5, <1>6, <2>1, ScanKeeps
<1>8. FlagTypes' /\ RunnerInv'
  BY <1>0, <1>4, <1>5, ScanFlags DEF eventVars, TypeInv, FlagTypes
<1>9. DataTypes'
  <2>1. Unknown \in Known
    BY DEF Unknown, Known
  <2>2. data' \in [Devices -> Known]
    BY <1>0, <1>4, <2>1 DEF DataTypes
  <2> QED
    BY <1>0, <1>1, <1>4, <1>5, <1>6, <2>2 DEF DataTypes
<1>10. ASSUME NEW c \in Devices PROVE Listed(c)' \subseteq Listed(c)
  BY <1>6 DEF Listed
<1>11. ASSUME NEW c \in Devices, c # d PROVE Untouched(c)
  <2>1. \A e \in AgedEntry : e.face.dev = d
    BY <1>2 DEF AgedEntry
  <2>2. Listed(c)' = Listed(c)
    BY <1>4, <1>11, <2>1 DEF Listed
  <2> QED
    BY <1>0, <1>1, <1>4, <1>11, <2>2 DEF Untouched, Told, DataTypes
<1>12. NoFinder
  BY <1>5, <1>6, ScanFinders
<1>13. ListInv'
  <2>1. ASSUME NEW c \in Devices, c \notin torn' PROVE Kept(c)'
    <3>1. Kept(c)
      BY <1>6, <2>1 DEF IInv, ListInv
    <3>2. CASE c # d
      BY <1>11, <1>12, <3>1, <3>2, KeptElsewhere
    <3>3. CASE c = d
      <4>1. c \notin Midway
        BY <1>4, <2>1, <3>3
      <4>2. \A f \in Finders : ~Sole(f, c)'
        BY <1>12, <4>1, FindersStay, SoleIsMidway DEF Sole
      <4>3. aged \in Listed(c) /\ aged \in AgedEntry
        BY <1>2, <1>3, <3>3 DEF Listed, AgedEntry
      <4>4. \A e \in Listed(c) : e = aged
        BY <3>1, <4>1, <4>3 DEF Kept, Settled
      <4>5. aged \notin Listed(c)'
        BY <1>4, <4>3 DEF Listed
      <4>6. Listed(c)' = {}
        BY <1>10, <4>4, <4>5
      <4> QED
        BY <4>2, <4>6 DEF Kept, Settled
    <3> QED
      BY <3>2, <3>3
  <2> QED
    BY <2>1 DEF ListInv
<1>14. AgeInv'
  <2>1. CountInv'
    BY <1>4, <1>6, <1>10 DEF IInv, AgeInv, CountInv
  <2>2. \A c : Due(c) => Due(c)'
    BY <1>4, <1>6 DEF Due
  <2>3. ExpiredInv'
    BY <1>2, <1>4, <1>5, <2>2 DEF ExpiredInv
  <2>4. AgingInv'
    BY <1>5 DEF AgingInv
  <2> QED
    BY <2>1, <2>3, <2>4 DEF AgeInv
<1> QED
  BY <1>5, <1>7, <1>8, <1>9, <1>13, <1>14 DEF IInv, TypeInv

LEMMA CountKeeps ==
  ASSUME IInv, StartDmDiscovery
  PROVE  IInv'
<1>0. /\ Scan \in Threads /\ ThreadTypes /\ LockInv /\ TypeInv /\ DataTypes
  BY ScanFacts DEF TypeInv
<1>1. PICK n \in {base, scanCount} :
        /\ scanCount' = n + 1
        /\ torn' = IF n = scanCount THEN torn ELSE torn \cup ListedDevices
  BY DEF StartDmDiscovery
<1>2. /\ at[Scan] = "count" /\ discovering' = TRUE /\ base' = 0 /\ Done(Scan)
      /\ quiet' = [d \in Devices |-> IF quiet[d] < 2 THEN quiet[d] + 1 ELSE 2]
      /\ UNCHANGED <<calls, found, expired, remoteDeviceMap, reportTypeMap, hasStartDiscovery,
                     queue, runner, otherVars, online>>
  BY DEF StartDmDiscovery
<1>3. ThreadTypes' /\ Others(Scan) /\ at'[Scan] = "idle" /\ op'[Scan] = "none"
  BY <1>0, <1>2, Ends
<1>4. torn \subseteq torn' /\ torn' \subseteq Devices
  BY <1>0, <1>1 DEF DataTypes, ListedDevices, Entries, Faces
<1>5. LockInv' /\ ClearedInv' /\ FoundTypes'
  <2>1. ASSUME NEW lock \in Locks PROVE ~Holds(Scan, lock)'
    BY <1>3 DEF Holds, Stopping, Locks
  <2> QED
    BY <1>2, <1>3, <1>4, <2>1, ScanKeeps
<1>6. FlagTypes' /\ RunnerInv'
  BY <1>0, <1>2, <1>3, ScanFlags DEF otherVars, TypeInv, FlagTypes
<1>7. DataTypes'
  <2>1. scanCount' \in Nat
    BY <1>0, <1>1 DEF DataTypes
  <2>2. quiet' \in [Devices -> 0 .. 2]
    BY <1>0, <1>2 DEF DataTypes
  <2> QED
    BY <1>0, <1>2, <1>4, <2>1, <2>2 DEF DataTypes, otherVars
<1>8. ASSUME NEW d \in Devices PROVE Untouched(d) /\ Listed(d)' = Listed(d)
  BY <1>2 DEF Untouched, Listed, Told, otherVars
<1>9. ListInv'
  BY <1>2, <1>3, <1>4, <1>8, ScanFinders, KeptElsewhere DEF IInv, ListInv
<1>10. CountInv'
  <2>1. ASSUME NEW d \in Devices, d \notin torn', NEW e \in Listed(d)
        PROVE  quiet'[d] = 2 \/ scanCount' <= e.count + quiet'[d]
    <3>1. e \in remoteDeviceMap /\ e.face.dev = d /\ e.count \in Nat
      BY <1>0, <2>1 DEF Listed, DataTypes, Entries
    <3>2. n = scanCount
      BY <1>1, <2>1, <3>1 DEF ListedDevices
    <3>3. quiet[d] = 2 \/ scanCount <= e.count + quiet[d]
      BY <1>4, <2>1 DEF IInv, AgeInv, CountInv
    <3>4. /\ scanCount' = scanCount + 1 /\ scanCount \in Nat /\ quiet[d] \in 0 .. 2
          /\ quiet'[d] = IF quiet[d] < 2 THEN quiet[d] + 1 ELSE 2
      BY <1>0, <1>1, <1>2, <3>2 DEF DataTypes
    <3> QED
      BY <3>1, <3>3, <3>4
  <2> QED
    BY <1>8, <2>1 DEF CountInv
<1>11. AgeInv'
  BY <1>3, <1>10 DEF AgeInv, ExpiredInv, AgingInv
<1> QED
  BY <1>3, <1>5, <1>6, <1>7, <1>9, <1>11 DEF IInv, TypeInv


(***************************************************************************)
(* Devices found.                                                          *)
(***************************************************************************)
\* A finder at place has a device to report, and no mutex in hand.
LEMMA FinderFacts ==
  ASSUME IInv, NEW f \in Finders, at[f] \in {"look", "add", "report", "list"}
  PROVE  /\ f \in Threads /\ ThreadTypes /\ LockInv /\ TypeInv /\ DataTypes
         /\ op[f] = "found" /\ Reporting(f) /\ dev[f] \in Devices
<1>1. f \in Threads /\ ThreadTypes /\ LockInv /\ TypeInv /\ DataTypes /\ Stationed(op[f], at[f])
  BY ThreadsApart DEF IInv, TypeInv, ThreadTypes
<1>2. op[f] = "found"
  BY <1>1 DEF Stationed
<1> QED
  BY <1>1, <1>2 DEF TypeInv, FoundTypes, Reporting

LEMMA FinderKeeps ==
  ASSUME IInv, NEW f \in Finders, Others(f), op'[f] \in {"none", "found"},
         at'[f] \in {"idle", "look", "add", "report", "list"},
         op'[f] = "found" => Reporting(f)',
         DOMAIN found' = DOMAIN found, \A g \in (Finders \cup {Scan}) \ {f} : found'[g] = found[g],
         UNCHANGED <<eventVars, listener, sink, served>>
  PROVE  /\ LockInv' /\ FoundTypes' /\ FlagTypes' /\ RunnerInv'
         /\ \A t \in Callers : at'[t] = at[t]
         /\ at'[Scan] = at[Scan] /\ dev'[Scan] = dev[Scan] /\ found'[Scan] = found[Scan]
         /\ \A g \in Finders \ {f} : at'[g] = at[g] /\ dev'[g] = dev[g] /\ found'[g] = found[g]
<1>1. /\ \A t \in Callers : at'[t] = at[t]
      /\ at'[Scan] = at[Scan] /\ dev'[Scan] = dev[Scan] /\ found'[Scan] = found[Scan]
      /\ \A g \in Finders \ {f} : /\ at'[g] = at[g] /\ dev'[g] = dev[g]
                                  /\ found'[g] = found[g] /\ op'[g] = op[g]
  BY ThreadsApart DEF Others
<1>2. LockInv'
  <2>1. ASSUME NEW lock \in Locks PROVE ~Holds(f, lock)'
    BY DEF Holds, Stopping, Locks
  <2> QED
    BY <2>1, LockStep, ThreadsApart DEF IInv
<1>3. FoundTypes'
  <2>1. ASSUME NEW g \in Finders, op'[g] = "found" PROVE Reporting(g)'
    <3>1. CASE g = f
      BY <2>1, <3>1
    <3>2. CASE g # f
      BY <1>1, <2>1, <3>2 DEF IInv, TypeInv, FoundTypes, Reporting
    <3> QED
      BY <3>1, <3>2
  <2> QED
    BY <2>1 DEF IInv, TypeInv, FoundTypes
<1>4. FlagTypes' /\ RunnerInv'
  BY <1>1 DEF IInv, TypeInv, FlagTypes, RunnerInv, eventVars
<1> QED
  BY <1>1, <1>2, <1>3, <1>4

\* A device that a finder's step is not about stays kept.
LEMMA KeptApart ==
  ASSUME NEW d \in Devices, Kept(d), Untouched(d),
         \A g \in Finders : /\ Finds(g, d)' = Finds(g, d)
                            /\ Finds(g, d) => at'[g] = at[g] /\ found'[g] = found[g]
  PROVE  Kept(d)'
<1>1. d \in Midway => d \in Midway'
  BY DEF Midway, Finds
<1>2. d \notin Midway' => Settled(d)'
  BY <1>1 DEF Kept, Settled, Reported, Untouched
<1>3. ASSUME NEW f \in Finders, Sole(f, d)'
      PROVE  Pending(f, d)'
  <2>1. Sole(f, d) /\ at'[f] = at[f] /\ found'[f] = found[f]
    BY <1>3 DEF Sole
  <2>2. Pending(f, d)
    BY <2>1 DEF Kept
  <2> QED
    BY <2>1, <2>2 DEF Pending, Reported, Untouched
<1> QED
  BY <1>2, <1>3 DEF Kept

\* If f finds d in the end, d is kept when f's own account of it is.
LEMMA KeptByFinder ==
  ASSUME NEW d \in Devices, NEW f \in Finders, Finds(f, d)',
         Sole(f, d)' => Pending(f, d)'
  PROVE  Kept(d)'
<1>1. d \in Midway'
  BY DEF Midway, Finds
<1>2. ASSUME NEW g \in Finders, Sole(g, d)' PROVE g = f
  BY <1>2 DEF Sole
<1> QED
  BY <1>1, <1>2 DEF Kept

\* Nobody is busy with a device that f alone is about to enter from now on.
LEMMA SoleWasSettled ==
  ASSUME NEW d \in Devices, Kept(d), NEW f \in Finders, Sole(f, d)', ~MidFind(f),
         \A g \in Finders \ {f} : at'[g] = at[g] /\ dev'[g] = dev[g]
  PROVE  Settled(d)
<1>1. \A g \in Finders \ {f} : Finds(g, d)' = Finds(g, d)
  BY DEF Finds, MidFind
<1>2. \A g \in Finders : ~Finds(g, d)
  BY <1>1 DEF Sole, Finds
<1>3. d \notin Midway
  BY <1>2 DEF Midway, Finds
<1> QED
  BY <1>3 DEF Kept

LEMMA GrantedList ==
  ASSUME IInv, NEW f \in Finders, at[f] \in {"look", "report", "list"}, Granted(f)
  PROVE  /\ at[Scan] \notin {"ask", "sink", "tell"}
         /\ \A t \in Callers : at[t] # "placeholder"
<1>1. f \in Threads /\ LockInv /\ Wants(f, "dm")
  BY ThreadsApart DEF IInv, Wants
<1>2. \A u \in Threads \ {f} : ~Holds(u, "dm")
  BY <1>1, OneHolds
<1> QED
  BY <1>2, ThreadsApart DEF Holds

LEMMA FoundKeeps ==
  ASSUME IInv, NEW f \in Finders, NEW d \in Devices, NEW k \in Kinds, OnDeviceInfoFound(f, d, k)
  PROVE  IInv'
<1>0. f \in Threads /\ ThreadTypes /\ TypeInv /\ DataTypes
  BY ThreadsApart DEF IInv, TypeInv
<1>1. /\ at[f] = "idle"
      /\ op' = [op EXCEPT ![f] = "found"] /\ at' = [at EXCEPT ![f] = "look"]
      /\ dev' = [dev EXCEPT ![f] = d]
      /\ found' = [found EXCEPT ![f] = Report(RemoteDevice(d, k), {k})]
      /\ UNCHANGED <<calls, expired, base, mapVars, eventVars, otherVars, history>>
  BY DEF OnDeviceInfoFound, Go
<1>2. ThreadTypes' /\ Others(f) /\ at'[f] = "look" /\ op'[f] = "found" /\ dev'[f] = d
  <2>1. MayDo(f, "found") /\ Stationed("found", "look") /\ calls' \in 0 .. MaxCalls
    BY <1>0, <1>1 DEF MayDo, Stationed, ThreadTypes
  <2> QED
    BY <1>0, <1>1, <2>1, Moves
<1>3. /\ DOMAIN found' = DOMAIN found /\ found'[f].face = RemoteDevice(d, k)
      /\ \A g \in (Finders \cup {Scan}) \ {f} : found'[g] = found[g]
  BY <1>0, <1>1 DEF TypeInv, FoundTypes, Report
<1>4. Reporting(f)'
  <2>1. data[d] \in Known
    BY <1>0 DEF DataTypes
  <2>2. /\ RemoteDevice(d, k) \in Faces /\ RemoteDevice(d, k).dev = d
        /\ ~RemoteDevice(d, k).blank
    BY <2>1 DEF Known, Faces, RemoteDevice
  <2> QED
    BY <1>2, <1>3, <2>2 DEF Reporting
<1>5. /\ LockInv' /\ FoundTypes' /\ FlagTypes' /\ RunnerInv'
      /\ \A t \in Callers : at'[t] = at[t]
      /\ at'[Scan] = at[Scan] /\ dev'[Scan] = dev[Scan] /\ found'[Scan] = found[Scan]
      /\ \A g \in Finders \ {f} : at'[g] = at[g] /\ dev'[g] = dev[g] /\ found'[g] = found[g]
  BY <1>1, <1>2, <1>3, <1>4, FinderKeeps DEF otherVars
<1>6. UNCHANGED <<expired, base, remoteDeviceMap, scanCount, data, connecting, listener, sink,
                  served, online, quiet, torn>>
  BY <1>1 DEF mapVars, otherVars, history
<1>7. DataTypes'
  BY <1>0, <1>6 DEF DataTypes
<1>8. ~MidFind(f) /\ ~MidFind(f)' /\ \A g \in Finders \ {f} : MidFind(g)' = MidFind(g)
  BY <1>1, <1>2, <1>5 DEF MidFind
<1>9. ASSUME NEW c \in Devices
      PROVE  /\ Untouched(c) /\ Listed(c)' = Listed(c)
             /\ \A g \in Finders : /\ Finds(g, c)' = Finds(g, c)
                                   /\ Finds(g, c) => at'[g] = at[g] /\ found'[g] = found[g]
  BY <1>5, <1>6, <1>8 DEF Untouched, Listed, Told, Finds
<1>10. ListInv'
  BY <1>6, <1>9, KeptApart DEF IInv, ListInv
<1>11. AgeInv'
  BY <1>5, <1>6, <1>9 DEF IInv, AgeInv, CountInv, ExpiredInv, AgingInv, Due
<1>12. ClearedInv'
  <2>1. Midway' \subseteq Midway
    BY <1>5, <1>8 DEF Midway
  <2> QED
    BY <1>5, <1>6, <2>1 DEF IInv, ClearedInv
<1> QED
  BY <1>2, <1>5, <1>7, <1>10, <1>11, <1>12 DEF IInv, TypeInv

\* A step within the report of a device: f goes on to place.
LEMMA FinderGoes ==
  ASSUME IInv, NEW f \in Finders, at[f] \in {"look", "add", "report", "list"},
         NEW place \in {"add", "report", "list"}, Go(f, place),
         UNCHANGED <<op, dev, calls, found, eventVars, listener, sink, served>>
  PROVE  /\ ThreadTypes' /\ LockInv' /\ FoundTypes' /\ FlagTypes' /\ RunnerInv'
         /\ at'[f] = place /\ MidFind(f)' /\ dev'[f] = dev[f] /\ found'[f] = found[f]
         /\ \A t \in Callers : at'[t] = at[t]
         /\ at'[Scan] = at[Scan] /\ dev'[Scan] = dev[Scan] /\ found'[Scan] = found[Scan]
         /\ \A g \in Finders \ {f} : at'[g] = at[g] /\ dev'[g] = dev[g] /\ found'[g] = found[g]
<1>0. /\ f \in Threads /\ ThreadTypes /\ op[f] = "found" /\ Reporting(f)
  BY FinderFacts
<1>1. ThreadTypes' /\ Others(f) /\ at'[f] = place /\ op'[f] = op[f] /\ dev'[f] = dev[f]
  <2>1. Stationed(op[f], place)
    BY <1>0 DEF Stationed
  <2> QED
    BY <1>0, <2>1, Goes
<1>2. Reporting(f)'
  BY <1>0 DEF Reporting
<1>3. /\ LockInv' /\ FoundTypes' /\ FlagTypes' /\ RunnerInv'
      /\ \A t \in Callers : at'[t] = at[t]
      /\ at'[Scan] = at[Scan] /\ dev'[Scan] = dev[Scan] /\ found'[Scan] = found[Scan]
      /\ \A g \in Finders \ {f} : at'[g] = at[g] /\ dev'[g] = dev[g] /\ found'[g] = found[g]
  BY <1>0, <1>1, <1>2, FinderKeeps
<1> QED
  BY <1>1, <1>3 DEF MidFind

\* The devices that f does not report.
LEMMA OthersKept ==
  ASSUME IInv, NEW f \in Finders, NEW d \in Devices \ torn, d # dev[f], d # dev'[f], Untouched(d),
         \A g \in Finders \ {f} : at'[g] = at[g] /\ dev'[g] = dev[g] /\ found'[g] = found[g]
  PROVE  Kept(d)'
<1>1. ASSUME NEW g \in Finders
      PROVE  /\ Finds(g, d)' = Finds(g, d)
             /\ Finds(g, d) => at'[g] = at[g] /\ found'[g] = found[g]
  BY DEF Finds, MidFind
<1>2. Kept(d)
  BY DEF IInv, ListInv
<1> QED
  BY <1>1, <1>2, KeptApart

LEMMA ExistingKeeps ==
  ASSUME IInv, NEW f \in Finders, FindExisting(f)
  PROVE  IInv'
<1>1. /\ at[f] = "look" /\ Granted(f) /\ Go(f, "list")
      /\ UNCHANGED <<op, dev, calls, found, expired, base, mapVars, eventVars, otherVars, history>>
  BY DEF FindExisting, Is
<1>2. UNCHANGED <<op, dev, calls, found, eventVars, expired, base, remoteDeviceMap, scanCount,
                  data, connecting, listener, sink, served, online, quiet, torn>>
  BY <1>1 DEF mapVars, otherVars, history
<1>3. DataTypes /\ Reporting(f) /\ dev[f] \in Devices
  BY <1>1, FinderFacts
<1>4. /\ ThreadTypes' /\ LockInv' /\ FoundTypes' /\ FlagTypes' /\ RunnerInv'
      /\ at'[f] = "list" /\ MidFind(f)' /\ dev'[f] = dev[f] /\ found'[f] = found[f]
      /\ \A t \in Callers : at'[t] = at[t]
      /\ at'[Scan] = at[Scan] /\ dev'[Scan] = dev[Scan] /\ found'[Scan] = found[Scan]
      /\ \A g \in Finders \ {f} : at'[g] = at[g] /\ dev'[g] = dev[g] /\ found'[g] = found[g]
  BY <1>1, <1>2, FinderGoes
<1>5. /\ at[Scan] \notin {"ask", "sink", "tell"}
      /\ \A t \in Callers : at[t] # "placeholder"
  BY <1>1, GrantedList
<1>6. DataTypes'
  BY <1>2, <1>3 DEF DataTypes
<1>7. PICK e \in remoteDeviceMap : e.face = found[f].face
  BY DEF FindExisting
<1>8. ASSUME NEW c \in Devices PROVE Untouched(c) /\ Listed(c)' = Listed(c)
  BY <1>2 DEF Untouched, Listed, Told
<1>9. ASSUME NEW d \in Devices, d = dev[f], d \notin torn, Sole(f, d)'
      PROVE  Pending(f, d)'
  <2>1. Kept(d) /\ ~MidFind(f)
    BY <1>1, <1>9 DEF IInv, ListInv, MidFind
  <2>2. Settled(d)
    BY <1>4, <1>9, <2>1, SoleWasSettled
  <2>3. e \in Listed(d) /\ ~e.face.blank
    BY <1>3, <1>7, <1>9 DEF Listed, Reporting
  <2>4. Reported(d) /\ \A o \in Listed(d) : o.face = found[f].face
    BY <1>7, <2>2, <2>3 DEF Settled
  <2> QED
    BY <1>2, <1>4, <1>8, <2>4 DEF Pending, Reported, Told
<1>10. ListInv'
  <2>1. ASSUME NEW d \in Devices, d \notin torn PROVE Kept(d)'
    <3>1. CASE d = dev[f]
      BY <1>4, <1>9, <2>1, <3>1, KeptByFinder DEF Finds
    <3>2. CASE d # dev[f]
      BY <1>4, <1>8, <2>1, <3>2, OthersKept
    <3> QED
      BY <3>1, <3>2
  <2> QED
    BY <1>2, <2>1 DEF ListInv
<1>11. AgeInv' /\ ClearedInv'
  BY <1>2, <1>4, <1>5, <1>8 DEF IInv, AgeInv, CountInv, ExpiredInv, AgingInv, ClearedInv
<1> QED
  BY <1>4, <1>6, <1>10, <1>11 DEF IInv, TypeInv

LEMMA SameKeeps ==
  ASSUME IInv, NEW f \in Finders, RemoveSameDevice(f)
  PROVE  IInv'
<1>1. /\ at[f] = "look" /\ Granted(f) /\ Go(f, "add")
      /\ \/ Listed(dev[f]) = {} /\ UNCHANGED <<remoteDeviceMap, torn>>
         \/ /\ \E e \in Listed(dev[f]) : remoteDeviceMap' = remoteDeviceMap \ {e}
            /\ torn' = torn \cup ({dev[f]} \cap Midway)
      /\ UNCHANGED <<op, dev, calls, found, expired, base, scanCount, reportTypeMap, eventVars,
                     otherVars, online, quiet>>
  BY DEF RemoveSameDevice, Is
<1>2. UNCHANGED <<op, dev, calls, found, eventVars, expired, base, scanCount,
                  data, connecting, listener, sink, served, online, quiet>>
  BY <1>1 DEF otherVars
<1>3. DataTypes /\ Reporting(f) /\ dev[f] \in Devices
  BY <1>1, FinderFacts
<1>4. /\ ThreadTypes' /\ LockInv' /\ FoundTypes' /\ FlagTypes' /\ RunnerInv'
      /\ at'[f] = "add" /\ MidFind(f)' /\ dev'[f] = dev[f] /\ found'[f] = found[f]
      /\ \A t \in Callers : at'[t] = at[t]
      /\ at'[Scan] = at[Scan] /\ dev'[Scan] = dev[Scan] /\ found'[Scan] = found[Scan]
      /\ \A g \in Finders \ {f} : at'[g] = at[g] /\ dev'[g] = dev[g] /\ found'[g] = found[g]
  BY <1>1, <1>2, FinderGoes
<1>5. /\ at[Scan] \notin {"ask", "sink", "tell"}
      /\ \A t \in Callers : at[t] # "placeholder"
  BY <1>1, GrantedList
<1>6. /\ remoteDeviceMap' \subseteq remoteDeviceMap
      /\ torn \subseteq torn' /\ torn' \subseteq Devices
      /\ \A o \in remoteDeviceMap : o.face.dev # dev[f] => o \in remoteDeviceMap'
  BY <1>1, <1>3 DEF DataTypes, Listed
<1>7. DataTypes'
  BY <1>2, <1>3, <1>6 DEF DataTypes
<1>8. ASSUME NEW c \in Devices PROVE Listed(c)' \subseteq Listed(c)
  BY <1>6 DEF Listed
<1>9. ASSUME NEW c \in Devices, c # dev[f] PROVE Untouched(c)
  BY <1>2, <1>6, <1>9 DEF Untouched, Listed, Told
<1>10. ASSUME NEW d \in Devices, d = dev[f], d \notin torn', Sole(f, d)'
      PROVE  Pending(f, d)'
  <2>1. Kept(d) /\ ~MidFind(f)
    BY <1>1, <1>6, <1>10 DEF IInv, ListInv, MidFind
  <2>2. Settled(d)
    BY <1>4, <1>10, <2>1, SoleWasSettled
  <2>3. Listed(d)' = {}
    <3>1. CASE Listed(d) = {}
      BY <1>8, <3>1
    <3>2. CASE \E e \in Listed(d) : remoteDeviceMap' = remoteDeviceMap \ {e}
      <4>1. PICK e \in Listed(d) : remoteDeviceMap' = remoteDeviceMap \ {e}
        BY <3>2
      <4>2. \A o \in Listed(d) : o = e
        BY <2>2 DEF Settled
      <4>3. e \notin Listed(d)'
        BY <4>1 DEF Listed
      <4> QED
        BY <1>8, <4>2, <4>3
    <3> QED
      BY <1>1, <1>10, <3>1, <3>2
  <2> QED
    BY <1>4, <2>3 DEF Pending
<1>11. ListInv'
  <2>1. ASSUME NEW d \in Devices, d \notin torn' PROVE Kept(d)'
    <3>1. CASE d = dev[f]
      BY <1>4, <1>10, <2>1, <3>1, KeptByFinder DEF Finds
    <3>2. CASE d # dev[f]
      BY <1>4, <1>6, <1>9, <2>1, <3>2, OthersKept
    <3> QED
      BY <3>1, <3>2
  <2> QED
    BY <2>1 DEF ListInv
<1>12. CountInv'
  BY <1>2, <1>6, <1>8 DEF IInv, AgeInv, CountInv
<1>13. AgeInv' /\ ClearedInv'
  BY <1>4, <1>5, <1>12 DEF AgeInv, ExpiredInv, AgingInv, ClearedInv
<1> QED
  BY <1>4, <1>7, <1>11, <1>13 DEF IInv, TypeInv

LEMMA AddKeeps ==
  ASSUME IInv, NEW f \in Finders, AddDevice(f)
  PROVE  IInv'
<1>1. /\ at[f] = "add" /\ Go(f, "report")
      /\ data' = [data EXCEPT ![dev[f]] =
                    [known |-> TRUE, fresh |-> found[f].face.fresh, addr |-> found[f].face.addr]]
      /\ UNCHANGED <<op, dev, calls, found, expired, base, mapVars, eventVars, listener, sink,
                     connecting, served, history>>
  BY DEF AddDevice
<1>2. UNCHANGED <<op, dev, calls, found, eventVars, expired, base, remoteDeviceMap, scanCount,
                  connecting, listener, sink, served, online, quiet, torn>>
  BY <1>1 DEF mapVars, history
<1>3. DataTypes /\ Reporting(f) /\ dev[f] \in Devices
  BY <1>1, FinderFacts
<1>4. /\ ThreadTypes' /\ LockInv' /\ FoundTypes' /\ FlagTypes' /\ RunnerInv'
      /\ at'[f] = "report" /\ MidFind(f)' /\ dev'[f] = dev[f] /\ found'[f] = found[f]
      /\ \A t \in Callers : at'[t] = at[t]
      /\ at'[Scan] = at[Scan] /\ dev'[Scan] = dev[Scan] /\ found'[Scan] = found[Scan]
      /\ \A g \in Finders \ {f} : at'[g] = at[g] /\ dev'[g] = dev[g] /\ found'[g] = found[g]
  BY <1>1, <1>2, FinderGoes
<1>5. /\ data' \in [Devices -> Known] /\ data'[dev[f]].known
      /\ \A c \in Devices \ {dev[f]} : data'[c] = data[c]
  <2>1. [known |-> TRUE, fresh |-> found[f].face.fresh, addr |-> found[f].face.addr] \in Known
    BY <1>3 DEF Reporting, Faces, Known
  <2> QED
    BY <1>1, <1>3, <2>1 DEF DataTypes
<1>6. DataTypes'
  BY <1>2, <1>3, <1>5 DEF DataTypes
<1>7. ASSUME NEW c \in Devices PROVE Untouched(c) /\ Listed(c)' = Listed(c)
  BY <1>2, <1>5 DEF Untouched, Listed, Told
<1>8. \A g \in Finders : MidFind(g)' = MidFind(g) /\ dev'[g] = dev[g]
  BY <1>1, <1>4 DEF MidFind
<1>9. ASSUME NEW d \in Devices, d = dev[f], d \notin torn, Sole(f, d)'
      PROVE  Pending(f, d)'
  <2>1. Sole(f, d)
    BY <1>8, <1>9 DEF Sole, Finds
  <2>2. Listed(d) = {}
    BY <1>1, <1>9, <2>1 DEF IInv, ListInv, Kept, Pending
  <2> QED
    BY <1>4, <1>5, <1>7, <1>9, <2>2 DEF Pending
<1>10. ListInv'
  <2>1. ASSUME NEW d \in Devices, d \notin torn PROVE Kept(d)'
    <3>1. CASE d = dev[f]
      BY <1>4, <1>9, <2>1, <3>1, KeptByFinder DEF Finds
    <3>2. CASE d # dev[f]
      BY <1>4, <1>7, <2>1, <3>2, OthersKept
    <3> QED
      BY <3>1, <3>2
  <2> QED
    BY <1>2, <2>1 DEF ListInv
<1>11. AgeInv'
  BY <1>2, <1>4, <1>7 DEF IInv, AgeInv, CountInv, ExpiredInv, AgingInv, Due
<1>12. ClearedInv'
  <2>1. Midway' = Midway
    BY <1>8 DEF Midway
  <2> QED
    BY <1>2, <1>4, <2>1 DEF IInv, ClearedInv
<1> QED
  BY <1>4, <1>6, <1>10, <1>11, <1>12 DEF IInv, TypeInv

LEMMA ReportKeeps ==
  ASSUME IInv, NEW f \in Finders, NotifyDeviceIsFound(f)
  PROVE  IInv'
<1>1. /\ at[f] = "report" /\ Granted(f) /\ Go(f, "list")
      /\ online' = IF listener /\ served THEN online \cup {dev[f]} ELSE online
      /\ UNCHANGED <<op, dev, calls, found, expired, base, mapVars, eventVars, otherVars, quiet,
                     torn>>
  BY DEF NotifyDeviceIsFound, Is
<1>2. UNCHANGED <<op, dev, calls, found, eventVars, expired, base, remoteDeviceMap, scanCount,
                  data, connecting, listener, sink, served, quiet, torn>>
  BY <1>1 DEF mapVars, otherVars
<1>3. DataTypes /\ Reporting(f) /\ dev[f] \in Devices
  BY <1>1, FinderFacts
<1>4. /\ ThreadTypes' /\ LockInv' /\ FoundTypes' /\ FlagTypes' /\ RunnerInv'
      /\ at'[f] = "list" /\ MidFind(f)' /\ dev'[f] = dev[f] /\ found'[f] = found[f]
      /\ \A t \in Callers : at'[t] = at[t]
      /\ at'[Scan] = at[Scan] /\ dev'[Scan] = dev[Scan] /\ found'[Scan] = found[Scan]
      /\ \A g \in Finders \ {f} : at'[g] = at[g] /\ dev'[g] = dev[g] /\ found'[g] = found[g]
  BY <1>1, <1>2, FinderGoes
<1>5. online' \subseteq Devices /\ online \subseteq online' /\ (Told => dev[f] \in online')
  BY <1>1, <1>3 DEF DataTypes, Told
<1>6. DataTypes'
  BY <1>2, <1>3, <1>5 DEF DataTypes
<1>7. ASSUME NEW c \in Devices PROVE Untouched(c) /\ Listed(c)' = Listed(c)
  BY <1>2, <1>5 DEF Untouched, Listed, Told
<1>8. \A g \in Finders : MidFind(g)' = MidFind(g) /\ dev'[g] = dev[g]
  BY <1>1, <1>4 DEF MidFind
<1>9. ASSUME NEW d \in Devices, d = dev[f], d \notin torn, Sole(f, d)'
      PROVE  Pending(f, d)'
  <2>1. Sole(f, d)
    BY <1>8, <1>9 DEF Sole, Finds
  <2>2. Listed(d) = {} /\ data[d].known
    BY <1>1, <1>9, <2>1 DEF IInv, ListInv, Kept, Pending
  <2>3. Reported(d)'
    BY <1>2, <1>5, <1>9, <2>2 DEF Reported, Told
  <2> QED
    BY <1>4, <1>7, <2>2, <2>3 DEF Pending
<1>10. ListInv'
  <2>1. ASSUME NEW d \in Devices, d \notin torn PROVE Kept(d)'
    <3>1. CASE d = dev[f]
      BY <1>4, <1>9, <2>1, <3>1, KeptByFinder DEF Finds
    <3>2. CASE d # dev[f]
      BY <1>4, <1>7, <2>1, <3>2, OthersKept
    <3> QED
      BY <3>1, <3>2
  <2> QED
    BY <1>2, <2>1 DEF ListInv
<1>11. AgeInv'
  BY <1>2, <1>4, <1>7 DEF IInv, AgeInv, CountInv, ExpiredInv, AgingInv, Due
<1>12. ClearedInv'
  <2>1. Midway' = Midway
    BY <1>8 DEF Midway
  <2> QED
    BY <1>2, <1>4, <2>1 DEF IInv, ClearedInv
<1> QED
  BY <1>4, <1>6, <1>10, <1>11, <1>12 DEF IInv, TypeInv

LEMMA ListKeeps ==
  ASSUME IInv, NEW f \in Finders, ListDevice(f)
  PROVE  IInv'
<1> DEFINE face == found[f].face
<1>1. /\ at[f] = "list" /\ Granted(f) /\ Done(f)
      /\ remoteDeviceMap' = {e \in remoteDeviceMap : e.face # face} \cup {Entry(face, scanCount)}
      /\ quiet' = [quiet EXCEPT ![dev[f]] = 0]
      /\ torn' = torn \cup ({dev[f]} \cap OthersMidway(f))
      /\ found' = [found EXCEPT ![f] = Nothing]
      /\ UNCHANGED <<calls, expired, base, scanCount, eventVars, data, connecting, listener, sink,
                     served, online>>
  BY DEF ListDevice, Is, otherVars
<1>2. /\ f \in Threads /\ ThreadTypes /\ TypeInv /\ DataTypes /\ Reporting(f)
      /\ dev[f] \in Devices /\ face \in Faces /\ face.dev = dev[f]
  BY <1>1, FinderFacts DEF Reporting
<1>3. ThreadTypes' /\ Others(f) /\ at'[f] = "idle" /\ op'[f] = "none"
  BY <1>1, <1>2, Ends
<1>4. /\ DOMAIN found' = DOMAIN found
      /\ \A g \in (Finders \cup {Scan}) \ {f} : found'[g] = found[g]
  BY <1>1, <1>2 DEF TypeInv, FoundTypes
<1>5. /\ LockInv' /\ FoundTypes' /\ FlagTypes' /\ RunnerInv'
      /\ \A t \in Callers : at'[t] = at[t]
      /\ at'[Scan] = at[Scan] /\ dev'[Scan] = dev[Scan] /\ found'[Scan] = found[Scan]
      /\ \A g \in Finders \ {f} : at'[g] = at[g] /\ dev'[g] = dev[g] /\ found'[g] = found[g]
  BY <1>1, <1>3, <1>4, FinderKeeps
<1>6. /\ at[Scan] \notin {"ask", "sink", "tell"}
      /\ \A t \in Callers : at[t] # "placeholder"
  BY <1>1, GrantedList
<1>7. /\ Entry(face, scanCount) \in Entries /\ Entry(face, scanCount).face = face
      /\ Entry(face, scanCount).count = scanCount
  BY <1>2 DEF Entry, Entries, DataTypes
<1>8. /\ torn \subseteq torn' /\ torn' \subseteq Devices
      /\ quiet' \in [Devices -> 0 .. 2] /\ quiet'[dev[f]] = 0
      /\ \A c \in Devices \ {dev[f]} : quiet'[c] = quiet[c]
  BY <1>1, <1>2 DEF DataTypes
<1>9. DataTypes'
  BY <1>1, <1>2, <1>7, <1>8 DEF DataTypes
<1>10. ASSUME NEW c \in Devices, c # dev[f] PROVE Untouched(c) /\ Listed(c)' = Listed(c)
  <2>1. Listed(c)' = Listed(c)
    BY <1>1, <1>2, <1>7, <1>10 DEF Listed
  <2> QED
    BY <1>1, <2>1 DEF Untouched, Told
<1>11. ASSUME NEW d \in Devices, d = dev[f], d \notin torn'
       PROVE  Kept(d)' /\ Listed(d)' = {Entry(face, scanCount)}
  <2>1. \A g \in Finders \ {f} : ~Finds(g, d)
    BY <1>1, <1>11 DEF OthersMidway, Finds
  <2>2. Sole(f, d)
    BY <1>1, <1>11, <2>1 DEF Sole, Finds, MidFind
  <2>3. Pending(f, d)
    BY <1>8, <1>11, <2>2 DEF IInv, ListInv, Kept
  <2>4. Reported(d) /\ \A e \in Listed(d) : e.face = face
    BY <1>1, <2>3 DEF Pending
  <2>5. Listed(d)' = {Entry(face, scanCount)}
    BY <1>1, <1>2, <1>7, <1>11, <2>4 DEF Listed
  <2>6. Reported(d)'
    BY <1>1, <2>4 DEF Reported, Told
  <2>7. \A g \in Finders : ~Finds(g, d)'
    BY <1>3, <1>5, <2>1 DEF Finds, MidFind
  <2> QED
    BY <2>5, <2>6, <2>7 DEF Kept, Settled, Sole
<1>12. ListInv'
  <2>1. ASSUME NEW d \in Devices, d \notin torn' PROVE Kept(d)'
    <3>1. CASE d = dev[f]
      BY <1>11, <2>1, <3>1
    <3>2. CASE d # dev[f]
      <4>1. dev'[f] = NoDevice /\ d # NoDevice
        BY <1>1, <1>2, DiscoveryAssumption DEF Done, ThreadTypes
      <4> QED
        BY <1>5, <1>8, <1>10, <2>1, <3>2, <4>1, OthersKept
    <3> QED
      BY <3>1, <3>2
  <2> QED
    BY <2>1 DEF ListInv
<1>13. CountInv'
  <2>1. ASSUME NEW d \in Devices, d \notin torn', NEW e \in Listed(d)'
        PROVE  quiet'[d] = 2 \/ scanCount' <= e.count + quiet'[d]
    <3>1. CASE d = dev[f]
      <4>1. e.count = scanCount /\ quiet'[d] = 0 /\ scanCount' = scanCount /\ scanCount \in Nat
        BY <1>1, <1>2, <1>7, <1>8, <1>11, <2>1, <3>1 DEF DataTypes
      <4> QED
        BY <4>1
    <3>2. CASE d # dev[f]
      BY <1>1, <1>8, <1>10, <2>1, <3>2 DEF IInv, AgeInv, CountInv
    <3> QED
      BY <3>1, <3>2
  <2> QED
    BY <2>1 DEF CountInv
<1>14. AgeInv' /\ ClearedInv'
  BY <1>5, <1>6, <1>13 DEF AgeInv, ExpiredInv, AgingInv, ClearedInv
<1> QED
  BY <1>3, <1>5, <1>9, <1>12, <1>14 DEF IInv, TypeInv


(***************************************************************************)
(* The invariant is kept.                                                  *)
(***************************************************************************)
LEMMA InitIInv ==
  ASSUME Init
  PROVE  IInv
<1>0. /\ op = [t \in Threads |-> "none"] /\ at = [t \in Threads |-> "idle"]
      /\ dev = [t \in Threads |-> NoDevice]
      /\ \A f \in Finders : ~MidFind(f)
      /\ \A t \in Threads : at[t] = "idle" /\ op[t] = "none" /\ dev[t] = NoDevice
  BY ThreadsApart DEF Init, MidFind
<1>1. ThreadTypes
  <2>1. \A t \in Threads : MayDo(t, "none") /\ Stationed("none", "idle")
    BY ThreadsApart DEF MayDo, Stationed, Asked
  <2>2. calls \in 0 .. MaxCalls
    BY DiscoveryAssumption DEF Init
  <2> QED
    BY <1>0, <2>1, <2>2 DEF ThreadTypes, Asked
<1>2. FoundTypes
  BY <1>0, ThreadsApart DEF FoundTypes, Init
<1>3. DataTypes
  <2>1. Unknown \in Known
    BY DEF Unknown, Known
  <2> QED
    BY <2>1 DEF Init, DataTypes
<1>4. FlagTypes
  BY DEF Init, FlagTypes
<1>5. LockInv
  BY <1>0, HoldsWhere DEF LockInv, Excludes
<1>6. ClearedInv /\ RunnerInv
  BY <1>0, ThreadsApart DEF Init, ClearedInv, RunnerInv
<1>7. \A d \in Devices : Listed(d) = {}
  BY DEF Init, Listed
<1>8. ListInv
  BY <1>0, <1>7 DEF ListInv, Kept, Settled, Sole, Finds
<1>9. AgeInv
  BY <1>0, <1>7, ThreadsApart DEF AgeInv, CountInv, ExpiredInv, AgingInv
<1> QED
  BY <1>1, <1>2, <1>3, <1>4, <1>5, <1>6, <1>8, <1>9 DEF IInv, TypeInv

LEMMA StayIInv ==
  ASSUME IInv, UNCHANGED vars
  PROVE  IInv'
<1>1. /\ UNCHANGED <<op, at, dev, calls, found, expired, base>>
      /\ UNCHANGED <<remoteDeviceMap, scanCount, reportTypeMap>>
      /\ UNCHANGED <<hasStartDiscovery, queue, runner, discovering>>
      /\ UNCHANGED <<listener, sink, connecting, data, served, online, quiet, torn>>
  BY DEF vars, threadVars, mapVars, eventVars, otherVars, history
<1>2. ThreadTypes' /\ FoundTypes' /\ DataTypes' /\ LockInv'
  BY <1>1, StutterKeeps
<1>3. FlagTypes' /\ RunnerInv'
  BY <1>1 DEF IInv, TypeInv, FlagTypes, RunnerInv
<1>4. NoFinder
  BY <1>1 DEF NoFinder
<1>5. ASSUME NEW d \in Devices PROVE Untouched(d) /\ Listed(d)' = Listed(d)
  BY <1>1 DEF Untouched, Listed, Told
<1>6. ListInv'
  BY <1>1, <1>4, <1>5, KeptElsewhere DEF IInv, ListInv
<1>7. ClearedInv'
  BY <1>1, <1>4, FindersStay DEF IInv, ClearedInv
<1>8. AgeInv'
  BY <1>1, <1>5 DEF IInv, AgeInv, CountInv, ExpiredInv, AgingInv, Due
<1> QED
  BY <1>2, <1>3, <1>6, <1>7, <1>8 DEF IInv, TypeInv

LEMMA StepIInv ==
  ASSUME IInv, [Next]_vars
  PROVE  IInv'
<1>1. CASE UNCHANGED vars
  BY <1>1, StayIInv
<1>2. ASSUME NEW t \in Clients, StartDiscovery(t) \/ StopDiscovery(t) \/ Release(t)
      PROVE  IInv'
  BY <1>2, CallsKeep DEF Callers
<1>3. ASSUME NEW t \in Sessions, DisconnectDevice(t) \/ \E d \in Devices : ConnectDevice(t, d)
      PROVE  IInv'
  BY <1>3, CallsKeep DEF Callers
<1>4. ASSUME NEW t \in Watchers, OnRemoteDied(t)
      PROVE  IInv'
  BY <1>4, ReleaseKeeps DEF Callers
<1>5. ASSUME NEW t \in Callers, Steps(t)
      PROVE  IInv'
  BY <1>5, ClearKeeps, KeepKeeps, StopKeeps, HaltKeeps, ReleaseKeeps DEF Steps
<1>6. CASE Run \/ Leave
  BY <1>6, RunnerKeeps
<1>7. CASE Scanning
  BY <1>7, RunnerKeeps, ProcessKeeps, UpdateKeeps, AskKeeps, NotifyKeeps, RemoveKeeps, CountKeeps
     DEF Scanning
<1>8. ASSUME NEW f \in Finders, Finding(f)
      PROVE  IInv'
  BY <1>8, ExistingKeeps, SameKeeps, AddKeeps, ReportKeeps, ListKeeps DEF Finding
<1>9. ASSUME NEW f \in Finders, NEW d \in Devices, NEW k \in Kinds, OnDeviceInfoFound(f, d, k)
      PROVE  IInv'
  BY <1>9, FoundKeeps
<1> QED
  BY <1>1, <1>2, <1>3, <1>4, <1>5, <1>6, <1>7, <1>8, <1>9 DEF Next

LEMMA InvariantIInv == Spec => []IInv
<1>1. Init => IInv
  BY InitIInv
<1>2. IInv /\ [Next]_vars => IInv'
  BY StepIInv
<1> QED
  BY <1>1, <1>2, PTL DEF Spec

(***************************************************************************)
(* What follows from it.                                                   *)
(***************************************************************************)
LEMMA OneHolder ==
  ASSUME LockInv, NEW lock \in {"dm", "cm", "write"}
  PROVE  Cardinality(Holders(lock)) <= 1
<1>1. CASE Holders(lock) = {}
  BY <1>1, FS_EmptySet
<1>2. CASE Holders(lock) # {}
  <2>1. PICK t \in Threads : Holds(t, lock)
    BY <1>2 DEF Holders
  <2>2. \A u \in Threads : Holds(u, lock) => u = t
    BY <2>1 DEF LockInv, Excludes
  <2>3. Holders(lock) = {t}
    BY <2>1, <2>2 DEF Holders
  <2> QED
    BY <2>3, FS_Singleton
<1> QED
  BY <1>1, <1>2

\* The variables keep their types; DiscoveryManager's mutex, ConnectionManager's
\* and the service's write lock have one owner at most, and nobody reads under
\* the shared mutex while somebody writes: what the std::lock_guards of the three
\* components are there for.
THEOREM DiscoveryTypeCorrect == Spec => []TypeOK
<1>1. ASSUME IInv PROVE TypeOK
  <2>1. /\ calls \in 0 .. MaxCalls /\ DOMAIN op = Threads /\ DOMAIN at = Threads
        /\ dev \in [Threads -> Devices \cup {NoDevice}]
    BY <1>1 DEF IInv, TypeInv, ThreadTypes
  <2>2. /\ connecting \in Devices \cup {NoDevice} /\ online \cup torn \subseteq Devices
        /\ quiet \in [Devices -> 0 .. 2]
        /\ data \in [Devices -> [known : BOOLEAN, fresh : SUBSET Kinds, addr : SUBSET Kinds]]
    BY <1>1 DEF IInv, TypeInv, DataTypes, Known
  <2>3. \A e \in remoteDeviceMap \cup expired : e.face \in Faces /\ e.count \in Nat
    BY <1>1 DEF IInv, TypeInv, DataTypes, Entries
  <2>4. /\ queue \in [start : BOOLEAN, continue : Nat, count : Nat]
        /\ {hasStartDiscovery, listener, sink, served, discovering} \subseteq BOOLEAN
    BY <1>1 DEF IInv, TypeInv, FlagTypes
  <2>5. \A lock \in {"dm", "cm", "write"} : Cardinality(Holders(lock)) <= 1
    BY <1>1, OneHolder DEF IInv
  <2>6. Holders("read") = {} \/ Holders("write") = {}
    <3>1. ASSUME NEW t \in Threads, Holds(t, "read"), NEW u \in Threads, Holds(u, "write")
          PROVE  FALSE
      <4>1. t # u
        BY <3>1, HoldsWhere
      <4> QED
        BY <1>1, <3>1, <4>1 DEF IInv, LockInv, Excludes
    <3> QED
      BY <3>1 DEF Holders
  <2> QED
    BY <2>1, <2>2, <2>3, <2>4, <2>5, <2>6 DEF TypeOK
<1> QED
  BY <1>1, InvariantIInv, PTL

\* Threads of which none asks with DiscoveryManager's mutex in hand do not bar
\* each other in a circle.
LEMMA NoCircle ==
  ASSUME ThreadTypes, NEW S, S \subseteq Waiting \ AskingUnderLock, Deadlocked(S)
  PROVE  FALSE
<1>1. /\ S \subseteq Threads /\ \A t \in S : \E u \in S : Bars(u, t)
      /\ \A t \in S : Stationed(op[t], at[t])
  BY DEF Waiting, Deadlocked, ThreadTypes
<1>2. \A u \in S : ~Holds(u, "dm")
  BY <1>1, HoldsWhere DEF AskingUnderLock
<1>3. \A t \in S : Wants(t, "cm") \/ Wants(t, "read") \/ Wants(t, "write")
  BY <1>1, <1>2 DEF Bars
<1>4. \A u \in S : ~Holds(u, "cm") /\ ~Holds(u, "read")
  BY <1>3, HoldsWhere, WantsWhere
<1>5. \A t \in S : Wants(t, "read") \/ Wants(t, "write")
  BY <1>1, <1>2, <1>4 DEF Bars
<1>6. \A u \in S : ~Holds(u, "write")
  <2>1. ASSUME NEW u \in S, Holds(u, "write") PROVE FALSE
    <3>1. op[u] = "release" /\ at[u] \in {"check", "fresh", "halt", "reset", "resetSink"}
      BY <1>1, <2>1, HoldsWhere DEF Stationed
    <3> QED
      BY <1>5, <3>1, WantsWhere
  <2> QED
    BY <2>1
<1>7. \A t \in S : Wants(t, "read") /\ ~Wants(t, "write")
  <2>1. ASSUME NEW t \in S, Wants(t, "write") PROVE FALSE
    <3>1. at[t] = "enter"
      BY <2>1, WantsWhere
    <3>2. ~Wants(t, "dm") /\ ~Wants(t, "cm") /\ ~Wants(t, "read")
      BY <3>1, WantsWhere
    <3> QED
      BY <1>1, <1>4, <1>6, <3>2 DEF Bars
  <2> QED
    BY <1>5, <2>1
<1>8. \A u \in S : op[u] # "release"
  <2>1. ASSUME NEW u \in S, op[u] = "release" PROVE FALSE
    <3>1. at[u] # "enter"
      BY <1>7, <2>1, WantsWhere
    <3> QED
      BY <1>6, <2>1, <3>1, HoldsWhere
  <2> QED
    BY <2>1
<1>9. \A t \in S, u \in S : ~Bars(u, t)
  BY <1>2, <1>4, <1>6, <1>8 DEF Bars
<1> QED
  BY <1>1, <1>9 DEF Deadlocked

\* Every circle of waiting threads runs through StartDiscovery or the scan, which
\* ask for ConnectionManager's mutex or the service's with DiscoveryManager's own
\* in hand: without these two the order of locking admits no deadlock.
THEOREM DeadlocksUnderLock == Spec => []DeadlocksAskUnderLock
<1>1. ASSUME IInv PROVE DeadlocksAskUnderLock
  BY <1>1, NoCircle DEF IInv, TypeInv, DeadlocksAskUnderLock
<1> QED
  BY <1>1, InvariantIInv, PTL

\* A device that OnDeviceInfoFound has listed is known to the device data and was
\* reported to the clients, unless the list was changed under a finder between its
\* two looks at it.
THEOREM ListedReported == Spec => []ListedIsReported
<1>1. ASSUME IInv PROVE ListedIsReported
  <2>1. ASSUME NEW d \in Devices \ (torn \cup Midway)
        PROVE  Settled(d)
    BY <1>1, <2>1 DEF IInv, ListInv, Kept
  <2> QED
    BY <2>1 DEF ListedIsReported, Settled, Reported, Told
<1> QED
  BY <1>1, InvariantIInv, PTL

\* While the event of StartDiscovery waits there is a thread to take it, unless a
\* StopDiscovery crossed it.
THEOREM StartsHaveRunner == Spec => []StartHasRunner
<1>1. ASSUME IInv PROVE StartHasRunner
  BY <1>1 DEF IInv, RunnerInv, StartHasRunner
<1> QED
  BY <1>1, InvariantIInv, PTL

\* Clients are told that a device is gone by UpdateDeviceStateLocked alone.
LEMMA GoneByScan ==
  ASSUME [Next]_vars
  PROVE  online \subseteq online' \/ ~served' \/ ReportDeviceOffline
<1>1. CASE UNCHANGED vars
  BY <1>1 DEF vars, history
<1>2. ASSUME NEW t, NEW o, NEW d, NEW place, Begin(t, o, d, place)
      PROVE  online' = online
  BY <1>2 DEF Begin, history
<1>3. ASSUME NEW t, \/ ClearDevices(t) \/ KeepConnecting(t) \/ LockShared(t)
                    \/ SetDeviceNotFresh(t) \/ StopDmDiscovery(t)
                    \/ SetConnectingDeviceId(t) \/ DropConnecting(t)
                    \/ ClearConnectingDeviceId(t) \/ Deinit(t) \/ ResetListener(t)
                    \/ DeinitConnections(t) \/ OnRemoteDied(t)
      PROVE  online' = online
  BY <1>3 DEF ClearDevices, KeepConnecting, LockShared, SetDeviceNotFresh, StopDmDiscovery,
       SetConnectingDeviceId, DropConnecting, ClearConnectingDeviceId, Deinit, ResetListener,
       DeinitConnections, OnRemoteDied, history
<1>4. ASSUME NEW t, ReleaseLocked(t)
      PROVE  ~served'
  BY <1>4 DEF ReleaseLocked
<1>5. CASE \/ Run \/ Leave
           \/ \E event \in {"start", "continue"} : SkipEvent(event) \/ ProcessEvent(event)
  BY <1>5 DEF Run, Leave, SkipEvent, ProcessEvent, history
<1>6. CASE \/ UpdateDeviceState \/ \E e \in remoteDeviceMap : GetConnectingDeviceId(e)
           \/ NotifyDeviceIsOffline \/ RemoveUnreported \/ StartDmDiscovery
  BY <1>6 DEF UpdateDeviceState, GetConnectingDeviceId, NotifyDeviceIsOffline, RemoveUnreported,
       StartDmDiscovery, history
<1>7. ASSUME NEW f, \/ FindExisting(f) \/ RemoveSameDevice(f) \/ AddDevice(f) \/ ListDevice(f)
                    \/ NotifyDeviceIsFound(f)
                    \/ \E d \in Devices, k \in Kinds : OnDeviceInfoFound(f, d, k)
      PROVE  online \subseteq online'
  BY <1>7 DEF FindExisting, RemoveSameDevice, AddDevice, ListDevice, NotifyDeviceIsFound,
       OnDeviceInfoFound, history
<1>8. CASE Next
  <2>1. ASSUME NEW t \in Clients, StartDiscovery(t) \/ StopDiscovery(t) \/ Release(t)
        PROVE  online' = online
    BY <1>2, <2>1 DEF StartDiscovery, StopDiscovery, Release
  <2>2. ASSUME NEW t \in Sessions, DisconnectDevice(t) \/ \E d \in Devices : ConnectDevice(t, d)
        PROVE  online' = online
    BY <1>2, <2>2 DEF DisconnectDevice, ConnectDevice
  <2>3. ASSUME NEW t \in Callers, Steps(t)
        PROVE  online' = online \/ ~served'
    BY <1>3, <1>4, <2>3 DEF Steps
  <2>4. CASE Scanning
    BY <1>5, <1>6, <2>4 DEF Scanning
  <2> QED
    BY <1>3, <1>5, <1>7, <1>8, <2>1, <2>2, <2>3, <2>4 DEF Next, Finding
<1> QED
  BY <1>1, <1>8

\* Clients are told that a device is gone only when two scans have begun since it
\* was last found, unless its entry was changed under a finder or aged by a count
\* from before StartDiscovery's reset.
THEOREM OfflineDue == Spec => OfflineIsDue
<1>1. ASSUME IInv, [Next]_vars, NEW d \in Devices \ torn, d \in online, d \notin online', served'
      PROVE  quiet[d] = 2
  <2>1. ReportDeviceOffline
    BY <1>1, GoneByScan
  <2>2. at[Scan] = "tell" /\ d = dev[Scan]
    BY <1>1, <2>1 DEF ReportDeviceOffline, Is
  <2>3. Due(d)
    BY <1>1, <2>2 DEF IInv, AgeInv, AgingInv
  <2> QED
    BY <2>3 DEF Due
<1>2. IInv /\ [Next]_vars
      => [\A d \in Devices \ torn :
            d \in online /\ d \notin online' /\ served' => quiet[d] = 2]_vars
  BY <1>1
<1> QED
  BY <1>2, InvariantIInv, PTL DEF Spec, OfflineIsDue
=============================================================================
