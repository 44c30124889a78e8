---------------------------- MODULE ServiceProofs ----------------------------
(***************************************************************************)
(* The service keeps its types, discovers for nobody only when it is about *)
(* to go, and serves every client that believes it does or is about to go, *)
(* for any clients, any of which may die, and any number of boots.         *)
(*                                                                         *)
(* What a service does under its mutex never takes back that it asked to   *)
(* be unloaded, and drops the last listener only when it asks for that.    *)
(* What a client holds is of the running boot or of an earlier one, never  *)
(* of one to come, so a new process owes nothing to what clients hold.     *)
(***************************************************************************)
EXTENDS Service, TLAPS

(***************************************************************************)
(* The type invariant, in parts.                                           *)
(***************************************************************************)
ServiceRecord ==
  [up : BOOLEAN, boot : Boots, unload : BOOLEAN, status : {"DISCONNECTED", "CONNECTED"},
   listeners : SUBSET Clients, pids : SUBSET Clients, watched : SUBSET Clients,
   inited : BOOLEAN, discovering : BOOLEAN]

JsThread ==
  [stage : {"idle", "adaptor", "sent", "link", "record", "subscribe", "unadaptor", "unsent"},
   boot : Boots, dropped : BOOLEAN]

PoolThread ==
  [stage : {"idle", "adaptor", "sent", "checked"}, boot : Boots, method : Methods]

ServiceOK == service \in ServiceRecord

FlagsOK ==
  /\ alive \in [Clients -> BOOLEAN] /\ listener \in [Clients -> BOOLEAN]
  /\ callback \in [Clients -> BOOLEAN] /\ recipient \in [Clients -> BOOLEAN]
  /\ told \in [Clients -> BOOLEAN]

ClientsOK ==
  /\ dying \in [Clients -> {"none", "notified", "releasing"}]
  /\ adaptor \in [Clients -> Boots] /\ link \in [Clients -> Boots]
  /\ notice \in [Clients -> {"none", "received", "reporting"}]
  /\ calls \in [Clients -> 0..MaxCalls]

ThreadsOK == js \in [Clients -> JsThread] /\ pool \in [Clients -> PoolThread]

TypeInv == ServiceOK /\ FlagsOK /\ ClientsOK /\ ThreadsOK

LEMMA TypeInvIsTypeOK == TypeInv => TypeOK
  BY DEF TypeInv, TypeOK, ServiceOK, FlagsOK, ClientsOK, ThreadsOK, ServiceRecord, JsThread,
         PoolThread

(***************************************************************************)
(* The inductive invariant, in parts.                                      *)
(***************************************************************************)
\* Somebody listens, or the service is about to go.
Wanted == service.listeners # {} \/ service.unload

Served(c) == c \in service.listeners \/ service.unload

\* A listener is in both stores of the service or in neither.
ServiceInv ==
  /\ service.up => service.boot # NoBoot
  /\ service.pids = service.listeners
  /\ service.discovering => Wanted

\* Nothing a client holds is of a boot to come.
BootsInv(c) ==
  /\ adaptor[c] <= service.boot /\ link[c] <= service.boot
  /\ js[c].boot <= service.boot /\ pool[c].boot <= service.boot

\* Between the two steps of StartDiscovery.
CheckedInv(c) == pool[c].stage = "checked" /\ Reachable(pool[c].boot) => Wanted

\* Only the listeners of dead clients are removed for their death, and a client
\* that takes its listener back has given up the death notice: so a client that
\* is linked to the service, or about to be, is a listener of it.
LinkInv(c) ==
  /\ dying[c] # "none" => ~alive[c]
  /\ js[c].stage = "unsent" => link[c] = NoBoot
  /\ alive[c] /\ link[c] # NoBoot /\ Reachable(link[c]) => Served(c)
  /\ alive[c] /\ js[c].stage = "link" /\ Reachable(js[c].boot) => Served(c)

ClientInv(c) == BootsInv(c) /\ CheckedInv(c) /\ LinkInv(c)

IInv == ServiceInv /\ \A c \in Clients : ClientInv(c)

(***************************************************************************)
(* What the operations of the service do to its record.                    *)
(***************************************************************************)
\* The process goes on, and serves whom it served but those in S.
GoesOn(S) ==
  /\ service' \in ServiceRecord
  /\ service'.boot = service.boot /\ service'.up = service.up
  /\ service.unload => service'.unload
  /\ service'.pids = service'.listeners
  /\ Wanted => Wanted'
  /\ service'.discovering => service.discovering \/ Wanted'
  /\ \A c \in Clients \ S : Served(c) => Served(c)'

LEMMA Unchanging ==
  ASSUME ServiceOK, ServiceInv, NEW S, UNCHANGED service
  PROVE  GoesOn(S)
  BY DEF ServiceOK, ServiceInv, GoesOn, Wanted, Served

LEMMA Releasing ==
  ASSUME NEW s \in ServiceRecord
  PROVE  /\ ReleaseLocked(s) \in ServiceRecord
         /\ ReleaseLocked(s).boot = s.boot /\ ReleaseLocked(s).up = s.up
         /\ ReleaseLocked(s).unload
         /\ ReleaseLocked(s).listeners = {} /\ ReleaseLocked(s).pids = {}
  BY DEF ReleaseLocked, Deinit, ClearListenersLocked, ServiceRecord

LEMMA ReleaseGoesOn ==
  ASSUME ServiceOK, NEW S, service' = ReleaseLocked(service)
  PROVE  GoesOn(S) /\ service'.unload
  BY Releasing DEF ServiceOK, GoesOn, Wanted, Served

LEMMA RemovingClient ==
  ASSUME NEW s \in ServiceRecord, NEW c \in Clients, s.pids = s.listeners
  PROVE  /\ RemoveClient(s, c) \in ServiceRecord
         /\ RemoveClient(s, c).boot = s.boot /\ RemoveClient(s, c).up = s.up
         /\ RemoveClient(s, c).unload = s.unload
         /\ RemoveClient(s, c).discovering = s.discovering
         /\ RemoveClient(s, c).pids = RemoveClient(s, c).listeners
         /\ RemoveClient(s, c).listeners = s.listeners \ {c}
  BY DEF RemoveClient, ServiceRecord

LEMMA RemoveGoesOn ==
  ASSUME ServiceOK, ServiceInv, NEW c \in Clients,
         service' = RemoveListenerLocked(service, c)
  PROVE  GoesOn({c})
  <1> DEFINE r == RemoveClient(service, c)
  <1>1. /\ r \in ServiceRecord /\ r.boot = service.boot /\ r.up = service.up
        /\ r.unload = service.unload /\ r.discovering = service.discovering
        /\ r.pids = r.listeners /\ r.listeners = service.listeners \ {c}
    BY RemovingClient DEF ServiceOK, ServiceInv
  <1>2. CASE r.listeners = {}
    <2>1. service' = ReleaseLocked(r)
      BY <1>2 DEF RemoveListenerLocked
    <2> HIDE DEF r
    <2> QED
      BY <1>1, <2>1, Releasing DEF GoesOn, Wanted, Served
  <1>3. CASE r.listeners # {}
    <2>1. service' = r
      BY <1>3 DEF RemoveListenerLocked
    <2> HIDE DEF r
    <2> QED
      BY <1>1, <1>3, <2>1 DEF GoesOn, Wanted, Served
  <1> QED
    BY <1>2, <1>3

LEMMA AddingListener ==
  ASSUME NEW s \in ServiceRecord, NEW c \in Clients, s.pids = s.listeners
  PROVE  /\ AddListenerLocked(s, c) \in ServiceRecord
         /\ AddListenerLocked(s, c).boot = s.boot /\ AddListenerLocked(s, c).up = s.up
         /\ AddListenerLocked(s, c).unload = s.unload
         /\ AddListenerLocked(s, c).pids = s.listeners \cup {c}
         /\ AddListenerLocked(s, c).listeners = s.listeners \cup {c}
  BY DEF AddListenerLocked, ServiceRecord

\* A new process has the next number and nothing of the one before.
GoesUp ==
  /\ ~service.up /\ service.boot + 1 \in Boots
  /\ service' = Started(service.boot + 1)

LEMMA StartedFacts ==
  ASSUME NEW n \in Boots
  PROVE  /\ Started(n) \in ServiceRecord
         /\ Started(n).up /\ Started(n).boot = n /\ Started(n).pids = Started(n).listeners
         /\ ~Started(n).discovering
  BY DEF Started, ServiceRecord

(***************************************************************************)
(* What a step of one client leaves alone.                                 *)
(***************************************************************************)
OthersStand(c) ==
  \A d \in Clients \ {c} :
    /\ adaptor'[d] = adaptor[d] /\ link'[d] = link[d] /\ js'[d] = js[d] /\ pool'[d] = pool[d]
    /\ alive'[d] = alive[d] /\ dying'[d] = dying[d]

LEMMA GoesOnKeeps ==
  ASSUME ServiceOK, IInv, NEW c \in Clients, GoesOn({c}), OthersStand(c), ClientInv(c)'
  PROVE  IInv'
  <1>1. ServiceInv'
    BY DEF IInv, ServiceInv, GoesOn
  <1>2. ASSUME NEW d \in Clients \ {c}
        PROVE  ClientInv(d)'
    <2>1. ClientInv(d) /\ (Served(d) => Served(d)') /\ (Wanted => Wanted')
      BY <1>2 DEF IInv, GoesOn
    <2>2. \A n : Reachable(n)' <=> Reachable(n)
      BY DEF Reachable, GoesOn
    <2>3. service'.boot = service.boot
      BY DEF GoesOn
    <2> QED
      BY <1>2, <2>1, <2>2, <2>3 DEF ClientInv, BootsInv, CheckedInv, LinkInv, OthersStand
  <1> QED
    BY <1>1, <1>2 DEF IInv

LEMMA GoesUpKeeps ==
  ASSUME TypeInv, IInv, NEW c \in Clients, GoesUp, OthersStand(c), ClientInv(c)'
  PROVE  IInv'
  <1>1. /\ service'.up /\ service'.boot = service.boot + 1
        /\ service'.pids = service'.listeners /\ ~service'.discovering
    BY StartedFacts DEF GoesUp
  <1>2. service.boot \in Nat
    BY ServiceAssumption DEF TypeInv, ServiceOK, ServiceRecord, Boots
  <1>3. ServiceInv'
    BY <1>1, <1>2 DEF ServiceInv, NoBoot
  <1>4. ASSUME NEW d \in Clients \ {c}
        PROVE  ClientInv(d)'
    <2>1. ClientInv(d)
      BY <1>4 DEF IInv
    <2>2. \A n : n <= service.boot /\ n \in Nat => ~Reachable(n)' /\ n <= service'.boot
      BY <1>1, <1>2 DEF Reachable
    <2>3. adaptor[d] \in Nat /\ link[d] \in Nat /\ js[d].boot \in Nat /\ pool[d].boot \in Nat
      BY DEF TypeInv, ClientsOK, ThreadsOK, JsThread, PoolThread, Boots
    <2> QED
      BY <1>4, <2>1, <2>2, <2>3 DEF ClientInv, BootsInv, CheckedInv, LinkInv, OthersStand
  <1> QED
    BY <1>3, <1>4 DEF IInv

LEMMA JsMoves ==
  ASSUME ThreadsOK, NEW c \in Clients, NEW r \in JsThread, JsIs(c, r)
  PROVE  /\ js' \in [Clients -> JsThread]
         /\ js'[c] = r /\ \A d \in Clients \ {c} : js'[d] = js[d]
  BY DEF ThreadsOK, JsIs

LEMMA PoolMoves ==
  ASSUME ThreadsOK, NEW c \in Clients, NEW r \in PoolThread, PoolIs(c, r)
  PROVE  /\ pool' \in [Clients -> PoolThread]
         /\ pool'[c] = r /\ \A d \in Clients \ {c} : pool'[d] = pool[d]
  BY DEF ThreadsOK, PoolIs

LEMMA RestsAreThreads == Resting \in JsThread /\ Unoccupied \in PoolThread
  BY ServiceAssumption
  DEF Resting, Unoccupied, JsThread, PoolThread, NoBoot, Boots, Methods, PageMethods

\* What every step of a client starts from.
LEMMA Parts ==
  ASSUME TypeInv, IInv, NEW c \in Clients
  PROVE  /\ ServiceOK /\ FlagsOK /\ ClientsOK /\ ThreadsOK /\ ServiceInv /\ ClientInv(c)
         /\ NoBoot \in Boots /\ NoBoot <= service.boot
  BY ServiceAssumption DEF TypeInv, IInv, NoBoot, Boots, ServiceOK, ServiceRecord

LEMMA LetsGo ==
  ASSUME ThreadsOK, ClientsOK, NEW c \in Clients, NEW r \in JsThread, LetGo(c, r)
  PROVE  /\ js' \in [Clients -> JsThread] /\ link' \in [Clients -> Boots]
         /\ js'[c] = r /\ \A d \in Clients \ {c} : js'[d] = js[d]
         /\ link'[c] \in {link[c], NoBoot} /\ \A d \in Clients \ {c} : link'[d] = link[d]
  <1>1. NoBoot \in Boots
    BY ServiceAssumption DEF NoBoot, Boots
  <1> QED
    BY <1>1, JsMoves DEF ClientsOK, LetGo

\* A thread of the client library that forgets adaptor_.
LEMMA Forgets ==
  ASSUME ThreadsOK, ClientsOK, NEW c \in Clients, ForgetAdaptor(c)
  PROVE  /\ js' \in [Clients -> JsThread] /\ adaptor' \in [Clients -> Boots]
         /\ link' \in [Clients -> Boots]
         /\ js'[c].stage = js[c].stage /\ js'[c].boot = js[c].boot
         /\ adaptor'[c] = NoBoot /\ link'[c] \in {link[c], NoBoot}
         /\ \A d \in Clients \ {c} :
              js'[d] = js[d] /\ adaptor'[d] = adaptor[d] /\ link'[d] = link[d]
  <1>1. NoBoot \in Boots
    BY ServiceAssumption DEF NoBoot, Boots
  <1> QED
    BY <1>1 DEF ThreadsOK, ClientsOK, JsThread, ForgetAdaptor

\* GetAdaptor finds the service, or has it loaded.
LEMMA Gets ==
  ASSUME TypeInv, IInv, NEW c \in Clients, NEW n \in 1..MaxBoots, GetAdaptor(c, n)
  PROVE  /\ GoesOn({}) \/ GoesUp
         /\ n \in Boots /\ n <= service'.boot /\ service.boot <= service'.boot
         /\ adaptor' \in [Clients -> Boots]
         /\ adaptor'[c] = n /\ \A d \in Clients \ {c} : adaptor'[d] = adaptor[d]
  <1>1. ServiceOK /\ ServiceInv /\ BootsInv(c) /\ adaptor \in [Clients -> Boots]
    BY DEF TypeInv, IInv, ClientInv, ClientsOK
  <1>2. n \in Boots /\ service.boot \in Nat
    BY <1>1, ServiceAssumption DEF Boots, ServiceOK, ServiceRecord
  <1>3. CASE adaptor[c] = n /\ UNCHANGED <<service, adaptor>>
    BY <1>1, <1>2, <1>3, Unchanging DEF BootsInv
  <1>4. CASE adaptor' = [adaptor EXCEPT ![c] = n] /\ Reachable(n) /\ UNCHANGED service
    BY <1>1, <1>2, <1>4, Unchanging DEF Reachable
  <1>5. CASE /\ adaptor' = [adaptor EXCEPT ![c] = n]
             /\ ~service.up /\ n = service.boot + 1 /\ service' = Started(n)
    BY <1>1, <1>2, <1>5, StartedFacts DEF GoesUp
  <1> QED
    BY <1>3, <1>4, <1>5 DEF GetAdaptor

(***************************************************************************)
(* The steps, one lemma each.                                              *)
(***************************************************************************)
LEMMA OnStep ==
  ASSUME TypeInv, IInv, NEW c \in Clients, On(c)
  PROVE  TypeInv' /\ IInv'
  <1>1. /\ ServiceOK /\ FlagsOK /\ ClientsOK /\ ThreadsOK /\ ServiceInv /\ ClientInv(c)
        /\ NoBoot \in Boots /\ NoBoot <= service.boot
    BY Parts
  <1>2. GoesOn({c})
    BY <1>1, Unchanging DEF On
  <1>3. [Resting EXCEPT !.stage = "adaptor"] \in JsThread
    BY RestsAreThreads DEF JsThread
  <1>4. /\ js' \in [Clients -> JsThread]
        /\ js'[c] \in {js[c], [Resting EXCEPT !.stage = "adaptor"]}
        /\ \A d \in Clients \ {c} : js'[d] = js[d]
    BY <1>1, <1>3, JsMoves DEF On, ThreadsOK
  <1>5. FlagsOK' /\ UNCHANGED <<service, dying, alive, adaptor, link, notice, pool, calls>>
    BY <1>1 DEF On, FlagsOK
  <1>6. TypeInv'
    BY <1>1, <1>2, <1>4, <1>5 DEF TypeInv, ClientsOK, ThreadsOK, GoesOn, ServiceOK
  <1>7. OthersStand(c)
    BY <1>4, <1>5 DEF OthersStand
  <1>8. js'[c].stage \in {"idle", "adaptor"} /\ js'[c].boot <= service.boot
    BY <1>1, <1>4 DEF On, ClientInv, BootsInv, Resting
  <1>9. ClientInv(c)'
    BY <1>1, <1>2, <1>5, <1>8
    DEF ClientInv, BootsInv, CheckedInv, LinkInv, Served, Wanted, GoesOn, Reachable
  <1> QED
    BY <1>1, <1>2, <1>6, <1>7, <1>9, GoesOnKeeps

LEMMA RegisterFailsStep ==
  ASSUME TypeInv, IInv, NEW c \in Clients, RegisterFails(c)
  PROVE  TypeInv' /\ IInv'
  <1>1. /\ ServiceOK /\ FlagsOK /\ ClientsOK /\ ThreadsOK /\ ServiceInv /\ ClientInv(c)
        /\ NoBoot \in Boots /\ NoBoot <= service.boot
    BY Parts
  <1>2. GoesOn({c})
    BY <1>1, Unchanging DEF RegisterFails
  <1>3. Resting \in JsThread
    BY <1>1, RestsAreThreads DEF JsThread, ThreadsOK
  <1>4. /\ js' \in [Clients -> JsThread]
        /\ js'[c] = Resting /\ \A d \in Clients \ {c} : js'[d] = js[d]
        /\ link' \in [Clients -> Boots]
        /\ link'[c] \in {link[c], NoBoot} /\ \A d \in Clients \ {c} : link'[d] = link[d]
    BY <1>1, <1>3, LetsGo DEF RegisterFails
  <1>5. TypeInv'
    BY <1>1, <1>2, <1>4
    DEF TypeInv, FlagsOK, ClientsOK, ThreadsOK, GoesOn, ServiceOK, RegisterFails
  <1>6. OthersStand(c)
    BY <1>1, <1>2, <1>4 DEF OthersStand, ClientsOK, FlagsOK, Resting, RegisterFails
  <1>7. ClientInv(c)'
    BY <1>1, <1>2, <1>4
    DEF ClientInv, BootsInv, CheckedInv, LinkInv, Served, Wanted, GoesOn, Reachable,
        ClientsOK, FlagsOK, Resting, RegisterFails
  <1> QED
    BY <1>1, <1>2, <1>5, <1>6, <1>7, GoesOnKeeps

LEMMA AddDeathRecipientStep ==
  ASSUME TypeInv, IInv, NEW c \in Clients, AddDeathRecipient(c)
  PROVE  TypeInv' /\ IInv'
  <1>1. /\ ServiceOK /\ FlagsOK /\ ClientsOK /\ ThreadsOK /\ ServiceInv /\ ClientInv(c)
        /\ NoBoot \in Boots /\ NoBoot <= service.boot
    BY Parts
  <1>2. GoesOn({c})
    BY <1>1, Unchanging DEF AddDeathRecipient
  <1>3. [js[c] EXCEPT !.stage = "record"] \in JsThread
    BY <1>1, RestsAreThreads DEF JsThread, ThreadsOK
  <1>4. /\ js' \in [Clients -> JsThread]
        /\ js'[c] = [js[c] EXCEPT !.stage = "record"]
        /\ \A d \in Clients \ {c} : js'[d] = js[d]
    BY <1>1, <1>3, JsMoves DEF AddDeathRecipient
  <1>5. TypeInv'
    BY <1>1, <1>2, <1>4
    DEF TypeInv, FlagsOK, ClientsOK, ThreadsOK, GoesOn, ServiceOK, JsThread,
        AddDeathRecipient
  <1>6. OthersStand(c)
    BY <1>1, <1>2, <1>4
    DEF OthersStand, ClientsOK, FlagsOK, ThreadsOK, JsThread, AddDeathRecipient
  <1>7. ClientInv(c)'
    BY <1>1, <1>2, <1>4
    DEF ClientInv, BootsInv, CheckedInv, LinkInv, Served, Wanted, GoesOn, Reachable,
        ClientsOK, FlagsOK, ThreadsOK, JsThread, AddDeathRecipient
  <1> QED
    BY <1>1, <1>2, <1>5, <1>6, <1>7, GoesOnKeeps

LEMMA RecordStep ==
  ASSUME TypeInv, IInv, NEW c \in Clients, Record(c)
  PROVE  TypeInv' /\ IInv'
  <1>1. /\ ServiceOK /\ FlagsOK /\ ClientsOK /\ ThreadsOK /\ ServiceInv /\ ClientInv(c)
        /\ NoBoot \in Boots /\ NoBoot <= service.boot
    BY Parts
  <1>2. GoesOn({c})
    BY <1>1, Unchanging DEF Record
  <1>3. [Resting EXCEPT !.stage = "subscribe"] \in JsThread
    BY <1>1, RestsAreThreads DEF JsThread, ThreadsOK
  <1>4. /\ js' \in [Clients -> JsThread]
        /\ js'[c] = [Resting EXCEPT !.stage = "subscribe"]
        /\ \A d \in Clients \ {c} : js'[d] = js[d]
        /\ link' \in [Clients -> Boots]
        /\ link'[c] \in {link[c], NoBoot} /\ \A d \in Clients \ {c} : link'[d] = link[d]
    BY <1>1, <1>3, LetsGo DEF Record
  <1>5. TypeInv'
    BY <1>1, <1>2, <1>4
    DEF TypeInv, FlagsOK, ClientsOK, ThreadsOK, GoesOn, ServiceOK, Record
  <1>6. OthersStand(c)
    BY <1>1, <1>2, <1>4 DEF OthersStand, ClientsOK, FlagsOK, Resting, Record
  <1>7. ClientInv(c)'
    BY <1>1, <1>2, <1>4
    DEF ClientInv, BootsInv, CheckedInv, LinkInv, Served, Wanted, GoesOn, Reachable,
        ClientsOK, FlagsOK, Resting, Record
  <1> QED
    BY <1>1, <1>2, <1>5, <1>6, <1>7, GoesOnKeeps

LEMMA AddCallbackStep ==
  ASSUME TypeInv, IInv, NEW c \in Clients, AddCallback(c)
  PROVE  TypeInv' /\ IInv'
  <1>1. /\ ServiceOK /\ FlagsOK /\ ClientsOK /\ ThreadsOK /\ ServiceInv /\ ClientInv(c)
        /\ NoBoot \in Boots /\ NoBoot <= service.boot
    BY Parts
  <1>2. GoesOn({c})
    BY <1>1, Unchanging DEF AddCallback
  <1>3. Resting \in JsThread
    BY <1>1, RestsAreThreads DEF JsThread, ThreadsOK
  <1>4. /\ js' \in [Clients -> JsThread]
        /\ js'[c] = Resting /\ \A d \in Clients \ {c} : js'[d] = js[d]
    BY <1>1, <1>3, JsMoves DEF AddCallback
  <1>5. TypeInv'
    BY <1>1, <1>2, <1>4
    DEF TypeInv, FlagsOK, ClientsOK, ThreadsOK, GoesOn, ServiceOK, AddCallback
  <1>6. OthersStand(c)
    BY <1>1, <1>2, <1>4 DEF OthersStand, ClientsOK, FlagsOK, Resting, AddCallback
  <1>7. ClientInv(c)'
    BY <1>1, <1>2, <1>4
    DEF ClientInv, BootsInv, CheckedInv, LinkInv, Served, Wanted, GoesOn, Reachable,
        ClientsOK, FlagsOK, Resting, AddCallback
  <1> QED
    BY <1>1, <1>2, <1>5, <1>6, <1>7, GoesOnKeeps

LEMMA OffStep ==
  ASSUME TypeInv, IInv, NEW c \in Clients, Off(c)
  PROVE  TypeInv' /\ IInv'
  <1>1. /\ ServiceOK /\ FlagsOK /\ ClientsOK /\ ThreadsOK /\ ServiceInv /\ ClientInv(c)
        /\ NoBoot \in Boots /\ NoBoot <= service.boot
    BY Parts
  <1>2. GoesOn({c})
    BY <1>1, Unchanging DEF Off
  <1>3. [Resting EXCEPT !.stage = "unadaptor"] \in JsThread
    BY <1>1, RestsAreThreads DEF JsThread, ThreadsOK
  <1>4. /\ js' \in [Clients -> JsThread]
        /\ js'[c] = [Resting EXCEPT !.stage = "unadaptor"]
        /\ \A d \in Clients \ {c} : js'[d] = js[d]
    BY <1>1, <1>3, JsMoves DEF Off
  <1>5. TypeInv'
    BY <1>1, <1>2, <1>4 DEF TypeInv, FlagsOK, ClientsOK, ThreadsOK, GoesOn, ServiceOK, Off
  <1>6. OthersStand(c)
    BY <1>1, <1>2, <1>4 DEF OthersStand, ClientsOK, FlagsOK, Resting, Off
  <1>7. ClientInv(c)'
    BY <1>1, <1>2, <1>4
    DEF ClientInv, BootsInv, CheckedInv, LinkInv, Served, Wanted, GoesOn, Reachable,
        ClientsOK, FlagsOK, Resting, Off
  <1> QED
    BY <1>1, <1>2, <1>5, <1>6, <1>7, GoesOnKeeps

LEMMA UnregisterFailsStep ==
  ASSUME TypeInv, IInv, NEW c \in Clients, UnregisterFails(c)
  PROVE  TypeInv' /\ IInv'
  <1>1. /\ ServiceOK /\ FlagsOK /\ ClientsOK /\ ThreadsOK /\ ServiceInv /\ ClientInv(c)
        /\ NoBoot \in Boots /\ NoBoot <= service.boot
    BY Parts
  <1>2. GoesOn({c})
    BY <1>1, Unchanging DEF UnregisterFails
  <1>3. Resting \in JsThread
    BY <1>1, RestsAreThreads DEF JsThread, ThreadsOK
  <1>4. /\ js' \in [Clients -> JsThread]
        /\ js'[c] = Resting /\ \A d \in Clients \ {c} : js'[d] = js[d]
    BY <1>1, <1>3, JsMoves DEF UnregisterFails
  <1>5. TypeInv'
    BY <1>1, <1>2, <1>4
    DEF TypeInv, FlagsOK, ClientsOK, ThreadsOK, GoesOn, ServiceOK, UnregisterFails
  <1>6. OthersStand(c)
    BY <1>1, <1>2, <1>4 DEF OthersStand, ClientsOK, FlagsOK, Resting, UnregisterFails
  <1>7. ClientInv(c)'
    BY <1>1, <1>2, <1>4
    DEF ClientInv, BootsInv, CheckedInv, LinkInv, Served, Wanted, GoesOn, Reachable,
        ClientsOK, FlagsOK, Resting, UnregisterFails
  <1> QED
    BY <1>1, <1>2, <1>5, <1>6, <1>7, GoesOnKeeps

LEMMA CallStep ==
  ASSUME TypeInv, IInv, NEW c \in Clients, NEW method \in Asked, Call(c, method)
  PROVE  TypeInv' /\ IInv'
  <1>1. /\ ServiceOK /\ FlagsOK /\ ClientsOK /\ ThreadsOK /\ ServiceInv /\ ClientInv(c)
        /\ NoBoot \in Boots /\ NoBoot <= service.boot
    BY Parts
  <1>2. GoesOn({c})
    BY <1>1, Unchanging DEF Call
  <1>3. [stage |-> "adaptor", boot |-> NoBoot, method |-> method] \in PoolThread
    BY <1>1, RestsAreThreads, ServiceAssumption DEF PoolThread, ThreadsOK
  <1>4. /\ pool' \in [Clients -> PoolThread]
        /\ pool'[c] = [stage |-> "adaptor", boot |-> NoBoot, method |-> method]
        /\ \A d \in Clients \ {c} : pool'[d] = pool[d]
    BY <1>1, <1>3, PoolMoves DEF Call
  <1>5. recipient' \in [Clients -> BOOLEAN] /\ calls' \in [Clients -> 0..MaxCalls]
    BY <1>1, ServiceAssumption DEF Call, FlagsOK, ClientsOK
  <1>6. TypeInv'
    BY <1>1, <1>2, <1>4, <1>5
    DEF TypeInv, FlagsOK, ClientsOK, ThreadsOK, GoesOn, ServiceOK, Call
  <1>7. OthersStand(c)
    BY <1>1, <1>2, <1>4 DEF OthersStand, ClientsOK, FlagsOK, Call
  <1>8. ClientInv(c)'
    BY <1>1, <1>2, <1>4
    DEF ClientInv, BootsInv, CheckedInv, LinkInv, Served, Wanted, GoesOn, Reachable,
        ClientsOK, FlagsOK, Call
  <1> QED
    BY <1>1, <1>2, <1>6, <1>7, <1>8, GoesOnKeeps

LEMMA StartDiscoveryStep ==
  ASSUME TypeInv, IInv, NEW c \in Clients, StartDiscovery(c)
  PROVE  TypeInv' /\ IInv'
  <1>1. /\ ServiceOK /\ FlagsOK /\ ClientsOK /\ ThreadsOK /\ ServiceInv /\ ClientInv(c)
        /\ NoBoot \in Boots /\ NoBoot <= service.boot
    BY Parts
  <1>2. GoesOn({c})
    BY <1>1, Unchanging DEF StartDiscovery, Permitted
  <1>3. [pool[c] EXCEPT !.stage = "checked"] \in PoolThread
    BY <1>1, RestsAreThreads DEF PoolThread, ThreadsOK
  <1>4. /\ pool' \in [Clients -> PoolThread]
        /\ pool'[c] = [pool[c] EXCEPT !.stage = "checked"]
        /\ \A d \in Clients \ {c} : pool'[d] = pool[d]
    BY <1>1, <1>3, PoolMoves DEF StartDiscovery
  <1>5. TypeInv'
    BY <1>1, <1>2, <1>4
    DEF TypeInv, FlagsOK, ClientsOK, ThreadsOK, GoesOn, ServiceOK, Permitted, StartDiscovery
  <1>6. OthersStand(c)
    BY <1>1, <1>2, <1>4
    DEF OthersStand, ClientsOK, FlagsOK, Permitted, ThreadsOK, PoolThread, StartDiscovery
  <1>7. ClientInv(c)'
    BY <1>1, <1>2, <1>4
    DEF ClientInv, BootsInv, CheckedInv, LinkInv, Served, Wanted, GoesOn, Reachable,
        ClientsOK, FlagsOK, Permitted, ThreadsOK, PoolThread, StartDiscovery
  <1> QED
    BY <1>1, <1>2, <1>5, <1>6, <1>7, GoesOnKeeps

LEMMA OtherRequestStep ==
  ASSUME TypeInv, IInv, NEW c \in Clients, OtherRequest(c)
  PROVE  TypeInv' /\ IInv'
  <1>1. /\ ServiceOK /\ FlagsOK /\ ClientsOK /\ ThreadsOK /\ ServiceInv /\ ClientInv(c)
        /\ NoBoot \in Boots /\ NoBoot <= service.boot
    BY Parts
  <1>2. GoesOn({c})
    BY <1>1
    DEF OtherRequest, Permitted, GoesOn, ServiceOK, ServiceRecord, ServiceInv, Wanted,
        Served
  <1>3. Unoccupied \in PoolThread
    BY <1>1, RestsAreThreads DEF PoolThread, ThreadsOK
  <1>4. /\ pool' \in [Clients -> PoolThread]
        /\ pool'[c] = Unoccupied /\ \A d \in Clients \ {c} : pool'[d] = pool[d]
    BY <1>1, <1>3, PoolMoves DEF OtherRequest
  <1>5. TypeInv'
    BY <1>1, <1>2, <1>4
    DEF TypeInv, FlagsOK, ClientsOK, ThreadsOK, GoesOn, ServiceOK, Permitted, OtherRequest
  <1>6. OthersStand(c)
    BY <1>1, <1>2, <1>4
    DEF OthersStand, ClientsOK, FlagsOK, Permitted, Unoccupied, OtherRequest
  <1>7. ClientInv(c)'
    BY <1>1, <1>2, <1>4
    DEF ClientInv, BootsInv, CheckedInv, LinkInv, Served, Wanted, GoesOn, Reachable,
        ClientsOK, FlagsOK, Permitted, Unoccupied, OtherRequest
  <1> QED
    BY <1>1, <1>2, <1>5, <1>6, <1>7, GoesOnKeeps

LEMMA DiscoverStep ==
  ASSUME TypeInv, IInv, NEW c \in Clients, Discover(c)
  PROVE  TypeInv' /\ IInv'
  <1>1. /\ ServiceOK /\ FlagsOK /\ ClientsOK /\ ThreadsOK /\ ServiceInv /\ ClientInv(c)
        /\ NoBoot \in Boots /\ NoBoot <= service.boot
    BY Parts
  <1>2. GoesOn({c})
    BY <1>1
    DEF Discover, GoesOn, ServiceOK, ServiceRecord, ServiceInv, ClientInv, CheckedInv,
        Wanted, Served
  <1>3. Unoccupied \in PoolThread
    BY <1>1, RestsAreThreads DEF PoolThread, ThreadsOK
  <1>4. /\ pool' \in [Clients -> PoolThread]
        /\ pool'[c] = Unoccupied /\ \A d \in Clients \ {c} : pool'[d] = pool[d]
    BY <1>1, <1>3, PoolMoves DEF Discover
  <1>5. TypeInv'
    BY <1>1, <1>2, <1>4
    DEF TypeInv, FlagsOK, ClientsOK, ThreadsOK, GoesOn, ServiceOK, Discover
  <1>6. OthersStand(c)
    BY <1>1, <1>2, <1>4 DEF OthersStand, ClientsOK, FlagsOK, Unoccupied, Discover
  <1>7. ClientInv(c)'
    BY <1>1, <1>2, <1>4
    DEF ClientInv, BootsInv, CheckedInv, LinkInv, Served, Wanted, GoesOn, Reachable,
        ClientsOK, FlagsOK, Unoccupied, Discover
  <1> QED
    BY <1>1, <1>2, <1>5, <1>6, <1>7, GoesOnKeeps

LEMMA ServiceDiedStep ==
  ASSUME TypeInv, IInv, NEW c \in Clients, ServiceDied(c)
  PROVE  TypeInv' /\ IInv'
  <1>1. /\ ServiceOK /\ FlagsOK /\ ClientsOK /\ ThreadsOK /\ ServiceInv /\ ClientInv(c)
        /\ NoBoot \in Boots /\ NoBoot <= service.boot
    BY Parts
  <1>2. GoesOn({c})
    BY <1>1, Unchanging DEF ServiceDied
  <1>3. TypeInv'
    BY <1>1, <1>2 DEF TypeInv, FlagsOK, ClientsOK, ThreadsOK, GoesOn, ServiceOK, ServiceDied
  <1>4. OthersStand(c)
    BY <1>1, <1>2 DEF OthersStand, ClientsOK, FlagsOK, ServiceDied
  <1>5. ClientInv(c)'
    BY <1>1, <1>2
    DEF ClientInv, BootsInv, CheckedInv, LinkInv, Served, Wanted, GoesOn, Reachable,
        ClientsOK, FlagsOK, ServiceDied
  <1> QED
    BY <1>1, <1>2, <1>3, <1>4, <1>5, GoesOnKeeps

LEMMA ReportServiceDiedStep ==
  ASSUME TypeInv, IInv, NEW c \in Clients, ReportServiceDied(c)
  PROVE  TypeInv' /\ IInv'
  <1>1. /\ ServiceOK /\ FlagsOK /\ ClientsOK /\ ThreadsOK /\ ServiceInv /\ ClientInv(c)
        /\ NoBoot \in Boots /\ NoBoot <= service.boot
    BY Parts
  <1>2. GoesOn({c})
    BY <1>1, Unchanging DEF ReportServiceDied
  <1>3. TypeInv'
    BY <1>1, <1>2
    DEF TypeInv, FlagsOK, ClientsOK, ThreadsOK, GoesOn, ServiceOK, Tell, ReportServiceDied
  <1>4. OthersStand(c)
    BY <1>1, <1>2 DEF OthersStand, ClientsOK, FlagsOK, ReportServiceDied
  <1>5. ClientInv(c)'
    BY <1>1, <1>2
    DEF ClientInv, BootsInv, CheckedInv, LinkInv, Served, Wanted, GoesOn, Reachable,
        ClientsOK, FlagsOK, ReportServiceDied
  <1> QED
    BY <1>1, <1>2, <1>3, <1>4, <1>5, GoesOnKeeps

LEMMA ClientDiedStep ==
  ASSUME TypeInv, IInv, NEW c \in Clients, ClientDied(c)
  PROVE  TypeInv' /\ IInv'
  <1>1. /\ ServiceOK /\ FlagsOK /\ ClientsOK /\ ThreadsOK /\ ServiceInv /\ ClientInv(c)
        /\ NoBoot \in Boots /\ NoBoot <= service.boot
    BY Parts
  <1>2. GoesOn({c})
    BY <1>1 DEF ClientDied, GoesOn, ServiceOK, ServiceRecord, ServiceInv, Wanted, Served
  <1>3. TypeInv'
    BY <1>1, <1>2
    DEF TypeInv, FlagsOK, ClientsOK, ThreadsOK, GoesOn, ServiceOK, clientVars, ClientDied
  <1>4. OthersStand(c)
    BY <1>1, <1>2 DEF OthersStand, ClientsOK, FlagsOK, clientVars, ThreadsOK, ClientDied
  <1>5. ClientInv(c)'
    BY <1>1, <1>2
    DEF ClientInv, BootsInv, CheckedInv, LinkInv, Served, Wanted, GoesOn, Reachable,
        ClientsOK, FlagsOK, clientVars, ThreadsOK, ClientDied
  <1> QED
    BY <1>1, <1>2, <1>3, <1>4, <1>5, GoesOnKeeps

LEMMA ReleaseServiceResourcesStep ==
  ASSUME TypeInv, IInv, NEW c \in Clients, ReleaseServiceResources(c)
  PROVE  TypeInv' /\ IInv'
  <1>1. /\ ServiceOK /\ FlagsOK /\ ClientsOK /\ ThreadsOK /\ ServiceInv /\ ClientInv(c)
        /\ NoBoot \in Boots /\ NoBoot <= service.boot
    BY Parts
  <1>2. GoesOn({c})
    BY <1>1, RemoveGoesOn DEF ReleaseServiceResources
  <1>3. TypeInv'
    BY <1>1, <1>2
    DEF TypeInv, FlagsOK, ClientsOK, ThreadsOK, GoesOn, ServiceOK, clientVars,
        ReleaseServiceResources
  <1>4. OthersStand(c)
    BY <1>1, <1>2
    DEF OthersStand, ClientsOK, FlagsOK, clientVars, ThreadsOK, ReleaseServiceResources
  <1>5. ClientInv(c)'
    BY <1>1, <1>2
    DEF ClientInv, BootsInv, CheckedInv, LinkInv, Served, Wanted, GoesOn, Reachable,
        ClientsOK, FlagsOK, clientVars, ThreadsOK, ReleaseServiceResources
  <1> QED
    BY <1>1, <1>2, <1>3, <1>4, <1>5, GoesOnKeeps

LEMMA ReleaseAfterDeathStep ==
  ASSUME TypeInv, IInv, NEW c \in Clients, ReleaseAfterDeath(c)
  PROVE  TypeInv' /\ IInv'
  <1>1. /\ ServiceOK /\ FlagsOK /\ ClientsOK /\ ThreadsOK /\ ServiceInv /\ ClientInv(c)
        /\ NoBoot \in Boots /\ NoBoot <= service.boot
    BY Parts
  <1>2. GoesOn({c})
    BY <1>1, ReleaseGoesOn DEF ReleaseAfterDeath
  <1>3. TypeInv'
    BY <1>1, <1>2
    DEF TypeInv, FlagsOK, ClientsOK, ThreadsOK, GoesOn, ServiceOK, Tell, ReleaseAfterDeath
  <1>4. OthersStand(c)
    BY <1>1, <1>2 DEF OthersStand, ClientsOK, FlagsOK, ThreadsOK, ReleaseAfterDeath
  <1>5. ClientInv(c)'
    BY <1>1, <1>2
    DEF ClientInv, BootsInv, CheckedInv, LinkInv, Served, Wanted, GoesOn, Reachable,
        ClientsOK, FlagsOK, ThreadsOK, ReleaseAfterDeath
  <1> QED
    BY <1>1, <1>2, <1>3, <1>4, <1>5, GoesOnKeeps

LEMMA UnregisterListenerStep ==
  ASSUME TypeInv, IInv, NEW c \in Clients, UnregisterListener(c)
  PROVE  TypeInv' /\ IInv'
  <1>1. /\ ServiceOK /\ FlagsOK /\ ClientsOK /\ ThreadsOK /\ ServiceInv /\ ClientInv(c)
        /\ NoBoot \in Boots /\ NoBoot <= service.boot
    BY Parts
  <1>2. GoesOn({c})
    BY <1>1, RemoveGoesOn, Unchanging DEF UnregisterListener
  <1>3. Resting \in JsThread
    BY <1>1, RestsAreThreads DEF JsThread, ThreadsOK
  <1>4. /\ js' \in [Clients -> JsThread]
        /\ js'[c] = Resting /\ \A d \in Clients \ {c} : js'[d] = js[d]
    BY <1>1, <1>3, JsMoves DEF UnregisterListener
  <1>5. TypeInv'
    BY <1>1, <1>2, <1>4
    DEF TypeInv, FlagsOK, ClientsOK, ThreadsOK, GoesOn, ServiceOK, UnregisterListener
  <1>6. OthersStand(c)
    BY <1>1, <1>2, <1>4 DEF OthersStand, ClientsOK, FlagsOK, Resting, UnregisterListener
  <1>7. ClientInv(c)'
    BY <1>1, <1>2, <1>4
    DEF ClientInv, BootsInv, CheckedInv, LinkInv, Served, Wanted, GoesOn, Reachable,
        ClientsOK, FlagsOK, Resting, UnregisterListener
  <1> QED
    BY <1>1, <1>2, <1>5, <1>6, <1>7, GoesOnKeeps

LEMMA ReleaseClientResourcesStep ==
  ASSUME TypeInv, IInv, NEW c \in Clients, ReleaseClientResources(c)
  PROVE  TypeInv' /\ IInv'
  <1>1. /\ ServiceOK /\ FlagsOK /\ ClientsOK /\ ThreadsOK /\ ServiceInv /\ ClientInv(c)
        /\ NoBoot \in Boots /\ NoBoot <= service.boot
    BY Parts
  <1>2. GoesOn({c})
    BY <1>1, Unchanging DEF ReleaseClientResources
  <1>3. /\ js' \in [Clients -> JsThread] /\ adaptor' \in [Clients -> Boots]
        /\ link' \in [Clients -> Boots]
        /\ js'[c].stage = js[c].stage /\ js'[c].boot = js[c].boot
        /\ adaptor'[c] = NoBoot /\ link'[c] \in {link[c], NoBoot}
        /\ \A d \in Clients \ {c} :
             js'[d] = js[d] /\ adaptor'[d] = adaptor[d] /\ link'[d] = link[d]
    BY <1>1, Forgets DEF ReleaseClientResources
  <1>4. TypeInv'
    BY <1>1, <1>2, <1>3
    DEF TypeInv, FlagsOK, ClientsOK, ThreadsOK, GoesOn, ServiceOK, ReleaseClientResources
  <1>5. OthersStand(c)
    BY <1>1, <1>2, <1>3 DEF OthersStand, ClientsOK, FlagsOK, ReleaseClientResources
  <1>6. ClientInv(c)'
    BY <1>1, <1>2, <1>3
    DEF ClientInv, BootsInv, CheckedInv, LinkInv, Served, Wanted, GoesOn, Reachable,
        ClientsOK, FlagsOK, ReleaseClientResources
  <1> QED
    BY <1>1, <1>2, <1>4, <1>5, <1>6, GoesOnKeeps

LEMMA ReleaseStep ==
  ASSUME TypeInv, IInv, NEW c \in Clients, Release(c)
  PROVE  TypeInv' /\ IInv'
  <1>1. /\ ServiceOK /\ FlagsOK /\ ClientsOK /\ ThreadsOK /\ ServiceInv /\ ClientInv(c)
        /\ NoBoot \in Boots /\ NoBoot <= service.boot
    BY Parts
  <1>2. GoesOn({c})
    BY <1>1, ReleaseGoesOn DEF Release
  <1>3. Unoccupied \in PoolThread
    BY <1>1, RestsAreThreads DEF PoolThread, ThreadsOK
  <1>4. /\ pool' \in [Clients -> PoolThread]
        /\ pool'[c] = Unoccupied /\ \A d \in Clients \ {c} : pool'[d] = pool[d]
    BY <1>1, <1>3, PoolMoves DEF Release
  <1>5. /\ js' \in [Clients -> JsThread] /\ adaptor' \in [Clients -> Boots]
        /\ link' \in [Clients -> Boots]
        /\ js'[c].stage = js[c].stage /\ js'[c].boot = js[c].boot
        /\ adaptor'[c] = NoBoot /\ link'[c] \in {link[c], NoBoot}
        /\ \A d \in Clients \ {c} :
             js'[d] = js[d] /\ adaptor'[d] = adaptor[d] /\ link'[d] = link[d]
    BY <1>1, Forgets DEF Release
  <1>6. TypeInv'
    BY <1>1, <1>2, <1>4, <1>5
    DEF TypeInv, FlagsOK, ClientsOK, ThreadsOK, GoesOn, ServiceOK, Permitted, Tell, Release
  <1>7. OthersStand(c)
    BY <1>1, <1>2, <1>4, <1>5
    DEF OthersStand, ClientsOK, FlagsOK, Unoccupied, Permitted, ThreadsOK, Release
  <1>8. service'.unload /\ UNCHANGED <<alive, dying>>
    BY <1>1, ReleaseGoesOn DEF Release, Permitted
  <1>9. ClientInv(c)'
    BY <1>1, <1>2, <1>4, <1>5, <1>8
    DEF ClientInv, BootsInv, CheckedInv, LinkInv, Served, Wanted, GoesOn, Unoccupied
  <1> QED
    BY <1>1, <1>2, <1>6, <1>7, <1>9, GoesOnKeeps

LEMMA RegisterListenerStep ==
  ASSUME TypeInv, IInv, NEW c \in Clients, RegisterListener(c)
  PROVE  TypeInv' /\ IInv'
  <1>1. /\ ServiceOK /\ FlagsOK /\ ClientsOK /\ ThreadsOK /\ ServiceInv /\ ClientInv(c)
        /\ NoBoot \in Boots /\ NoBoot <= service.boot
    BY Parts
  <1>2. [js[c] EXCEPT !.stage = "link"] \in JsThread
    BY <1>1 DEF ThreadsOK, JsThread
  <1>3. PICK r \in {Resting, [js[c] EXCEPT !.stage = "link"]} : LetGo(c, r)
    BY DEF RegisterListener
  <1>4. r \in JsThread
    BY <1>2, RestsAreThreads
  <1>5. /\ js' \in [Clients -> JsThread] /\ link' \in [Clients -> Boots]
        /\ js'[c] = r /\ \A d \in Clients \ {c} : js'[d] = js[d]
        /\ link'[c] \in {link[c], NoBoot} /\ \A d \in Clients \ {c} : link'[d] = link[d]
    BY <1>1, <1>3, <1>4, LetsGo
  <1>6. FlagsOK' /\ UNCHANGED <<dying, alive, adaptor, notice, pool, calls>>
    BY <1>1 DEF RegisterListener, FlagsOK, Tell
  <1>7. GoesOn({c}) /\ Served(c)'
    <2> DEFINE added == AddListenerLocked(service, c)
    <2>1. CASE c \in service.listeners /\ service' = [service EXCEPT !.pids = @ \cup {c}]
      BY <1>1, <2>1 DEF GoesOn, ServiceOK, ServiceRecord, ServiceInv, Wanted, Served
    <2>2. /\ added \in ServiceRecord /\ added.boot = service.boot /\ added.up = service.up
          /\ added.unload = service.unload /\ added.pids = service.listeners \cup {c}
          /\ added.listeners = service.listeners \cup {c}
      BY <1>1, AddingListener DEF ServiceOK, ServiceInv
    <2>3. CASE \E inited \in BOOLEAN :
                 service' = [added EXCEPT !.inited = inited, !.status = "CONNECTED"]
      <3> HIDE DEF added
      <3> QED
        BY <1>1, <2>2, <2>3 DEF GoesOn, ServiceOK, ServiceRecord, Wanted, Served
    <2>4. CASE service' = ReleaseLocked(added)
      <3> HIDE DEF added
      <3> QED
        BY <1>1, <2>2, <2>4, Releasing DEF GoesOn, Wanted, Served
    <2>5. service.inited \in BOOLEAN
      BY <1>1 DEF ServiceOK, ServiceRecord
    <2> QED
      BY <2>1, <2>3, <2>4, <2>5 DEF RegisterListener
  <1>8. TypeInv'
    BY <1>1, <1>5, <1>6, <1>7 DEF TypeInv, ClientsOK, ThreadsOK, GoesOn, ServiceOK
  <1>9. OthersStand(c)
    BY <1>5, <1>6 DEF OthersStand
  <1>10. r.boot <= service.boot /\ r.stage # "unsent"
    BY <1>1 DEF Resting, ClientInv, BootsInv, ThreadsOK, JsThread
  <1>11. ClientInv(c)'
    BY <1>1, <1>5, <1>6, <1>7, <1>10
    DEF ClientInv, BootsInv, CheckedInv, LinkInv, Served, Wanted, GoesOn, Reachable
  <1> QED
    BY <1>1, <1>7, <1>8, <1>9, <1>11, GoesOnKeeps

LEMMA SendRegisterStep ==
  ASSUME TypeInv, IInv, NEW c \in Clients, SendRegister(c)
  PROVE  TypeInv' /\ IInv'
  <1>1. /\ ServiceOK /\ FlagsOK /\ ClientsOK /\ ThreadsOK /\ ServiceInv /\ ClientInv(c)
        /\ NoBoot \in Boots /\ NoBoot <= service.boot
    BY Parts
  <1>2. PICK n \in 1..MaxBoots :
          /\ GetAdaptor(c, n)
          /\ js' = [js EXCEPT ![c] = [js[c] EXCEPT !.stage = "sent", !.boot = n]]
    BY DEF SendRegister, JsIs
  <1>3. /\ GoesOn({}) \/ GoesUp
        /\ n \in Boots /\ n <= service'.boot /\ service.boot <= service'.boot
        /\ adaptor' \in [Clients -> Boots]
        /\ adaptor'[c] = n /\ \A d \in Clients \ {c} : adaptor'[d] = adaptor[d]
    BY <1>2, Gets
  <1>4. [js[c] EXCEPT !.stage = "sent", !.boot = n] \in JsThread
    BY <1>1, <1>3 DEF ThreadsOK, JsThread
  <1>5. /\ js' \in [Clients -> JsThread]
        /\ js'[c].stage = "sent" /\ js'[c].boot = n
        /\ \A d \in Clients \ {c} : js'[d] = js[d]
    BY <1>1, <1>2, <1>4 DEF ThreadsOK, JsThread
  <1>6. /\ link' \in [Clients -> Boots] /\ link'[c] \in {link[c], NoBoot}
        /\ \A d \in Clients \ {c} : link'[d] = link[d]
    BY <1>1 DEF SendRegister, ClientsOK
  <1>7. /\ FlagsOK' /\ notice' \in [Clients -> {"none", "received", "reporting"}]
        /\ UNCHANGED <<dying, alive, pool, calls>>
    BY <1>1 DEF SendRegister, FlagsOK, ClientsOK
  <1>8. service' \in ServiceRecord /\ service.boot \in Nat /\ service'.boot \in Nat
    BY <1>1, <1>3, StartedFacts, ServiceAssumption
    DEF GoesOn, GoesUp, ServiceOK, ServiceRecord, Boots
  <1>9. TypeInv'
    BY <1>1, <1>3, <1>5, <1>6, <1>7, <1>8 DEF TypeInv, ClientsOK, ThreadsOK, ServiceOK
  <1>10. OthersStand(c)
    BY <1>3, <1>5, <1>6, <1>7 DEF OthersStand
  <1>11. /\ link[c] \in Nat /\ js[c].boot \in Nat /\ pool[c].boot \in Nat /\ n \in Nat
         /\ link'[c] \in Nat
    BY <1>1, <1>6, ServiceAssumption DEF ClientsOK, ThreadsOK, JsThread, PoolThread, Boots
  <1>12. BootsInv(c)'
    <2>1. link'[c] <= service.boot /\ js[c].boot <= service.boot /\ pool[c].boot <= service.boot
      BY <1>1, <1>6 DEF ClientInv, BootsInv
    <2> QED
      BY <1>3, <1>5, <1>7, <1>8, <1>11, <2>1 DEF BootsInv
  <1>13. CASE GoesOn({})
    <2>1. /\ \A m : Reachable(m)' <=> Reachable(m)
          /\ Served(c) => Served(c)'
          /\ Wanted => Wanted'
      BY <1>13 DEF GoesOn, Reachable
    <2>2. CheckedInv(c)' /\ LinkInv(c)'
      BY <1>1, <1>5, <1>6, <1>7, <2>1 DEF ClientInv, CheckedInv, LinkInv
    <2>3. GoesOn({c})
      BY <1>13 DEF GoesOn
    <2> QED
      BY <1>1, <1>9, <1>10, <1>12, <2>2, <2>3, GoesOnKeeps DEF ClientInv
  <1>14. CASE GoesUp
    <2>1. service'.boot = service.boot + 1
      BY <1>14, StartedFacts DEF GoesUp
    <2>2. CheckedInv(c)' /\ LinkInv(c)'
      BY <1>1, <1>5, <1>6, <1>7, <1>8, <1>11, <2>1
      DEF ClientInv, BootsInv, CheckedInv, LinkInv, Reachable, NoBoot
    <2> QED
      BY <1>9, <1>10, <1>12, <1>14, <2>2, GoesUpKeeps DEF ClientInv
  <1> QED
    BY <1>3, <1>13, <1>14

LEMMA SendUnregisterStep ==
  ASSUME TypeInv, IInv, NEW c \in Clients, SendUnregister(c)
  PROVE  TypeInv' /\ IInv'
  <1>1. /\ ServiceOK /\ FlagsOK /\ ClientsOK /\ ThreadsOK /\ ServiceInv /\ ClientInv(c)
        /\ NoBoot \in Boots /\ NoBoot <= service.boot
    BY Parts
  <1>2. PICK n \in 1..MaxBoots :
          /\ GetAdaptor(c, n)
          /\ js' = [js EXCEPT ![c] = [js[c] EXCEPT !.stage = "unsent", !.boot = n]]
    BY DEF SendUnregister, JsIs
  <1>3. /\ GoesOn({}) \/ GoesUp
        /\ n \in Boots /\ n <= service'.boot /\ service.boot <= service'.boot
        /\ adaptor' \in [Clients -> Boots]
        /\ adaptor'[c] = n /\ \A d \in Clients \ {c} : adaptor'[d] = adaptor[d]
    BY <1>2, Gets
  <1>4. [js[c] EXCEPT !.stage = "unsent", !.boot = n] \in JsThread
    BY <1>1, <1>3 DEF ThreadsOK, JsThread
  <1>5. /\ js' \in [Clients -> JsThread]
        /\ js'[c].stage = "unsent" /\ js'[c].boot = n
        /\ \A d \in Clients \ {c} : js'[d] = js[d]
    BY <1>1, <1>2, <1>4 DEF ThreadsOK, JsThread
  <1>6. /\ link' \in [Clients -> Boots] /\ link'[c] \in {link[c], NoBoot}
        /\ \A d \in Clients \ {c} : link'[d] = link[d]
        /\ link'[c] = NoBoot
    BY <1>1 DEF SendUnregister, ClientsOK
  <1>7. /\ FlagsOK' /\ notice' \in [Clients -> {"none", "received", "reporting"}]
        /\ UNCHANGED <<dying, alive, pool, calls>>
    BY <1>1 DEF SendUnregister, FlagsOK, ClientsOK
  <1>8. service' \in ServiceRecord /\ service.boot \in Nat /\ service'.boot \in Nat
    BY <1>1, <1>3, StartedFacts, ServiceAssumption
    DEF GoesOn, GoesUp, ServiceOK, ServiceRecord, Boots
  <1>9. TypeInv'
    BY <1>1, <1>3, <1>5, <1>6, <1>7, <1>8 DEF TypeInv, ClientsOK, ThreadsOK, ServiceOK
  <1>10. OthersStand(c)
    BY <1>3, <1>5, <1>6, <1>7 DEF OthersStand
  <1>11. /\ link[c] \in Nat /\ js[c].boot \in Nat /\ pool[c].boot \in Nat /\ n \in Nat
         /\ link'[c] \in Nat
    BY <1>1, <1>6, ServiceAssumption DEF ClientsOK, ThreadsOK, JsThread, PoolThread, Boots
  <1>12. BootsInv(c)'
    <2>1. link'[c] <= service.boot /\ js[c].boot <= service.boot /\ pool[c].boot <= service.boot
      BY <1>1, <1>6 DEF ClientInv, BootsInv
    <2> QED
      BY <1>3, <1>5, <1>7, <1>8, <1>11, <2>1 DEF BootsInv
  <1>13. CASE GoesOn({})
    <2>1. /\ \A m : Reachable(m)' <=> Reachable(m)
          /\ Served(c) => Served(c)'
          /\ Wanted => Wanted'
      BY <1>13 DEF GoesOn, Reachable
    <2>2. CheckedInv(c)' /\ LinkInv(c)'
      BY <1>1, <1>5, <1>6, <1>7, <2>1 DEF ClientInv, CheckedInv, LinkInv
    <2>3. GoesOn({c})
      BY <1>13 DEF GoesOn
    <2> QED
      BY <1>1, <1>9, <1>10, <1>12, <2>2, <2>3, GoesOnKeeps DEF ClientInv
  <1>14. CASE GoesUp
    <2>1. service'.boot = service.boot + 1
      BY <1>14, StartedFacts DEF GoesUp
    <2>2. CheckedInv(c)' /\ LinkInv(c)'
      BY <1>1, <1>5, <1>6, <1>7, <1>8, <1>11, <2>1
      DEF ClientInv, BootsInv, CheckedInv, LinkInv, Reachable, NoBoot
    <2> QED
      BY <1>9, <1>10, <1>12, <1>14, <2>2, GoesUpKeeps DEF ClientInv
  <1> QED
    BY <1>3, <1>13, <1>14

LEMMA SendCallStep ==
  ASSUME TypeInv, IInv, NEW c \in Clients, SendCall(c)
  PROVE  TypeInv' /\ IInv'
  <1>1. /\ ServiceOK /\ FlagsOK /\ ClientsOK /\ ThreadsOK /\ ServiceInv /\ ClientInv(c)
        /\ NoBoot \in Boots /\ NoBoot <= service.boot
    BY Parts
  <1>2. PICK n \in 1..MaxBoots :
          /\ GetAdaptor(c, n)
          /\ pool' = [pool EXCEPT ![c] = [pool[c] EXCEPT !.stage = "sent", !.boot = n]]
    BY DEF SendCall, PoolIs
  <1>3. /\ GoesOn({}) \/ GoesUp
        /\ n \in Boots /\ n <= service'.boot /\ service.boot <= service'.boot
        /\ adaptor' \in [Clients -> Boots]
        /\ adaptor'[c] = n /\ \A d \in Clients \ {c} : adaptor'[d] = adaptor[d]
    BY <1>2, Gets
  <1>4. [pool[c] EXCEPT !.stage = "sent", !.boot = n] \in PoolThread
    BY <1>1, <1>3 DEF ThreadsOK, PoolThread
  <1>5. /\ pool' \in [Clients -> PoolThread]
        /\ pool'[c].stage = "sent" /\ pool'[c].boot = n
        /\ \A d \in Clients \ {c} : pool'[d] = pool[d]
    BY <1>1, <1>2, <1>4 DEF ThreadsOK, PoolThread
  <1>6. /\ link' \in [Clients -> Boots] /\ link'[c] \in {link[c], NoBoot}
        /\ \A d \in Clients \ {c} : link'[d] = link[d]
    BY <1>1 DEF SendCall, ClientsOK
  <1>7. /\ FlagsOK' /\ notice' \in [Clients -> {"none", "received", "reporting"}]
        /\ UNCHANGED <<dying, alive, js, calls>>
    BY <1>1 DEF SendCall, FlagsOK, ClientsOK
  <1>8. service' \in ServiceRecord /\ service.boot \in Nat /\ service'.boot \in Nat
    BY <1>1, <1>3, StartedFacts, ServiceAssumption
    DEF GoesOn, GoesUp, ServiceOK, ServiceRecord, Boots
  <1>9. TypeInv'
    BY <1>1, <1>3, <1>5, <1>6, <1>7, <1>8 DEF TypeInv, ClientsOK, ThreadsOK, ServiceOK
  <1>10. OthersStand(c)
    BY <1>3, <1>5, <1>6, <1>7 DEF OthersStand
  <1>11. /\ link[c] \in Nat /\ js[c].boot \in Nat /\ pool[c].boot \in Nat /\ n \in Nat
         /\ link'[c] \in Nat
    BY <1>1, <1>6, ServiceAssumption DEF ClientsOK, ThreadsOK, JsThread, PoolThread, Boots
  <1>12. BootsInv(c)'
    <2>1. link'[c] <= service.boot /\ js[c].boot <= service.boot /\ pool[c].boot <= service.boot
      BY <1>1, <1>6 DEF ClientInv, BootsInv
    <2> QED
      BY <1>3, <1>5, <1>7, <1>8, <1>11, <2>1 DEF BootsInv
  <1>13. CASE GoesOn({})
    <2>1. /\ \A m : Reachable(m)' <=> Reachable(m)
          /\ Served(c) => Served(c)'
          /\ Wanted => Wanted'
      BY <1>13 DEF GoesOn, Reachable
    <2>2. CheckedInv(c)' /\ LinkInv(c)'
      BY <1>1, <1>5, <1>6, <1>7, <2>1 DEF ClientInv, CheckedInv, LinkInv
    <2>3. GoesOn({c})
      BY <1>13 DEF GoesOn
    <2> QED
      BY <1>1, <1>9, <1>10, <1>12, <2>2, <2>3, GoesOnKeeps DEF ClientInv
  <1>14. CASE GoesUp
    <2>1. service'.boot = service.boot + 1
      BY <1>14, StartedFacts DEF GoesUp
    <2>2. CheckedInv(c)' /\ LinkInv(c)'
      BY <1>1, <1>5, <1>6, <1>7, <1>8, <1>11, <2>1
      DEF ClientInv, BootsInv, CheckedInv, LinkInv, Reachable, NoBoot
    <2> QED
      BY <1>9, <1>10, <1>12, <1>14, <2>2, GoesUpKeeps DEF ClientInv
  <1> QED
    BY <1>3, <1>13, <1>14

LEMMA CallFailsStep ==
  ASSUME TypeInv, IInv, NEW c \in Clients, CallFails(c)
  PROVE  TypeInv' /\ IInv'
  <1>1. /\ ServiceOK /\ FlagsOK /\ ClientsOK /\ ThreadsOK /\ ServiceInv /\ ClientInv(c)
        /\ NoBoot \in Boots /\ NoBoot <= service.boot
    BY Parts
  <1>2. GoesOn({c})
    BY <1>1, Unchanging DEF CallFails
  <1>3. /\ pool' \in [Clients -> PoolThread]
        /\ pool'[c] = Unoccupied /\ \A d \in Clients \ {c} : pool'[d] = pool[d]
    BY <1>1, PoolMoves, RestsAreThreads DEF CallFails
  <1>4. /\ js' \in [Clients -> JsThread] /\ adaptor' \in [Clients -> Boots]
        /\ link' \in [Clients -> Boots]
        /\ js'[c].stage = js[c].stage /\ js'[c].boot = js[c].boot
        /\ adaptor'[c] <= service.boot /\ (link'[c] = link[c] \/ link'[c] = NoBoot)
        /\ \A d \in Clients \ {c} :
             js'[d] = js[d] /\ adaptor'[d] = adaptor[d] /\ link'[d] = link[d]
    <2>1. CASE ForgetAdaptor(c)
      BY <1>1, <2>1, Forgets
    <2>2. CASE UNCHANGED <<adaptor, link, js>>
      BY <1>1, <2>2 DEF ClientsOK, ThreadsOK, ClientInv, BootsInv
    <2> QED
      BY <2>1, <2>2 DEF CallFails
  <1>5. UNCHANGED <<service, dying, alive, listener, callback, recipient, notice, told, calls>>
    BY DEF CallFails
  <1>6. TypeInv'
    BY <1>1, <1>3, <1>4, <1>5 DEF TypeInv, FlagsOK, ClientsOK, ThreadsOK, ServiceOK
  <1>7. OthersStand(c)
    BY <1>3, <1>4, <1>5 DEF OthersStand
  <1>8. ClientInv(c)'
    BY <1>1, <1>3, <1>4, <1>5
    DEF ClientInv, BootsInv, CheckedInv, LinkInv, Served, Wanted, Reachable, Unoccupied
  <1> QED
    BY <1>1, <1>2, <1>6, <1>7, <1>8, GoesOnKeeps

LEMMA DieStep ==
  ASSUME TypeInv, IInv, NEW c \in Clients, Die(c)
  PROVE  TypeInv' /\ IInv'
  <1>1. /\ ServiceOK /\ FlagsOK /\ ClientsOK /\ ThreadsOK /\ ServiceInv /\ ClientInv(c)
        /\ NoBoot \in Boots /\ NoBoot <= service.boot
    BY Parts
  <1>2. GoesOn({c})
    BY <1>1, Unchanging DEF Die
  <1>3. PICK r \in {js[c], Resting} :
          JsIs(c, r) /\ (r.stage = "unsent" => r = js[c])
    BY DEF Die, Resting
  <1>4. PICK p \in {pool[c], Unoccupied} :
          PoolIs(c, p) /\ (p.stage = "checked" => p = pool[c])
    BY DEF Die, Unoccupied
  <1>5. r \in JsThread /\ p \in PoolThread
    BY <1>1, RestsAreThreads DEF ThreadsOK
  <1>6. /\ js' \in [Clients -> JsThread]
        /\ js'[c] = r /\ \A d \in Clients \ {c} : js'[d] = js[d]
        /\ pool' \in [Clients -> PoolThread]
        /\ pool'[c] = p /\ \A d \in Clients \ {c} : pool'[d] = pool[d]
    BY <1>1, <1>3, <1>4, <1>5, JsMoves, PoolMoves
  <1>7. FlagsOK' /\ ~alive'[c] /\ \A d \in Clients \ {c} : alive'[d] = alive[d]
    BY <1>1 DEF Die, FlagsOK
  <1>8. /\ ClientsOK' /\ adaptor'[c] = NoBoot /\ link'[c] = NoBoot
        /\ \A d \in Clients \ {c} : adaptor'[d] = adaptor[d] /\ link'[d] = link[d]
        /\ UNCHANGED <<service, dying>>
    BY <1>1 DEF Die, ClientsOK
  <1>9. TypeInv'
    BY <1>1, <1>6, <1>7, <1>8 DEF TypeInv, ThreadsOK, ServiceOK
  <1>10. OthersStand(c)
    BY <1>6, <1>7, <1>8 DEF OthersStand
  <1>11. r.boot <= service.boot /\ p.boot <= service.boot
    BY <1>1 DEF ClientInv, BootsInv, Resting, Unoccupied
  <1>12. ClientInv(c)'
    BY <1>1, <1>4, <1>6, <1>7, <1>8, <1>11
    DEF ClientInv, BootsInv, CheckedInv, LinkInv, Wanted, Reachable
  <1> QED
    BY <1>1, <1>2, <1>9, <1>10, <1>12, GoesOnKeeps

LEMMA ExitStep ==
  ASSUME TypeInv, IInv, Exit
  PROVE  TypeInv' /\ IInv'
  <1>1. ServiceOK /\ FlagsOK /\ ClientsOK /\ ThreadsOK
    BY DEF TypeInv
  <1>2. /\ service' \in ServiceRecord /\ service'.boot = service.boot /\ ~service'.up
        /\ service'.pids = service'.listeners /\ ~service'.discovering
    BY <1>1 DEF Exit, Down, Started, ServiceOK, ServiceRecord
  <1>3. dying' = [c \in Clients |-> "none"] /\ UNCHANGED clientVars
    BY DEF Exit
  <1>4. TypeInv'
    BY <1>1, <1>2, <1>3
    DEF TypeInv, ServiceOK, FlagsOK, ClientsOK, ThreadsOK, clientVars
  <1>5. ServiceInv'
    BY <1>2 DEF ServiceInv
  <1>6. ASSUME NEW c \in Clients
        PROVE  ClientInv(c)'
    BY <1>2, <1>3, <1>6
    DEF IInv, ClientInv, BootsInv, CheckedInv, LinkInv, Reachable, clientVars
  <1> QED
    BY <1>4, <1>5, <1>6 DEF IInv

LEMMA StandStill ==
  ASSUME TypeInv, IInv, UNCHANGED vars
  PROVE  TypeInv' /\ IInv'
  <1>1. TypeInv'
    BY DEF TypeInv, ServiceOK, FlagsOK, ClientsOK, ThreadsOK, vars, clientVars
  <1>2. IInv'
    BY DEF IInv, ServiceInv, ClientInv, BootsInv, CheckedInv, LinkInv, Served, Wanted,
           Reachable, vars, clientVars
  <1> QED
    BY <1>1, <1>2

\* Every step.
LEMMA StepKeeps ==
  ASSUME TypeInv, IInv, [Next]_vars
  PROVE  TypeInv' /\ IInv'
  <1>1. ASSUME NEW c \in Clients, JsSteps(c)
        PROVE  TypeInv' /\ IInv'
    BY <1>1, SendRegisterStep, RegisterListenerStep, RegisterFailsStep,
       AddDeathRecipientStep,
       RecordStep, AddCallbackStep, SendUnregisterStep, UnregisterListenerStep,
       UnregisterFailsStep DEF JsSteps
  <1>2. ASSUME NEW c \in Clients, PoolSteps(c)
        PROVE  TypeInv' /\ IInv'
    BY <1>2, SendCallStep, CallFailsStep, ReleaseStep, StartDiscoveryStep, DiscoverStep,
       OtherRequestStep DEF PoolSteps
  <1>3. ASSUME NEW c \in Clients, NoticeSteps(c) \/ DeathSteps(c)
        PROVE  TypeInv' /\ IInv'
    BY <1>3, ServiceDiedStep, ReleaseClientResourcesStep, ReportServiceDiedStep,
       ClientDiedStep, ReleaseServiceResourcesStep, ReleaseAfterDeathStep
    DEF NoticeSteps, DeathSteps
  <1>4. ASSUME NEW c \in Clients, NEW method \in Asked, Call(c, method)
        PROVE  TypeInv' /\ IInv'
    BY <1>4, CallStep
  <1>5. ASSUME NEW c \in Clients, On(c) \/ Off(c) \/ Die(c)
        PROVE  TypeInv' /\ IInv'
    BY <1>5, OnStep, OffStep, DieStep
  <1>6. CASE Unload \/ Crash
    BY <1>6, ExitStep DEF Unload, Crash
  <1> QED
    BY <1>1, <1>2, <1>3, <1>4, <1>5, <1>6, StandStill DEF Next

LEMMA InitHolds ==
  ASSUME Init
  PROVE  TypeInv /\ IInv
  <1>1. 0 \in Boots /\ NoBoot \in Boots
    BY ServiceAssumption DEF Boots, NoBoot
  <1>2. /\ service \in ServiceRecord /\ ~service.up /\ service.boot = 0
        /\ service.pids = service.listeners /\ ~service.discovering
    BY <1>1 DEF Init, Started, ServiceRecord
  <1>3. ThreadsOK
    BY RestsAreThreads DEF Init, ThreadsOK
  <1>4. FlagsOK /\ ClientsOK
    BY <1>1, ServiceAssumption DEF Init, FlagsOK, ClientsOK
  <1>5. ServiceInv
    BY <1>2 DEF ServiceInv
  <1>6. ASSUME NEW c \in Clients
        PROVE  ClientInv(c)
    BY <1>2 DEF Init, ClientInv, BootsInv, CheckedInv, LinkInv, Reachable, Resting,
                Unoccupied, NoBoot
  <1> QED
    BY <1>2, <1>3, <1>4, <1>5, <1>6 DEF TypeInv, ServiceOK, IInv

(***************************************************************************)
(* The theorems.                                                           *)
(***************************************************************************)
LEMMA Inductive == Spec => [](TypeInv /\ IInv)
  <1>1. Init => TypeInv /\ IInv
    BY InitHolds
  <1>2. (TypeInv /\ IInv) /\ [Next]_vars => (TypeInv /\ IInv)'
    BY StepKeeps
  <1> QED
    BY <1>1, <1>2, PTL DEF Spec

\* Types, of the service's record and of what every client holds.
THEOREM ServiceTypeCorrect == Spec => []TypeOK
  BY Inductive, TypeInvIsTypeOK, PTL

\* No discovery runs for nobody, although StartDiscovery looks for its caller
\* under one lock and starts under another or none
\* (cast_session_manager_service_stub.cpp, cast_session_manager_service.cpp):
\* whoever dropped the last listener in between asked for the unload.
THEOREM DiscoveryOwned == Spec => []DiscoveryHasOwner
  <1>1. IInv => DiscoveryHasOwner
    BY DEF IInv, ServiceInv, Wanted, DiscoveryHasOwner
  <1> QED
    BY <1>1, Inductive, PTL

\* A registered client of a service that lives is a listener of it or will be
\* told: Release drops the listeners of everybody only on the way out, and a
\* proxy of an earlier boot is not taken for one of this.
THEOREM BelieversServed == Spec => []BelieversAreServed
  <1>1. IInv => BelieversAreServed
    BY DEF IInv, ClientInv, LinkInv, Served, Registered, BelieversAreServed
  <1> QED
    BY <1>1, Inductive, PTL

=============================================================================
