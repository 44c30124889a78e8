------------------------------ MODULE Service ------------------------------
(***************************************************************************)
(* The life of the session manager service and of its clients: the service *)
(* is a system ability that the first client loads and that unloads itself *)
(* when the last listener is gone (service/src/                            *)
(* cast_session_manager_service.cpp), the client library finds it, keeps a *)
(* proxy to it and watches its death (client/src/cast_session_manager.cpp  *)
(* and its adaptor), and the JavaScript module registers a listener with   *)
(* the first on() and takes it back with the last off()                    *)
(* (interfaces/kits/js/src/napi_cast_session_manager.cpp).                 *)
(*                                                                         *)
(* Every client is a process.  Its JavaScript thread does on() and off(),  *)
(* which are synchronous; one thread of its pool does the other calls; its *)
(* binder threads take death notices.  The service does each request under *)
(* its mutex in one step, StartDiscovery excepted, which takes no mutex.   *)
(* Processes die at any time; the service dies when it has asked to be     *)
(* unloaded, or crashes.  External: the ability manager (loading,          *)
(* unloading), the IPC and its death notices, the managers of devices.     *)
(***************************************************************************)
EXTENDS Naturals, FiniteSets

PageMethods ==    \* what JavaScript can ask of the service
  {"release", "startDiscovery", "stopDiscovery", "setDiscoverable", "createCastSession"}
Methods ==        \* what native code can ask besides
  PageMethods \cup {"setLocalDevice", "setSinkSessionCapacity", "getCastSession",
                    "startDeviceLogging"}

CONSTANTS
  Clients,      \* client processes
  Busy,         \* bound: the clients that make other calls than on() and off()
  Fickle,       \* bound: the clients that call off()
  Mortal,       \* bound: the clients that die
  Asked,        \* bound: the calls they make, methods of the manager
  MaxCalls,     \* bound: how many such calls each makes
  MaxBoots      \* bound: how often the service process is started

ASSUME ServiceAssumption ==
  /\ IsFiniteSet(Clients) /\ Asked \subseteq Methods
  /\ \A S \in {Busy, Fickle, Mortal} : S \subseteq Clients
  /\ MaxCalls \in Nat /\ MaxBoots \in Nat \ {0}

VARIABLES
  service,    \* the service process, see Started
  dying,      \* how far the service is with the death of each client
  alive,      \* whether the client process lives
  listener,   \* whether NapiCastSessionManager::listener_ is set
  callback,   \* whether it holds a callback for "serviceDie"
  adaptor,    \* CastSessionManager::adaptor_: the boot its proxy is of, 0: null
  recipient,  \* whether CastSessionManager::deathRecipient_ is set
  link,       \* the boot whose death the kernel notifies, 0: none
  notice,     \* how far the client is with such a notice
  told,       \* whether "serviceDie" was reported since the last registration
  js,         \* what the JavaScript thread does
  pool,       \* what the pool's thread does
  calls       \* how many calls the pool's thread has taken

clientVars == <<alive, listener, callback, adaptor, recipient, link, notice, told,
                js, pool, calls>>
vars == <<service, dying, clientVars>>

NoBoot == 0
Resting == [stage |-> "idle", boot |-> NoBoot, dropped |-> FALSE]
Unoccupied == [stage |-> "idle", boot |-> NoBoot, method |-> "release"]

(* A service process just started: nothing of an earlier one is kept.            *)
Started(n) ==
  [up |-> TRUE, boot |-> n, unload |-> FALSE, status |-> "DISCONNECTED",
   listeners |-> {}, pids |-> {}, watched |-> {}, inited |-> FALSE, discovering |-> FALSE]

Down(s) == [Started(s.boot) EXCEPT !.up = FALSE]

Reachable(n) == service.up /\ service.boot = n

Init ==
  /\ service = [Started(0) EXCEPT !.up = FALSE]
  /\ dying = [c \in Clients |-> "none"]
  /\ alive = [c \in Clients |-> TRUE]
  /\ listener = [c \in Clients |-> FALSE]
  /\ callback = [c \in Clients |-> FALSE]
  /\ adaptor = [c \in Clients |-> NoBoot]
  /\ recipient = [c \in Clients |-> FALSE]
  /\ link = [c \in Clients |-> NoBoot]
  /\ notice = [c \in Clients |-> "none"]
  /\ told = [c \in Clients |-> FALSE]
  /\ js = [c \in Clients |-> Resting]
  /\ pool = [c \in Clients |-> Unoccupied]
  /\ calls = [c \in Clients |-> 0]

-----------------------------------------------------------------------------
(* The service, under its mutex.                                                 *)

ClearListenersLocked(s) == [s EXCEPT !.listeners = {}, !.pids = {}, !.watched = {}]

(* DiscoveryManager::Deinit does nothing when its Init failed.                   *)
Deinit(s) ==
  [s EXCEPT !.inited = FALSE, !.discovering = @ /\ ~s.inited]

ReleasedLoaded(s) ==     \* mutant
  [Deinit(ClearListenersLocked(s)) EXCEPT !.status = "DISCONNECTED"]

(* ReleaseLocked: whoever calls, every listener is dropped.                      *)
ReleaseLocked(s) ==
  [Deinit(ClearListenersLocked(s)) EXCEPT !.status = "DISCONNECTED", !.unload = TRUE]

(* ReportServiceDieLocked: the service itself tells every listener, a client's   *)
(* request only that client.                                                     *)
ReportServiceDie(s, caller) == IF caller = {} THEN s.listeners ELSE s.listeners \cap caller

RemoveClient(s, c) ==
  [s EXCEPT !.pids = @ \ {c}, !.listeners = @ \ {c}, !.watched = @ \ {c}]

RemovedOnly(s, c) == RemoveClient(s, c)  \* mutant
RemoveListenerLocked(s, c) ==
  LET r == RemoveClient(s, c) IN IF r.listeners = {} THEN ReleaseLocked(r) ELSE r

(* AddListenerLocked; the death of a client that is dead already is not watched. *)
AddListenerLocked(s, c) ==
  [s EXCEPT !.pids = @ \cup {c}, !.listeners = @ \cup {c},
            !.watched = IF alive[c] THEN @ \cup {c} ELSE @]

(* OnServiceDied of the listeners in S: the processes that live and have a       *)
(* callback are told.                                                            *)
Tell(S) == told' = [c \in Clients |-> told[c] \/ (c \in S /\ alive[c] /\ callback[c])]

(* What follows a request in the JavaScript thread and the pool's thread.        *)
JsIs(c, r) == js' = [js EXCEPT ![c] = r]
PoolIs(c, r) == pool' = [pool EXCEPT ![c] = r]

(* The adaptor a thread holds dies with the call when adaptor_ was reset under   *)
(* it, and gives up the death notice it asked for (~CastSessionManagerAdaptor).  *)
LetGo(c, to) ==
  /\ JsIs(c, to)
  /\ link' = [link EXCEPT ![c] = IF js[c].dropped THEN NoBoot ELSE @]

(* RegisterListener of the service, and its reply.                               *)
RegisterListener(c) ==
  /\ js[c].stage = "sent" /\ Reachable(js[c].boot)
  /\ \/ /\ c \in service.listeners
        /\ service' = [service EXCEPT !.pids = @ \cup {c}]
        /\ UNCHANGED told
        /\ LetGo(c, Resting)
     \/ /\ c \notin service.listeners
        /\ \/ \E inited \in IF service.inited \/ service.listeners # {}
                              THEN {service.inited} ELSE BOOLEAN :
                service' = [AddListenerLocked(service, c)
                              EXCEPT !.inited = inited, !.status = "CONNECTED"]
           /\ UNCHANGED told
           /\ LetGo(c, IF alive[c] THEN [js[c] EXCEPT !.stage = "link"] ELSE Resting)
     \/ /\ service.listeners = {}
        /\ service' = ReleaseLocked(AddListenerLocked(service, c))
        /\ Tell({c})
        /\ LetGo(c, Resting)
  /\ UNCHANGED <<dying, alive, listener, callback, adaptor, recipient, notice, pool, calls>>

(* UnregisterListener of the service and the end of the client's.                *)
UnregisterListener(c) ==
  /\ js[c].stage = "unsent"
  /\ service' = IF Reachable(js[c].boot) THEN RemoveListenerLocked(service, c) ELSE service
  /\ JsIs(c, Resting)
  /\ adaptor' = [adaptor EXCEPT ![c] = NoBoot]
  /\ listener' = [listener EXCEPT ![c] = FALSE]
  /\ UNCHANGED <<dying, alive, callback, recipient, link, notice, told, pool, calls>>

(* The stub refuses a process whose listener is not registered.  All requests    *)
(* but StartDiscovery look again under the mutex, where a removal in between is  *)
(* as good as one before; so only StartDiscovery is done in two steps.           *)
Permitted(c, methods) ==
  /\ pool[c].stage = "sent" /\ pool[c].method \in methods
  /\ Reachable(pool[c].boot) /\ c \in service.pids
  /\ UNCHANGED <<dying, alive, listener, callback, recipient, notice, calls>>

(* adaptor_ is reset; the adaptor and its link go when no call holds it.         *)
ForgetAdaptor(c) ==
  /\ adaptor' = [adaptor EXCEPT ![c] = NoBoot]
  /\ js' = [js EXCEPT ![c].dropped = js[c].boot # NoBoot]
  /\ link' = [link EXCEPT ![c] = IF js[c].boot = NoBoot THEN NoBoot ELSE @]

(* CastSessionManager::Release forgets its adaptor, whatever the service said.   *)

Release(c) ==
  /\ Permitted(c, {"release"})
  /\ service' = ReleaseLocked(service)
  /\ Tell(ReportServiceDie(service, {c}))
  /\ PoolIs(c, Unoccupied)
  /\ ForgetAdaptor(c)

StartDiscovery(c) ==
  /\ Permitted(c, {"startDiscovery"})
  /\ PoolIs(c, [pool[c] EXCEPT !.stage = "checked"])
  /\ UNCHANGED <<service, adaptor, link, told, js>>

(* DiscoveryManager::StartDiscovery, whatever became of the listener.            *)
Discover(c) ==
  /\ pool[c].stage = "checked" /\ Reachable(pool[c].boot)
  /\ service' = [service EXCEPT !.discovering = TRUE]
  /\ PoolIs(c, Unoccupied)
  /\ UNCHANGED <<dying, alive, listener, callback, adaptor, recipient, link, notice, told,
                 js, calls>>

(* StopDiscovery; the other requests change nothing that is modelled:            *)
(* CreateCastSession never creates a session, sessionMap_ stays empty and the    *)
(* answer is always an error.                                                    *)
OtherRequest(c) ==
  /\ Permitted(c, Methods \ {"release", "startDiscovery"})
  /\ service' = [service EXCEPT !.discovering = @ /\ pool[c].method # "stopDiscovery"]
  /\ PoolIs(c, Unoccupied)
  /\ UNCHANGED <<adaptor, link, told, js>>

(* A client died: ReleaseServiceResources, in two sections under the mutex; in   *)
(* between other clients may register.                                           *)
ClientDied(c) ==
  /\ dying[c] = "none" /\ ~alive[c] /\ c \in service.watched
  /\ dying' = [dying EXCEPT ![c] = "notified"]
  /\ service' = [service EXCEPT !.watched = @ \ {c}]
  /\ UNCHANGED clientVars

ListenerRemoved(c) ==  \* mutant
  /\ dying[c] = "notified"
  /\ service' = RemoveClient(service, c)
  /\ dying' = [dying EXCEPT ![c] = "none"]
  /\ UNCHANGED clientVars

ReleaseServiceResources(c) ==
  LET removed == RemoveListenerLocked(service, c) IN
  /\ dying[c] = "notified"
  /\ service' = removed
  /\ dying' = [dying EXCEPT ![c] = IF removed.listeners = {} THEN "releasing" ELSE "none"]
  /\ UNCHANGED clientVars

ReleaseAfterDeath(c) ==
  /\ dying[c] = "releasing"
  /\ Tell(ReportServiceDie(service, {}))
  /\ service' = ReleaseLocked(service)
  /\ dying' = [dying EXCEPT ![c] = "none"]
  /\ UNCHANGED <<alive, listener, callback, adaptor, recipient, link, notice, js, pool, calls>>

(* The process ends, unloaded or by itself; its clients' proxies are stale now.  *)
Exit ==
  /\ service.up
  /\ service' = Down(service)
  /\ dying' = [c \in Clients |-> "none"]
  /\ UNCHANGED clientVars

Unload == service.unload /\ Exit
Crash == service.boot < MaxBoots /\ Exit

-----------------------------------------------------------------------------
(* The client library.                                                           *)

(* GetAdaptor: the adaptor there is, of a dead service even; or else the ability *)
(* manager is asked to load the service.                                         *)
GetAdaptor(c, n) ==
  \/ /\ adaptor[c] = n /\ n # NoBoot
     /\ UNCHANGED <<service, adaptor>>
  \/ /\ adaptor[c] = NoBoot
     /\ adaptor' = [adaptor EXCEPT ![c] = n]
     /\ \/ Reachable(n) /\ UNCHANGED service
        \/ /\ ~service.up /\ n = service.boot + 1 /\ n <= MaxBoots
           /\ service' = Started(n)

(* on() of the first callback registers a listener; a listener_ that is set, by  *)
(* an on() that failed too, is taken as registered.                              *)
On(c) ==
  /\ alive[c] /\ js[c].stage = "idle" /\ ~callback[c]
  /\ \/ /\ listener[c]
        /\ callback' = [callback EXCEPT ![c] = TRUE]
        /\ UNCHANGED <<listener, told, js>>
     \/ /\ ~listener[c]
        /\ listener' = [listener EXCEPT ![c] = TRUE]
        /\ told' = [told EXCEPT ![c] = FALSE]
        /\ JsIs(c, [Resting EXCEPT !.stage = "adaptor"])
        /\ UNCHANGED callback
  /\ UNCHANGED <<service, dying, alive, adaptor, recipient, link, notice, pool, calls>>

SendRegister(c) ==
  /\ alive[c] /\ js[c].stage = "adaptor"
  /\ \E n \in 1..MaxBoots :
       /\ GetAdaptor(c, n)
       /\ JsIs(c, [js[c] EXCEPT !.stage = "sent", !.boot = n])
  /\ UNCHANGED <<dying, alive, listener, callback, recipient, link, notice, told, pool, calls>>

(* No service, or none that answers; listener_ stays set.                        *)
RegisterFails(c) ==
  /\ \/ js[c].stage = "adaptor" /\ adaptor[c] = NoBoot
     \/ js[c].stage = "sent" /\ ~Reachable(js[c].boot)
  /\ LetGo(c, Resting)
  /\ UNCHANGED <<service, dying, alive, listener, callback, adaptor, recipient, notice,
                 told, pool, calls>>

(* CastSessionManagerAdaptor::RegisterListener: when the service has died since  *)
(* it answered, there is no notice to ask for, and nobody hears of it.           *)
AddDeathRecipient(c) ==
  /\ js[c].stage = "link"
  /\ link' = [link EXCEPT ![c] = IF Reachable(js[c].boot) THEN js[c].boot ELSE @]
  /\ JsIs(c, [js[c] EXCEPT !.stage = "record"])
  /\ UNCHANGED <<service, dying, alive, listener, callback, adaptor, recipient, notice,
                 told, pool, calls>>

(* CastSessionManager::RegisterListener returns.                                 *)
Record(c) ==
  /\ js[c].stage = "record"
  /\ recipient' = [recipient EXCEPT ![c] = TRUE]
  /\ LetGo(c, [Resting EXCEPT !.stage = "subscribe"])
  /\ UNCHANGED <<service, dying, alive, listener, callback, adaptor, notice, told, pool, calls>>

AddCallback(c) ==
  /\ js[c].stage = "subscribe"
  /\ callback' = [callback EXCEPT ![c] = TRUE]
  /\ JsIs(c, Resting)
  /\ UNCHANGED <<service, dying, alive, listener, adaptor, recipient, link, notice, told,
                 pool, calls>>

(* off() of the last callback takes the listener back.                           *)
Off(c) ==
  /\ c \in Fickle /\ alive[c] /\ js[c].stage = "idle" /\ listener[c]
  /\ callback' = [callback EXCEPT ![c] = FALSE]
  /\ recipient' = [recipient EXCEPT ![c] = FALSE]
  /\ JsIs(c, [Resting EXCEPT !.stage = "unadaptor"])
  /\ UNCHANGED <<service, dying, alive, listener, adaptor, link, notice, told, pool, calls>>

(* The service is loaded even for that, when the adaptor is gone.                *)
SendUnregister(c) ==
  /\ alive[c] /\ js[c].stage = "unadaptor"
  /\ \E n \in 1..MaxBoots :
       /\ GetAdaptor(c, n)
       /\ JsIs(c, [js[c] EXCEPT !.stage = "unsent", !.boot = n])
  /\ link' = [link EXCEPT ![c] = NoBoot]
  /\ UNCHANGED <<dying, alive, listener, callback, recipient, notice, told, pool, calls>>

UnregisterFails(c) ==
  /\ js[c].stage = "unadaptor" /\ adaptor[c] = NoBoot
  /\ JsIs(c, Resting)
  /\ listener' = [listener EXCEPT ![c] = FALSE]
  /\ UNCHANGED <<service, dying, alive, callback, adaptor, recipient, link, notice, told,
                 pool, calls>>

(* A call of the pool's thread; release() gives up the death recipient first.    *)
Call(c, method) ==
  /\ c \in Busy /\ alive[c] /\ pool[c].stage = "idle" /\ calls[c] < MaxCalls
  /\ calls' = [calls EXCEPT ![c] = @ + 1]
  /\ PoolIs(c, [stage |-> "adaptor", boot |-> NoBoot, method |-> method])
  /\ recipient' = [recipient EXCEPT ![c] = @ /\ method # "release"]
  /\ UNCHANGED <<service, dying, alive, listener, callback, adaptor, link, notice, told, js>>

SendCall(c) ==
  /\ alive[c] /\ pool[c].stage = "adaptor"
  /\ \E n \in 1..MaxBoots :
       /\ GetAdaptor(c, n)
       /\ PoolIs(c, [pool[c] EXCEPT !.stage = "sent", !.boot = n])
  /\ link' = [link EXCEPT ![c] = IF pool[c].method = "release" THEN NoBoot ELSE @]
  /\ UNCHANGED <<dying, alive, listener, callback, recipient, notice, told, js, calls>>

CallFails(c) ==
  /\ \/ pool[c].stage = "adaptor" /\ adaptor[c] = NoBoot
     \/ pool[c].stage \in {"sent", "checked"} /\ ~Reachable(pool[c].boot)
     \/ pool[c].stage = "sent" /\ c \notin service.pids
  /\ PoolIs(c, Unoccupied)
  /\ IF pool[c].method = "release" THEN ForgetAdaptor(c) ELSE UNCHANGED <<adaptor, link, js>>
  /\ UNCHANGED <<service, dying, alive, listener, callback, recipient, notice, told, calls>>

(* The kernel notifies the client of the death of the service it is linked to.   *)
ServiceDied(c) ==
  /\ link[c] # NoBoot /\ ~Reachable(link[c]) /\ notice[c] = "none"
  /\ link' = [link EXCEPT ![c] = NoBoot]
  /\ notice' = [notice EXCEPT ![c] = "received"]
  /\ UNCHANGED <<service, dying, alive, listener, callback, adaptor, recipient, told, js,
                 pool, calls>>

ForgottenFirst(c) ==  \* mutant
  /\ notice[c] = "received"
  /\ notice' = [notice EXCEPT ![c] = "none"]
  /\ recipient' = [recipient EXCEPT ![c] = FALSE]
  /\ ForgetAdaptor(c)
  /\ UNCHANGED <<service, dying, alive, listener, callback, told, pool, calls>>
(* ReleaseClientResources takes what is there, of a later registration even.     *)
ReleaseClientResources(c) ==
  /\ notice[c] = "received"
  /\ notice' = [notice EXCEPT ![c] = IF recipient[c] THEN "reporting" ELSE "none"]
  /\ recipient' = [recipient EXCEPT ![c] = FALSE]
  /\ ForgetAdaptor(c)
  /\ UNCHANGED <<service, dying, alive, listener, callback, told, pool, calls>>

ReportServiceDied(c) ==
  /\ notice[c] = "reporting"
  /\ Tell({c})
  /\ notice' = [notice EXCEPT ![c] = "none"]
  /\ UNCHANGED <<service, dying, alive, listener, callback, adaptor, recipient, link, js,
                 pool, calls>>

(* A client dies; a request it has sent may still be done.                       *)
Die(c) ==
  /\ c \in Mortal /\ alive[c]
  /\ alive' = [alive EXCEPT ![c] = FALSE]
  /\ listener' = [listener EXCEPT ![c] = FALSE]
  /\ callback' = [callback EXCEPT ![c] = FALSE]
  /\ adaptor' = [adaptor EXCEPT ![c] = NoBoot]
  /\ recipient' = [recipient EXCEPT ![c] = FALSE]
  /\ link' = [link EXCEPT ![c] = NoBoot]
  /\ notice' = [notice EXCEPT ![c] = "none"]
  /\ told' = [told EXCEPT ![c] = FALSE]
  /\ JsIs(c, IF js[c].stage \in {"sent", "unsent"} THEN js[c] ELSE Resting)
  /\ PoolIs(c, IF pool[c].stage \in {"sent", "checked"} THEN pool[c] ELSE Unoccupied)
  /\ UNCHANGED <<service, dying, calls>>

-----------------------------------------------------------------------------
JsSteps(c) ==
  \/ SendRegister(c) \/ RegisterListener(c) \/ RegisterFails(c)
  \/ AddDeathRecipient(c) \/ Record(c) \/ AddCallback(c)
  \/ SendUnregister(c) \/ UnregisterListener(c) \/ UnregisterFails(c)

PoolSteps(c) ==
  \/ SendCall(c) \/ CallFails(c)
  \/ Release(c) \/ StartDiscovery(c) \/ Discover(c) \/ OtherRequest(c)

NoticeSteps(c) == ServiceDied(c) \/ ReleaseClientResources(c) \/ ReportServiceDied(c)

DeathSteps(c) == ClientDied(c) \/ ReleaseServiceResources(c) \/ ReleaseAfterDeath(c)

Next ==
  \/ Unload \/ Crash
  \/ \E c \in Clients :
       \/ On(c) \/ Off(c) \/ Die(c)
       \/ \E method \in Asked : Call(c, method)
       \/ JsSteps(c) \/ PoolSteps(c) \/ NoticeSteps(c) \/ DeathSteps(c)

Spec == Init /\ [][Next]_vars

(* Threads go on with what they began, the kernel delivers the notices it was    *)
(* asked for, and the ability manager unloads what asked to be unloaded.  Nobody *)
(* has to call anything, or to die.                                              *)
Fairness ==
  /\ WF_vars(Unload)
  /\ \A c \in Clients :
       /\ WF_vars(JsSteps(c)) /\ WF_vars(NoticeSteps(c))
       /\ c \in Busy => WF_vars(PoolSteps(c))
       /\ c \in Mortal => WF_vars(DeathSteps(c))

FairSpec == Spec /\ Fairness

-----------------------------------------------------------------------------
Boots == 0..MaxBoots

(* Types; a record of the service process, and the stages of every thread.       *)
TypeOK ==
  /\ service \in [up : BOOLEAN, boot : Boots, unload : BOOLEAN,
                  status : {"DISCONNECTED", "CONNECTED"}, listeners : SUBSET Clients,
                  pids : SUBSET Clients, watched : SUBSET Clients, inited : BOOLEAN,
                  discovering : BOOLEAN]
  /\ dying \in [Clients -> {"none", "notified", "releasing"}]
  /\ \A f \in {alive, listener, callback, recipient, told} : f \in [Clients -> BOOLEAN]
  /\ adaptor \in [Clients -> Boots] /\ link \in [Clients -> Boots]
  /\ notice \in [Clients -> {"none", "received", "reporting"}]
  /\ js \in [Clients -> [stage : {"idle", "adaptor", "sent", "link", "record", "subscribe",
                                  "unadaptor", "unsent"},
                         boot : Boots, dropped : BOOLEAN]]
  /\ pool \in [Clients -> [stage : {"idle", "adaptor", "sent", "checked"},
                           boot : Boots, method : Methods]]
  /\ calls \in [Clients -> 0..MaxCalls]

(* No discovery runs for nobody: when the last listener is gone discovery is     *)
(* stopped or the process is about to go, although StartDiscovery takes no lock  *)
(* and may start after the release that stopped it.                              *)
DiscoveryHasOwner ==
  service.discovering => service.listeners # {} \/ service.unload

(* A client that went through its registration and did not take it back is a     *)
(* listener of that service, or that service is about to go and its death will   *)
(* tell the client: Release of one client drops the listeners of all the others  *)
(* without a word to them.                                                       *)
Registered(c) == alive[c] /\ callback[c] /\ recipient[c] /\ link[c] # NoBoot
BelieversAreServed ==
  \A c \in Clients :
    Registered(c) /\ Reachable(link[c]) => c \in service.listeners \/ service.unload

(* Whatever made the service go, a registered client is told, unless it goes     *)
(* away itself first: it dies, unsubscribes or calls release().                  *)
Leaving(c) ==
  ~alive[c] \/ ~callback[c] \/ (pool[c].stage # "idle" /\ pool[c].method = "release")
RegisteredAreTold ==
  \A c \in Clients :
    Registered(c) /\ ~Reachable(link[c]) ~> told[c] \/ Leaving(c)

(* A service whose listeners have all died unloads, unless another client comes  *)
(* in time; the only listeners it cannot get rid of are those that were dead     *)
(* when they were registered, whose death nobody notifies.                       *)
Orphaned ==
  /\ service.up /\ service.listeners # {}
  /\ \A c \in service.listeners : ~alive[c] /\ c \in service.watched
Leaked == {c \in service.listeners \ service.watched : dying[c] = "none"}
OrphanedServiceUnloads ==
  Orphaned ~> ~service.up \/ Leaked # {} \/ \E c \in service.listeners : alive[c]
=============================================================================
