------------------------------ MODULE JsCalls ------------------------------
(***************************************************************************)
(* What JavaScript asks of a session, of its stream player or of its       *)
(* mirror player, and how the answers and the events come back: the NAPI   *)
(* classes (interfaces/kits/js/src/), the client library with its proxies  *)
(* and listener stubs (client/src/), and the stubs and listener proxies of *)
(* the service.                                                            *)
(*                                                                         *)
(* A call makes a task and a promise on the JavaScript thread; a thread of *)
(* libuv's pool executes the task, which is a synchronous IPC request; the *)
(* JavaScript thread completes it.  Tasks nobody awaits overtake each      *)
(* other.  An event comes in on a binder thread, becomes one work of the   *)
(* same pool for every callback, which does nothing there, and the         *)
(* JavaScript thread calls the callback if it is still subscribed.         *)
(*                                                                         *)
(* One object and its class are modelled; the page keeps the object while  *)
(* its calls are under way.  External: libuv, NAPI, the IPC.  What a call  *)
(* does to the session or the player is left to CastSession and            *)
(* StreamPlayer: here a call is done, or it is not.                        *)
(***************************************************************************)
EXTENDS Naturals, Sequences, FiniteSets, TLC, SequencesExt

CONSTANTS
  Calls,          \* bound: the calls that are made
  Threads,        \* the threads of the pool
  Functions,      \* JavaScript functions to subscribe with
  Refs,           \* what napi_create_reference returns: addresses, used again
  Watched,        \* bound: the events subscribed to
  Emitted,        \* bound: the events the service sends
  MaxEvents,      \* bound: how many it sends
  MaxAdds,        \* bound: how many references are created or registrations fail
  Together,       \* bound: the methods whose calls meet other calls and events
  None            \* no call, no event, no reference

\* What a call comes to: the error codes a page can tell apart.
Results == {"SUCCESS", "ERROR", "INVALID_PARAM", "NO_PERMISSION"}

ASSUME JsCallsAssumption ==
  /\ IsFiniteSet(Calls) /\ IsFiniteSet(Threads) /\ IsFiniteSet(Refs)
  /\ IsFiniteSet(Watched)
  /\ None \notin Calls \cup Threads \cup Functions \cup Refs \cup Watched \cup Emitted \cup Results
  /\ MaxEvents \in Nat /\ MaxAdds \in Nat

VARIABLES
  kind,       \* the class of the object: "session", "stream" or "mirror"
  held,       \* whether it still holds the native object (Reset drops it)
  listener,   \* whether its listener_ is set
  asking,     \* the subscription whose registration the JavaScript thread awaits
  call,       \* the calls: stage, method, result, whether the service did it,
              \* and whether it was made after a release had resolved
  waiting,    \* the pool's queue
  working,    \* what each thread of the pool executes
  ready,      \* works the pool is through with
  impl,       \* whether the stub still has its streamPlayerImpl_
  target,     \* whether what the handlers act on still exists
  heard,      \* whether the service has the listener
  sending,    \* the event on its way to the client
  events,     \* how many events were sent
  callbacks,  \* NapiCallback::callbacks_ of each watched event
  refs,       \* reference counts; 0: no such reference
  function,   \* the function of each reference
  delivering, \* the reference whose function is being called
  adds,       \* how many references were created or registrations failed
  served,     \* whether the service process lives
  owed        \* history: events queued for a subscriber that has not been called

jsVars == <<held, listener, asking>>
poolVars == <<waiting, working, ready>>
serviceVars == <<impl, target, heard, served>>
eventVars == <<sending, events>>
callbackVars == <<callbacks, refs, function, delivering, adds, owed>>
vars == <<kind, jsVars, call, poolVars, serviceVars, eventVars, callbackVars>>

----------------------------------------------------------------------------
(* The tables: what each layer does with each method. *)

(* What the client library answers itself, before or instead of asking. *)
SessionChecks == [m \in {"addDevice", "removeDevice"} |-> {"INVALID_PARAM"}]
StreamChecks == [m \in {"setSurface"} |-> {"INVALID_PARAM", "ERROR"}]
MirrorChecks ==
  [m \in {"play", "pause", "setSurface"} |->
     IF m = "setSurface" THEN StreamChecks[m] ELSE {"INVALID_PARAM"}]
ClientChecks == [session |-> SessionChecks, stream |-> StreamChecks, mirror |-> MirrorChecks]
\* Methods of IMirrorPlayer nobody overrides: they return 0.
ClientOnly == [session |-> {}, stream |-> {}, mirror |-> {"setCastRoute", "getScreenshot"}]

(* The IPC errors a proxy tells apart; of any other it makes CAST_ENGINE_ERROR. *)
StreamProxySources == [m \in {"setSurface", "load", "start"} |-> {"INVALID_DATA"}]
StreamProxyCommands ==
  [m \in {"playIndex", "play", "pause", "stop", "next", "previous"} |-> {}]
StreamProxySettings ==
  [m \in {"seek", "fastForward", "fastRewind", "setVolume", "setMute"} |-> {}]
StreamProxyRates == [m \in {"setLoopMode", "setSpeed"} |-> {}]
StreamProxyState ==
  [m \in {"getPlayerStatus", "getPosition", "getDownloadRate", "getVolume"} |-> {}]
StreamProxyModes ==
  [m \in {"getMute", "getLoopMode", "getPlaySpeed", "getMediaInfoHolder"} |-> {}]
StreamProxyRelease == [m \in {"release"} |-> {}]
MirrorProxyPlaying ==
  [m \in {"play", "pause"} |-> {"UNKNOWN_TRANSACTION", "INVALID_DATA"}]
MirrorProxyRelease == [m \in {"release"} |-> {"UNKNOWN_TRANSACTION"}]
MirrorProxyScreen ==
  [m \in {"resizeVirtualScreen"} |-> {}] @@ [m \in {"setAppInfo", "setSurface"} |-> {"NO_PERMISSION"}]
SessionProxyDevices ==
  [m \in {"addDevice", "removeDevice"} |-> {"UNKNOWN_TRANSACTION", "INVALID_DATA"}]
SessionProxyRelease == [m \in {"release", "getSessionId"} |-> {"UNKNOWN_TRANSACTION"}]
SessionProxyDeviceInfo == [m \in {"getRemoteDeviceInfo"} |-> {"NO_PERMISSION", "INVALID_DATA"}]
SessionProxyMode ==
  [m \in {"setSessionProperty"} |-> {"UNKNOWN_TRANSACTION"}] @@ [m \in {"setCastMode"} |-> {}]
SessionProxyPlayers ==
  [m \in {"createMirrorPlayer", "createStreamPlayer"} |-> {"UNKNOWN_TRANSACTION"}]

Proxy ==
  [session |-> SessionProxyDevices @@ SessionProxyRelease @@ SessionProxyDeviceInfo
               @@ SessionProxyMode @@ SessionProxyPlayers,
   stream  |-> StreamProxySources @@ StreamProxyCommands @@ StreamProxySettings @@ StreamProxyRates
               @@ StreamProxyState @@ StreamProxyModes @@ StreamProxyRelease,
   mirror  |-> MirrorProxyPlaying @@ MirrorProxyRelease @@ MirrorProxyScreen]

(* The handlers a stub knows, with the errors they return without asking the object. *)
StreamStubSources ==
  [m \in {"setSurface"} |-> {"NULL_OBJECT"}] @@ [m \in {"load", "start"} |-> {"INVALID_DATA"}]
StreamStubCommands ==
  {"playIndex", "play", "pause", "stop", "next", "previous", "seek", "fastForward",
   "fastRewind", "setVolume", "setMute", "setLoopMode", "setSpeed"}
StreamStubState ==
  {"getPlayerStatus", "getPosition", "getVolume", "getPlaySpeed", "getLoopMode",
   "getMediaInfoHolder"}
StreamStubTasks ==
  DOMAIN StreamStubSources \cup StreamStubCommands \cup StreamStubState \cup {"release"}
MirrorStubTasks == DOMAIN Proxy.mirror
MirrorStubSurface == [m \in {"setSurface"} |-> {"NULL_OBJECT"}]
SessionStubDevices == [m \in {"addDevice", "removeDevice"} |-> {"INVALID_DATA"}]
SessionStubProperty == [m \in {"setSessionProperty"} |-> {"NULL_OBJECT"}]
SessionStubPlayers == {"createMirrorPlayer", "createStreamPlayer"}
SessionStubOthers == {"release", "setCastMode", "getSessionId", "getRemoteDeviceInfo"}
SessionStubTasks ==
  DOMAIN SessionStubDevices \cup DOMAIN SessionStubProperty \cup SessionStubPlayers
  \cup SessionStubOthers

StubTasks ==
  [session |-> SessionStubTasks, stream |-> StreamStubTasks, mirror |-> MirrorStubTasks]
StubErrors ==
  [session |-> SessionStubDevices @@ SessionStubProperty,
   stream  |-> StreamStubSources, mirror |-> MirrorStubSurface]

(* What a stub returns when the caller may not ask. *)
Refusal == [session |-> "NO_PERMISSION", stream |-> "NO_PERMISSION",
            mirror |-> "UNKNOWN_TRANSACTION"]

At(table, m) == IF m \in DOMAIN table THEN table[m] ELSE {}

(* What the proxy returns to the client library when the IPC failed with "status". *)
Translated(m, status) ==
  CASE status \notin Proxy[kind][m] -> "ERROR"
    [] status = "INVALID_DATA" -> "INVALID_PARAM"
    [] OTHER -> "NO_PERMISSION"

(* The events: those a page can subscribe to, and those the NAPI listener passes on. *)
SessionEvents == {"event", "deviceState"}
PlaybackEvents ==
  {"stateChanged", "positionChanged", "mediaItemChanged", "volumeChanged",
   "videoSizeChanged", "loopModeChanged", "playSpeedChanged"}
RequestEvents ==
  {"playerError", "nextRequest", "previousRequest", "seekDone", "endOfStream", "imageChanged"}
EventHandlers ==
  [session |-> SessionEvents, stream |-> PlaybackEvents \cup RequestEvents, mirror |-> {}]
NapiListener ==
  [session |-> EventHandlers.session \cup {"remoteCtrl"},
   stream  |-> EventHandlers.stream \cup {"mediaInfoChanged", "playRequest"},
   mirror  |-> {}]
\* What the service's listener proxy sends and the client's listener stub knows.
ListenerProxy ==
  [session |-> NapiListener.session,
   stream  |-> NapiListener.stream \cup {"availableCapabilityChanged", "albumCoverChanged",
                                         "keyRequest"},
   mirror  |-> {}]

----------------------------------------------------------------------------
(* Calls. *)

Unmade ==
  [stage |-> "unmade", method |-> None, result |-> None, done |-> FALSE, late |-> FALSE]

JsFree == asking = None
\* The bound: a method outside Together is only called when nothing else goes on.
Meeting == \A c \in Calls : call[c].method \in Together \cup {None}
MayMeet(m) ==
  \/ m \in Together /\ Meeting
  \/ events = 0 /\ listener = FALSE /\ target /\ served /\ \A c \in Calls : call[c] = Unmade

Released ==
  \E c \in Calls : call[c].method = "release" /\ call[c].stage = "settled"
                   /\ call[c].result = "SUCCESS"

TaskOf(c) == [task |-> c, event |-> None, ref |-> None]
WorkOf(e, r) == [task |-> None, event |-> e, ref |-> r]

(* GetJSInfo and Enqueue: arguments that do not parse leave a task that is     *)
(* queued like any other, but not executed.                                    *)
Enqueue(c, m, valid) ==
  /\ JsFree /\ MayMeet(m)
  /\ call[c] = Unmade
  /\ call' = [call EXCEPT ![c] =
                [stage |-> "queued", method |-> m, done |-> FALSE, late |-> Released,
                 result |-> IF valid THEN None ELSE "INVALID_PARAM"]]
  /\ waiting' = Append(waiting, TaskOf(c))
  /\ UNCHANGED <<kind, jsVars, working, ready, serviceVars, eventVars, callbackVars>>

Parsed(c, m) == \E valid \in BOOLEAN : Enqueue(c, m, valid)
Plain(c, m) == Enqueue(c, m, TRUE)

SetSurface(c) == Parsed(c, "setSurface")
Load(c) == Parsed(c, "load")
Start(c) == Parsed(c, "start")
Play(c) == Parsed(c, "play") \/ Plain(c, "playIndex")
Pause(c) == Plain(c, "pause")
Stop(c) == Plain(c, "stop")
Next_(c) == Plain(c, "next")
Previous(c) == Plain(c, "previous")
Seek(c) == Parsed(c, "seek")
FastForward(c) == Parsed(c, "fastForward")
FastRewind(c) == Parsed(c, "fastRewind")
SetVolume(c) == Parsed(c, "setVolume")
SetLoopMode(c) == Parsed(c, "setLoopMode")
SetSpeed(c) == Parsed(c, "setSpeed")
SetMute(c) == Parsed(c, "setMute")
GetPlayerStatus(c) == Plain(c, "getPlayerStatus")
GetPosition(c) == Plain(c, "getPosition")
GetDownloadRate(c) == Plain(c, "getDownloadRate")
GetVolume(c) == Plain(c, "getVolume")
GetMute(c) == Plain(c, "getMute")
GetLoopMode(c) == Plain(c, "getLoopMode")
GetPlaySpeed(c) == Plain(c, "getPlaySpeed")
GetMediaInfoHolder(c) == Plain(c, "getMediaInfoHolder")
Release(c) == Plain(c, "release")

StreamCall(c) ==
  /\ kind = "stream"
  /\ \/ SetSurface(c) \/ Load(c) \/ Start(c) \/ Play(c) \/ Pause(c) \/ Stop(c) \/ Next_(c)
     \/ Previous(c) \/ Seek(c) \/ FastForward(c) \/ FastRewind(c) \/ SetVolume(c)
     \/ SetLoopMode(c) \/ SetSpeed(c) \/ SetMute(c) \/ GetPlayerStatus(c) \/ GetPosition(c)
     \/ GetDownloadRate(c) \/ GetVolume(c) \/ GetMute(c) \/ GetLoopMode(c)
     \/ GetPlaySpeed(c) \/ GetMediaInfoHolder(c) \/ Release(c)

MirrorPlay(c) == Parsed(c, "play")
MirrorPause(c) == Parsed(c, "pause")
MirrorSetSurface(c) == Parsed(c, "setSurface")
SetAppInfo(c) == Parsed(c, "setAppInfo")
MirrorRelease(c) == Plain(c, "release")
ResizeVirtualScreen(c) == Parsed(c, "resizeVirtualScreen")
SetCastRoute(c) == Parsed(c, "setCastRoute")
GetScreenshot(c) == Plain(c, "getScreenshot")

MirrorCall(c) ==
  /\ kind = "mirror"
  /\ \/ MirrorPlay(c) \/ MirrorPause(c) \/ MirrorSetSurface(c) \/ SetAppInfo(c)
     \/ MirrorRelease(c) \/ ResizeVirtualScreen(c) \/ SetCastRoute(c) \/ GetScreenshot(c)

AddDevice(c) == Parsed(c, "addDevice")
RemoveDevice(c) == Parsed(c, "removeDevice")
GetSessionId(c) == Plain(c, "getSessionId")
SetSessionProperty(c) == Parsed(c, "setSessionProperty")
CreateMirrorPlayer(c) == Plain(c, "createMirrorPlayer")
CreateStreamPlayer(c) == Plain(c, "createStreamPlayer")
SetCastMode(c) == Parsed(c, "setCastMode")
SessionRelease(c) == Plain(c, "release")
GetRemoteDeviceInfo(c) == Parsed(c, "getRemoteDeviceInfo")

SessionCall(c) ==
  /\ kind = "session"
  /\ \/ AddDevice(c) \/ RemoveDevice(c) \/ GetSessionId(c) \/ SetSessionProperty(c)
     \/ CreateMirrorPlayer(c) \/ CreateStreamPlayer(c) \/ SetCastMode(c)
     \/ SessionRelease(c) \/ GetRemoteDeviceInfo(c)

----------------------------------------------------------------------------
(* The pool of libuv, whose threads finish in any order. *)

Sent(c) == [call EXCEPT ![c].stage = "sent"]
Answer(c, r) == call' = [call EXCEPT ![c].stage = "answered", ![c].result = r]

(* The executor: what it answers itself, or the IPC it sends. *)
Execute(c) ==
  LET m == call[c].method IN
  IF call[c].result # None THEN Answer(c, call[c].result)
  ELSE IF ~held THEN Answer(c, "ERROR")
  ELSE \/ \E r \in At(ClientChecks[kind], m) : Answer(c, r)
       \/ m \in ClientOnly[kind] /\ Answer(c, "SUCCESS")
       \/ m \notin ClientOnly[kind] /\ call' = Sent(c)

Take(t) ==
  /\ working[t] = None /\ waiting # <<>>
  /\ working' = [working EXCEPT ![t] = Head(waiting)]
  /\ waiting' = Tail(waiting)
  /\ IF Head(waiting).task = None THEN UNCHANGED call ELSE Execute(Head(waiting).task)
  /\ UNCHANGED <<kind, jsVars, ready, serviceVars, eventVars, callbackVars>>

ResetNothing(c) == UNCHANGED <<held, listener>>  \* mutant
(* What the executor of a release that succeeded does before it returns. *)
Reset(c) ==
  LET dropped == call[c].method = "release" /\ call[c].result = "SUCCESS" IN
  /\ held' = (held /\ ~dropped)
  /\ listener' = (listener /\ ~(dropped /\ kind # "mirror"))

Finish(t) ==
  /\ working[t] # None
  /\ LET w == working[t] IN
     /\ IF w.task = None THEN UNCHANGED <<held, listener>>
        ELSE call[w.task].stage = "answered" /\ Reset(w.task)
     /\ ready' = Append(ready, w)
  /\ working' = [working EXCEPT ![t] = None]
  /\ UNCHANGED <<kind, asking, call, waiting, serviceVars, eventVars, callbackVars>>

SettledIfDone(c) ==  \* mutant
  [call EXCEPT ![c].stage = IF call[c].result = "SUCCESS" THEN "settled" ELSE @]
(* GenerateOutput: the promise is resolved or rejected, on the JavaScript thread. *)
Settled(c) == [call EXCEPT ![c].stage = "settled"]

Complete(c) ==
  /\ JsFree /\ delivering = None
  /\ ready # <<>> /\ Head(ready).task = c
  /\ ready' = Tail(ready)
  /\ call' = Settled(c)
  /\ UNCHANGED <<kind, jsVars, waiting, working, serviceVars, eventVars, callbackVars>>

----------------------------------------------------------------------------
(* The service: a binder thread for each call. *)

PlayerImplGetter == kind = "stream" => impl
\* What the client library gets when the stub's object is gone.
WithoutImpl(c) == Answer(c, "ERROR")

(* The stub: the caller's permission, the handler, its arguments, the object. *)
OnRemoteRequest(c) ==
  LET m == call[c].method
      Fails(status) == Answer(c, Translated(m, status)) IN
  /\ call[c].stage = "sent"
  /\ IF ~served THEN Fails("DEAD_OBJECT")
     ELSE \/ Fails(Refusal[kind])
          \/ m \notin StubTasks[kind] /\ Fails("UNKNOWN_TRANSACTION")
          \/ \E status \in At(StubErrors[kind], m) : Fails(status)
          \/ /\ m \in StubTasks[kind]
             /\ IF PlayerImplGetter THEN call' = [call EXCEPT ![c].stage = "dispatched"]
                ELSE WithoutImpl(c)
  /\ UNCHANGED <<kind, jsVars, poolVars, serviceVars, eventVars, callbackVars>>

(* The object does what was asked, and reports success or not.  It needs what   *)
(* it acts on: only SetAppInfo of a mirror player does without its session, and *)
(* at a sink a stream player outlives its manager while a call is in it.        *)
CanDo(m) == target \/ (kind = "mirror" /\ m = "setAppInfo")
Done(c, r) == [call EXCEPT ![c].stage = "answered", ![c].result = r, ![c].done = TRUE]

Perform(c) ==
  /\ call[c].stage = "dispatched" /\ served
  /\ call[c].method # "release"
  /\ \/ CanDo(call[c].method) /\ \E r \in {"SUCCESS", "ERROR"} : call' = Done(c, r)
     \/ ~target /\ kind = "stream" /\ \E r \in {"SUCCESS", "ERROR"} : call' = Done(c, r)
     \/ ~CanDo(call[c].method) /\ Answer(c, "ERROR")
  /\ UNCHANGED <<kind, jsVars, poolVars, serviceVars, eventVars, callbackVars>>

(* A mirror player's release destroys the player and a session's is left to a  *)
(* thread of its own; neither takes anything away from the other calls here.   *)
PerformRelease(c) ==
  /\ call[c].stage = "dispatched" /\ served
  /\ call[c].method = "release" /\ kind # "stream"
  /\ IF target THEN call' = Done(c, "SUCCESS") ELSE Answer(c, "ERROR")
  /\ UNCHANGED <<kind, jsVars, poolVars, serviceVars, eventVars, callbackVars>>

(* A stream player's release drops the session's stream manager and with it the *)
(* listener; the stub then drops the player.                                    *)
DestroyStreamPlayer(c) ==
  /\ call[c].stage = "dispatched" /\ served
  /\ call[c].method = "release" /\ kind = "stream"
  /\ target' = FALSE /\ heard' = FALSE
  /\ call' = [call EXCEPT ![c].stage = "dropping"]
  /\ UNCHANGED <<kind, jsVars, poolVars, impl, served, eventVars, callbackVars>>

DropPlayerImpl(c) ==
  /\ call[c].stage = "dropping" /\ served
  /\ impl' = FALSE
  /\ call' = Done(c, "SUCCESS")
  /\ UNCHANGED <<kind, jsVars, poolVars, target, heard, served, eventVars, callbackVars>>

SessionEnds ==
  /\ kind = "mirror" /\ target /\ served /\ Meeting
  /\ target' = FALSE
  /\ UNCHANGED <<kind, jsVars, call, poolVars, impl, heard, served, eventVars, callbackVars>>

(* The process of the service dies: the calls in it fail, and so will all others. *)
ServiceDies ==
  /\ served /\ Meeting
  /\ served' = FALSE
  /\ call' = [c \in Calls |->
                IF call[c].stage \in {"dispatched", "dropping"}
                THEN [call[c] EXCEPT !.stage = "answered", !.result = "ERROR"] ELSE call[c]]
  /\ UNCHANGED <<kind, jsVars, poolVars, impl, target, heard, eventVars, callbackVars>>

----------------------------------------------------------------------------
(* Subscriptions. *)

RefOf(e, f) == {r \in callbacks[e] : function[r] = f}

(* NapiCallback: one reference per function and event. *)
AddCallback(e, f) ==
  IF RefOf(e, f) # {} THEN UNCHANGED callbackVars
  ELSE \E r \in {q \in Refs : refs[q] = 0} :
         /\ adds < MaxAdds
         /\ refs' = [refs EXCEPT ![r] = 1]
         /\ function' = [function EXCEPT ![r] = f]
         /\ callbacks' = [callbacks EXCEPT ![e] = @ \cup {r}]
         /\ adds' = adds + 1
         /\ UNCHANGED <<delivering, owed>>

ReleaseRef(r) == [refs EXCEPT ![r] = @ - 1]

RemovedOnly(e, f) ==  \* mutant: the reference is kept
  /\ owed' = owed \ {<<e, f>>}
  /\ callbacks' = [callbacks EXCEPT ![e] = @ \ RefOf(e, f)]
  /\ UNCHANGED <<refs, function, delivering, adds>>

RemoveCallback(e, f) ==
  /\ owed' = owed \ {<<e, f>>}
  /\ IF RefOf(e, f) = {} THEN UNCHANGED <<callbacks, refs>>
     ELSE LET r == CHOOSE r \in RefOf(e, f) : TRUE IN
          /\ callbacks' = [callbacks EXCEPT ![e] = @ \ {r}]
          /\ refs' = ReleaseRef(r)
  /\ UNCHANGED <<function, delivering, adds>>

(* on(): the first subscription registers the listener, by an IPC the           *)
(* JavaScript thread waits for.                                                 *)
On(e, f) ==
  /\ JsFree /\ Meeting
  /\ e \in EventHandlers[kind]
  /\ \/ listener /\ AddCallback(e, f) /\ UNCHANGED asking
     \/ /\ ~listener /\ held /\ adds < MaxAdds
        /\ asking' = [event |-> e, function |-> f, answer |-> None]
        /\ UNCHANGED callbackVars
  /\ UNCHANGED <<kind, held, listener, call, poolVars, serviceVars, eventVars>>

RegisterListener ==
  /\ asking # None /\ asking.answer = None
  /\ \/ /\ served /\ PlayerImplGetter /\ target
        /\ heard' = TRUE
        /\ asking' = [asking EXCEPT !.answer = "SUCCESS"]
     \/ /\ asking' = [asking EXCEPT !.answer = "ERROR"]
        /\ UNCHANGED heard
  /\ UNCHANGED <<kind, held, listener, call, poolVars, impl, target, served, eventVars,
                 callbackVars>>

RegisterNativeListener ==
  /\ asking # None /\ asking.answer # None
  /\ asking' = None
  /\ IF asking.answer = "SUCCESS"
     THEN listener' = TRUE /\ AddCallback(asking.event, asking.function)
     ELSE /\ adds' = adds + 1
          /\ UNCHANGED <<listener, callbacks, refs, function, delivering, owed>>
  /\ UNCHANGED <<kind, held, call, poolVars, serviceVars, eventVars>>

Off(e, f) ==
  /\ JsFree /\ Meeting
  /\ e \in EventHandlers[kind] /\ listener
  /\ RemoveCallback(e, f)
  /\ UNCHANGED <<kind, jsVars, call, poolVars, serviceVars, eventVars>>

----------------------------------------------------------------------------
(* Events. *)

Emit(e) ==
  /\ events < MaxEvents /\ sending = None /\ Meeting
  /\ heard /\ served /\ e \in ListenerProxy[kind]
  /\ sending' = e /\ events' = events + 1
  /\ UNCHANGED <<kind, jsVars, call, poolVars, serviceVars, callbackVars>>

(* The listener stub and the NAPI listener pass on the events they know, and    *)
(* HandleEvent queues one work for each callback there is.                      *)
Subscribers(e) == IF e \in Watched THEN callbacks[e] ELSE {}

HandleEvent ==
  /\ sending # None
  /\ sending' = None
  /\ LET to == IF sending \in NapiListener[kind] THEN Subscribers(sending) ELSE {} IN
     /\ \E order \in SetToSeqs(to) :
          waiting' = waiting \o [i \in DOMAIN order |-> WorkOf(sending, order[i])]
     /\ owed' = owed \cup {<<sending, function[r]>> : r \in to}
  /\ UNCHANGED <<kind, jsVars, call, working, ready, serviceVars, events, callbacks, refs,
                 function, delivering, adds>>

IsCallbackAlive(e, r) == refs[r] + 1 > 1                       \* mutant
IsCallbackShared(e, r) == r \in callbacks[e] /\ refs[r] > 1    \* mutant
(* The work comes back to the JavaScript thread: its reference must still be    *)
(* subscribed to the event, and is held while the function runs.                *)
IsCallbackValid(e, r) == r \in callbacks[e] /\ refs[r] + 1 > 1
Held(r) == [refs EXCEPT ![r] = @ + 1]

AfterWorkCallback ==
  /\ JsFree /\ delivering = None
  /\ ready # <<>> /\ Head(ready).task = None
  /\ ready' = Tail(ready)
  /\ LET e == Head(ready).event
         r == Head(ready).ref IN
     IF IsCallbackValid(e, r)
     THEN /\ refs' = Held(r)
          /\ delivering' = r
          /\ owed' = owed \ {<<e, function[r]>>}
     ELSE UNCHANGED <<refs, delivering, owed>>
  /\ UNCHANGED <<kind, jsVars, call, waiting, working, serviceVars, eventVars, callbacks,
                 function, adds>>

CallbackReturns ==
  /\ JsFree /\ delivering # None
  /\ delivering' = None
  /\ refs' = ReleaseRef(delivering)
  /\ UNCHANGED <<kind, jsVars, call, poolVars, serviceVars, eventVars, callbacks, function,
                 adds, owed>>

----------------------------------------------------------------------------
Init ==
  /\ kind \in {"session", "stream", "mirror"}
  /\ held = TRUE /\ listener = FALSE /\ asking = None
  /\ call = [c \in Calls |-> Unmade]
  /\ waiting = <<>> /\ working = [t \in Threads |-> None] /\ ready = <<>>
  /\ impl = TRUE /\ target = TRUE /\ heard = FALSE /\ served = TRUE
  /\ sending = None /\ events = 0
  /\ callbacks = [e \in Watched |-> {}]
  /\ refs = [r \in Refs |-> 0]
  /\ function = [r \in Refs |-> None]
  /\ delivering = None /\ adds = 0 /\ owed = {}

Pool == \E t \in Threads : Take(t) \/ Finish(t)
Js == (\E c \in Calls : Complete(c)) \/ RegisterNativeListener \/ AfterWorkCallback
      \/ CallbackReturns
Serve(c) ==
  OnRemoteRequest(c) \/ Perform(c) \/ PerformRelease(c) \/ DestroyStreamPlayer(c)
  \/ DropPlayerImpl(c)

Next ==
  \/ \E c \in Calls : StreamCall(c) \/ MirrorCall(c) \/ SessionCall(c)
  \/ Pool
  \/ \E c \in Calls : Serve(c)
  \/ RegisterListener \/ HandleEvent
  \/ SessionEnds \/ ServiceDies
  \/ Js
  \/ \E e \in Watched, f \in Functions : On(e, f) \/ Off(e, f)
  \/ \E e \in Emitted : Emit(e)

Spec == Init /\ [][Next]_vars

(* The threads of the pool, the binder threads and the event loop run.  What    *)
(* the page and the service choose to do is not fair.                           *)
Fairness ==
  /\ \A t \in Threads : WF_vars(Take(t)) /\ WF_vars(Finish(t))
  /\ \A c \in Calls : WF_vars(Serve(c))
  /\ WF_vars(RegisterListener) /\ WF_vars(HandleEvent)
  /\ WF_vars(Js)

FairSpec == Spec /\ Fairness

----------------------------------------------------------------------------
(* Properties. *)

Stages == {"unmade", "queued", "sent", "dispatched", "dropping", "answered", "settled"}
Works ==
  [task : Calls \cup {None}, event : Watched \cup {None}, ref : Refs \cup {None}]

(* Types; no reference count is ever negative, and a work is a task or an event.  *)
TypeOK ==
  /\ kind \in {"session", "stream", "mirror"}
  /\ {held, listener, impl, target, heard, served} \subseteq BOOLEAN
  /\ \/ asking = None
     \/ asking \in [event : Watched, function : Functions, answer : {None, "SUCCESS", "ERROR"}]
  /\ \A c \in Calls : /\ call[c].stage \in Stages
                       /\ call[c].result \in Results \cup {None}
                       /\ call[c].done \in BOOLEAN /\ call[c].late \in BOOLEAN
  /\ waiting \in Seq(Works) /\ ready \in Seq(Works)
  /\ working \in [Threads -> Works \cup {None}]
  /\ sending \in Emitted \cup {None} /\ events \in 0..MaxEvents
  /\ callbacks \in [Watched -> SUBSET Refs]
  /\ refs \in [Refs -> Nat] /\ function \in [Refs -> Functions \cup {None}]
  /\ delivering \in Refs \cup {None} /\ adds \in 0..MaxAdds
  /\ owed \subseteq Watched \X Functions

(* A call that resolves was done by the service, whatever was released, died or *)
(* was refused meanwhile; only the mirror player's setCastRoute and             *)
(* getScreenshot, which the client library answers itself, resolve without.     *)
(* Once a release has resolved the object is over: no call made after that      *)
(* reaches the service, and none resolves.                                      *)
ResolvedWasDone ==
  \A c \in Calls :
    /\ call[c].stage = "settled" /\ call[c].result = "SUCCESS"
       => call[c].done \/ call[c].method \in ClientOnly[kind]
    /\ call[c].late => ~call[c].done /\ call[c].result # "SUCCESS"

(* The references counted by hand: one for the subscription and one for the     *)
(* callback under way, across off() and on() inside a callback and addresses    *)
(* used again.  A count too low deletes a reference in use, one too high leaks. *)
RefCountsAgree ==
  \A r \in Refs :
    refs[r] = Cardinality({e \in Watched : r \in callbacks[e]})
              + (IF delivering = r THEN 1 ELSE 0)

(* A function is only called with an event it is subscribed to at that moment,  *)
(* although the event was queued for it earlier and its reference may have been *)
(* deleted and its address used again meanwhile.                                *)
OnlySubscribersCalled ==
  [][delivering' # None /\ delivering = None
     => /\ delivering' \in callbacks[Head(ready).event]
        /\ function[delivering'] # None]_vars

(* Every promise settles, whatever is released, refused or dies meanwhile: the   *)
(* page makes a bounded number of calls, so at some time none is left open.      *)
UnderWay == {c \in Calls : call[c].stage \notin {"unmade", "settled"}}
EveryCallSettles == UnderWay # {} ~> UnderWay = {}

(* An event the client got for a subscribed function reaches it, unless off()    *)
(* came first; a release does not silence it.                                    *)
EventsReachSubscribers == owed # {} ~> owed = {}
=============================================================================
