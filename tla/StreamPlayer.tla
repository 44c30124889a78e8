---------------------------- MODULE StreamPlayer ----------------------------
(***************************************************************************)
(* A stream cast from a source to a sink: the source's                     *)
(* RemotePlayerController and CastStreamManagerClient, the sink's          *)
(* CastStreamManagerServer, CastStreamPlayerManager and CastStreamPlayer,  *)
(* all under service/src/session/src/stream/.                              *)
(*                                                                         *)
(* Commands cross to the sink, where one worker thread obeys them in       *)
(* order; the sink's application calls the same player on a binder thread; *)
(* the media player beneath them answers calls at once and tells what      *)
(* became of it later, on a thread of its own; what it tells crosses back  *)
(* to a worker of the source.  A step is what one of these threads does    *)
(* between two points where another can see a difference.                  *)
(*                                                                         *)
(* The two sessions, whose loopers and channel carry the actions, keep     *)
(* their order (Looper, Rtsp), and so does the queue a worker takes them   *)
(* from: the three are one FIFO each way.  External: the media player.     *)
(* Only non-double-frame sessions are modelled, there being no other:      *)
(* CreateStreamPlayerManager sets isDoubleFrame to false (                 *)
(* cast_session_impl.cpp:410).                                             *)
(***************************************************************************)
EXTENDS Naturals, Sequences

CONSTANTS
  Items,        \* what can be played
  Placeholder,  \* the item without a resource, whose url is "http:"
  Unplayable,   \* items the media player may refuse or break at
  MaxCommands,  \* bound: commands of the source's application
  MaxCalls,     \* bound: calls of the sink's application and ends of playbacks
  None          \* no item, no thread, no event

VARIABLES
  streaming,  \* whether both sessions are in state STREAM
  source,     \* the source's stream manager, and what its listener was told
  toSink,     \* control actions on their way to the sink's worker
  toSource,   \* callback actions on their way to the source's worker
  sink,       \* the sink's stream manager, player manager and callback object
  run,        \* what the sink's worker and application are in the middle of
  mutex,      \* CastStreamPlayerManager::mutex_
  loopMutex,  \* CastStreamPlayer::mutex_
  player,     \* the media player
  events,     \* what it has yet to tell
  telling,    \* the state it is telling, already in state_
  commands,   \* how many commands the source gave
  calls,      \* how many calls the sink's application made
  asked,      \* history: the item the source asked for last, and whether to play it
  missed      \* history: something was dropped for want of somebody to take it

sourceVars == <<streaming, source, commands>>
sinkVars == <<sink, run, mutex, loopMutex, calls>>
playerVars == <<player, events>>
streamVars == <<sourceVars, sinkVars, playerVars, toSink, toSource, telling, asked, missed>>

Threads == {"worker", "app"}

Media == Items \cup {Placeholder}

PlayerStates == {"IDLE", "INITIALIZED", "PREPARED", "STARTED", "PAUSED", "STOPPED",
                 "PLAYBACK_COMPLETE", "STATE_ERROR"}

ASSUME StreamAssumption ==
  /\ Placeholder \notin Items
  /\ None \notin Media \cup Threads \cup PlayerStates
  /\ Unplayable \subseteq Items
  /\ MaxCommands \in Nat
  /\ MaxCalls \in Nat

\* What StreamActionProcessor tables name, of what is modelled.
Command == [do : {"load", "play"}, item : Media]
             \cup [do : {"pause", "resume", "stop"}] \cup [do : {"loop"}, mode : BOOLEAN]
Callback == [tells : {"state"}, state : PlayerStates]
              \cup [tells : {"item", "position"}, item : Media]
              \cup [tells : {"error"}] \cup [tells : {"loop"}, mode : BOOLEAN]
Event == [tells : {"state"}, state : PlayerStates] \cup [tells : {"position"}, item : Items]
           \cup [tells : {"error"}]

NoCommand == [do |-> "none"]
Surface == [do |-> "surface"]

-----------------------------------------------------------------------------
(* The source: calls of the application, which the controller turns into   *)
(* control actions.                                                        *)

\* Bound: nothing more is asked, at either end, once something was dropped.
Calls == /\ commands < MaxCommands
         /\ ~missed
         /\ commands' = commands + 1

SendControlAction(action) ==
  /\ toSink' = IF streaming THEN Append(toSink, action) ELSE toSink
  /\ missed' = (missed \/ ~streaming)

\* Load and Play of an item forget the position.
Forget(s) == [s EXCEPT !.position = None]

NotifyPeerLoad(item) ==
  /\ source' = Forget(source)
  /\ SendControlAction([do |-> "load", item |-> item])

NotifyPeerPlay(item) ==
  /\ source' = Forget(source)
  /\ SendControlAction([do |-> "play", item |-> item])

\* Outside STREAM Load only asks the session to switch: the item is kept, and
\* nothing is ever done with it.
TransferToStreamMode == ~streaming

ControllerLoad(item) ==
  /\ Calls
  /\ IF TransferToStreamMode
       THEN UNCHANGED <<source, toSink, asked>> /\ missed' = TRUE
       ELSE /\ NotifyPeerLoad(item)
            /\ asked' = [item |-> item, play |-> FALSE]
  /\ UNCHANGED <<streaming, sinkVars, playerVars, toSource, telling>>

ControllerPlay(item) ==
  /\ Calls
  /\ NotifyPeerPlay(item)
  /\ asked' = [item |-> item, play |-> TRUE]
  /\ UNCHANGED <<streaming, sinkVars, playerVars, toSource, telling>>

NotifyPeer(do) == SendControlAction([do |-> do])

\* Play(), Pause() and Stop() send their action and keep nothing.
ControllerSend(do) ==
  /\ Calls
  /\ NotifyPeer(do)
  /\ asked' = [item |-> IF do = "stop" THEN None ELSE asked.item,
               play |-> asked.play /\ do = "resume"]
  /\ UNCHANGED <<streaming, source, sinkVars, playerVars, toSource, telling>>

NotifyPeerSetRepeatMode(mode) == SendControlAction([do |-> "loop", mode |-> mode])

\* Bound: a mode other than the one that is shown.
ControllerSetLoopMode(mode) ==
  /\ Calls
  /\ mode # source.loop
  /\ NotifyPeerSetRepeatMode(mode)
  /\ UNCHANGED <<streaming, source, sinkVars, playerVars, toSource, telling, asked>>

\* The application's listener comes and goes.
SetListener(there) ==
  /\ source.listener # there
  /\ IF there THEN UNCHANGED commands ELSE Calls
  /\ source' = [source EXCEPT !.listener = there]
  /\ UNCHANGED <<streaming, sinkVars, playerVars, toSink, toSource, telling, asked, missed>>

\* MSG_SWITCH_TO_STREAM reached both sessions.
SwitchToStream ==
  /\ ~streaming
  /\ streaming' = TRUE
  /\ UNCHANGED <<source, commands, sinkVars, playerVars, toSink, toSource, telling, asked, missed>>

-----------------------------------------------------------------------------
(* The source's worker: what the sink told.                                *)

\* The position is told at the end of a playback too, which no variable shows.
PlayerStatusChanged(state) ==
  [source EXCEPT !.state = state, !.timer = (state = "STARTED")]

PositionChanged(item) ==
  [source EXCEPT !.position = item, !.timer = @ \/ source.state = "STARTED"]

\* The state is reset here and the timer is not.
MediaItemChanged(item) ==
  [source EXCEPT !.item = item, !.state = "IDLE", !.error = FALSE]

PlayerError == [source EXCEPT !.error = TRUE]

RepeatModeChanged(mode) == [source EXCEPT !.loop = mode]

Told(callback) ==
  CASE callback.tells = "state" -> PlayerStatusChanged(callback.state)
    [] callback.tells = "position" -> PositionChanged(callback.item)
    [] callback.tells = "item" -> MediaItemChanged(callback.item)
    [] callback.tells = "error" -> PlayerError
    [] callback.tells = "loop" -> RepeatModeChanged(callback.mode)

\* Without a listener an action is dropped before any state is updated.
PlayerListenerGetter ==
  /\ toSource # <<>>
  /\ toSource' = Tail(toSource)
  /\ source' = IF source.listener THEN Told(Head(toSource)) ELSE source
  /\ missed' = (missed \/ ~source.listener)
  /\ UNCHANGED <<streaming, commands, sinkVars, playerVars, toSink, telling, asked>>

-----------------------------------------------------------------------------
(* The media player, as the calls in cast_stream_player.cpp use it: each   *)
(* call succeeds in some states and queues the change it made.             *)

States(states) == [i \in 1..Len(states) |-> [tells |-> "state", state |-> states[i]]]

Becomes(state) ==
  /\ player' = [player EXCEPT !.state = state]
  /\ events' = events \o States(<<state>>)

CanSetSource == player.state = "IDLE"
CanPlay == player.state \in {"PREPARED", "PAUSED", "PLAYBACK_COMPLETE"}
CanPause == player.state = "STARTED"
CanStop == player.state \in {"PREPARED", "STARTED", "PAUSED", "PLAYBACK_COMPLETE"}
CanReset == player.state # "IDLE"

\* Stop and Reset, either of which may be refused.
StoppedPlayer == [player EXCEPT !.state = "IDLE", !.item = None]
StopEvents == States((IF CanStop THEN <<"STOPPED">> ELSE <<>>)
                       \o (IF CanReset THEN <<"IDLE">> ELSE <<>>))

-----------------------------------------------------------------------------
(* What the sink tells: its own listener first, and without one nobody.    *)

ReportedFirst(reports) ==
  /\ toSource' = IF sink.listener THEN reports \o toSource ELSE toSource
  /\ missed' = (missed \/ ~sink.listener)

Reported(reports) ==
  /\ toSource' = IF sink.listener THEN toSource \o reports ELSE toSource
  /\ missed' = (missed \/ ~sink.listener)

OnMediaItemChanged(item) == Reported(<<[tells |-> "item", item |-> item]>>)

OnPlayerErrorUntold == Reported(<<>>)

OnPlayerError == Reported(<<[tells |-> "error"]>>)

OnLoopModeChanged(mode) == Reported(<<[tells |-> "loop", mode |-> mode]>>)

-----------------------------------------------------------------------------
(* The sink's player manager.  Load, InnerPlay, SetSurface and Stop hold   *)
(* mutex_; the other calls go to the player whoever holds it.              *)

Goes(t, pc) == run' = [run EXCEPT ![t].pc = pc]
Returns(t) == run' = [run EXCEPT ![t] = [pc |-> "idle", call |-> NoCommand]]

\* The callback object's own copy of the state, which follows the player's.
IsNeededToReset == sink.state # "IDLE"

\* Load and InnerPlay up to InnerPlayLocked: what was playing is stopped, the
\* item remembered, and without a surface that is all.
LoadLocked(t) ==
  LET call == run[t].call
      reset == IsNeededToReset
      flags == IF reset THEN [load |-> FALSE, play |-> FALSE]
                        ELSE [load |-> sink.load, play |-> sink.play]
  IN  /\ player' = IF reset THEN StoppedPlayer ELSE player
      /\ events' = IF reset THEN events \o StopEvents ELSE events
      /\ IF sink.surface
           THEN /\ sink' = [sink EXCEPT !.mediaInfo = call.item, !.load = flags.load, !.play = flags.play]
                /\ mutex' = t
                /\ Goes(t, IF call.do = "load" /\ call.item = Placeholder THEN "placeholder" ELSE "announce")
           ELSE /\ sink' = [sink EXCEPT !.mediaInfo = call.item,
                                        !.load = (call.do = "load"), !.play = (call.do = "play")]
                /\ mutex' = None
                /\ Returns(t)

\* SetSurface plays what was asked for while there was none; it does not stop
\* what plays already.
SurfaceLocked(t) ==
  /\ sink' = [sink EXCEPT !.surface = TRUE]
  /\ IF sink.play \/ sink.load
       THEN mutex' = t /\ Goes(t, "announce")
       ELSE mutex' = None /\ Returns(t)
  /\ UNCHANGED playerVars

StopLocked(t) ==
  /\ sink' = [sink EXCEPT !.load = FALSE, !.play = FALSE]
  /\ player' = StoppedPlayer
  /\ events' = events \o StopEvents
  /\ mutex' = None
  /\ Returns(t)

Lock(t) ==
  /\ run[t].pc = "lock"
  /\ mutex = None
  /\ \/ run[t].call.do \in {"load", "play"} /\ LoadLocked(t)
     \/ run[t].call.do = "surface" /\ SurfaceLocked(t)
     \/ run[t].call.do = "stop" /\ StopLocked(t)
  /\ asked' = IF t = "app" /\ run[t].call.do = "stop" THEN [item |-> None, play |-> FALSE] ELSE asked
  /\ UNCHANGED <<sourceVars, loopMutex, calls, toSink, toSource, telling, missed>>

\* Without a resource there is nothing to play: the item is told and the flags
\* are left as they are.
LoadPlaceholder(t) ==
  /\ run[t].pc = "placeholder"
  /\ OnMediaItemChanged(Placeholder)
  /\ mutex' = None
  /\ Returns(t)
  /\ UNCHANGED <<sourceVars, sink, loopMutex, calls, playerVars, toSink, telling, asked>>

\* InnerPlayLocked: the item is told before the player is given it.
Announce(t) ==
  /\ run[t].pc = "announce"
  /\ OnMediaItemChanged(sink.mediaInfo)
  /\ Goes(t, "source")
  /\ UNCHANGED <<sourceVars, sink, mutex, loopMutex, calls, playerVars, toSink, telling, asked>>

\* isLoading: Load, and SetSurface after a Load, stop when prepared.
IsLoading(t) == IF run[t].call.do = "surface" THEN ~sink.play ELSE run[t].call.do = "load"

\* What the player is after SetSource, Prepare and, unless loading, Play, each
\* after the one before and as long as none is refused.
SetSource(item) == [player EXCEPT !.state = "INITIALIZED", !.item = item]
Prepare(item) == [SetSource(item) EXCEPT !.state = "PREPARED"]
Start(item) == [SetSource(item) EXCEPT !.state = "STARTED"]

\* The flags follow a Load or Play that succeeded.
Flagged(call) ==
  IF call.do = "surface" THEN sink
  ELSE [sink EXCEPT !.load = (call.do = "load"), !.play = (call.do = "play")]

\* InnerPlayLocked after the telling, to the end of the call when it succeeds.
Refused ==
  \/ ~CanSetSource /\ UNCHANGED playerVars
  \/ /\ CanSetSource
     /\ sink.mediaInfo \in Unplayable \cup {Placeholder}
     /\ player' = SetSource(sink.mediaInfo)
     /\ events' = events \o States(<<"INITIALIZED">>)

InnerPlayFails(t) ==
  /\ run[t].pc = "source"
  /\ Refused
  /\ Goes(t, "fail")
  /\ UNCHANGED <<sourceVars, sink, mutex, loopMutex, calls, toSink, toSource, telling, asked, missed>>

InnerPlayLocked(t) ==
  /\ run[t].pc = "source"
  /\ CanSetSource
  /\ sink.mediaInfo # Placeholder
  /\ IF IsLoading(t)
       THEN /\ player' = Prepare(sink.mediaInfo)
            /\ events' = events \o States(<<"INITIALIZED", "PREPARED">>)
       ELSE /\ player' = Start(sink.mediaInfo)
            /\ events' = events \o States(<<"INITIALIZED", "PREPARED", "STARTED">>)
  /\ sink' = Flagged(run[t].call)
  /\ mutex' = None
  /\ Returns(t)
  /\ UNCHANGED <<sourceVars, loopMutex, calls, toSink, toSource, telling, asked, missed>>

\* One that failed leaves them, and tells PLAY_FAILED.
Fail(t) ==
  /\ run[t].pc = "fail"
  /\ OnPlayerError
  /\ mutex' = None
  /\ Returns(t)
  /\ UNCHANGED <<sourceVars, sink, loopMutex, calls, playerVars, toSink, telling, asked>>

\* Calls that fail here are told to nobody.
Pause == IF CanPause THEN Becomes("PAUSED") ELSE UNCHANGED playerVars

Resume == IF CanPlay THEN Becomes("STARTED") ELSE UNCHANGED playerVars

\* SetLoopMode reports the mode before it stores it, under the player's mutex_.
SetLoopMode(t, mode) ==
  /\ loopMutex = None
  /\ loopMutex' = t
  /\ player' = [player EXCEPT !.looping = mode]
  /\ OnLoopModeChanged(mode)
  /\ run' = [run EXCEPT ![t] = [pc |-> "loop", call |-> [do |-> "loop", mode |-> mode]]]
  /\ UNCHANGED events

StoreLoopMode(t) ==
  /\ run[t].pc = "loop"
  /\ sink' = [sink EXCEPT !.loopMode = run[t].call.mode]
  /\ loopMutex' = None
  /\ Returns(t)
  /\ UNCHANGED <<sourceVars, mutex, calls, playerVars, toSink, toSource, telling, asked, missed>>

-----------------------------------------------------------------------------
(* The sink's worker: Handle and the ProcessAction handlers.               *)

Takes == /\ run["worker"].pc = "idle"
         /\ toSink # <<>>
         /\ toSink' = Tail(toSink)

\* Load, Play and Stop wait for mutex_.
ProcessLocking ==
  /\ Takes
  /\ sink.created
  /\ Head(toSink).do \in {"load", "play", "stop"}
  /\ run' = [run EXCEPT !["worker"] = [pc |-> "lock", call |-> Head(toSink)]]
  /\ UNCHANGED <<sourceVars, sink, mutex, loopMutex, calls, playerVars, toSource, telling, asked, missed>>

ProcessActionPause ==
  /\ Takes
  /\ sink.created
  /\ Head(toSink).do = "pause"
  /\ Pause
  /\ UNCHANGED <<sourceVars, sinkVars, toSource, telling, asked, missed>>

ProcessActionResume ==
  /\ Takes
  /\ sink.created
  /\ Head(toSink).do = "resume"
  /\ Resume
  /\ UNCHANGED <<sourceVars, sinkVars, toSource, telling, asked, missed>>

ProcessActionSetRepeatMode ==
  /\ Takes
  /\ sink.created
  /\ Head(toSink).do = "loop"
  /\ SetLoopMode("worker", Head(toSink).mode)
  /\ UNCHANGED <<sourceVars, sink, mutex, calls, telling, asked>>

\* Until the sink's application creates its player, an action finds none.
PlayerGetter ==
  /\ Takes
  /\ ~sink.created
  /\ missed' = TRUE
  /\ UNCHANGED <<sourceVars, sinkVars, playerVars, toSource, telling, asked>>

Worker ==
  \/ ProcessLocking \/ ProcessActionPause \/ ProcessActionResume
  \/ ProcessActionSetRepeatMode \/ PlayerGetter

-----------------------------------------------------------------------------
(* The sink's application, on a binder thread.                             *)

AppCalls == /\ run["app"].pc = "idle"
            /\ calls < MaxCalls
            /\ ~missed
            /\ calls' = calls + 1

CreateStreamPlayer ==
  /\ ~sink.created
  /\ sink' = [sink EXCEPT !.created = TRUE]
  /\ UNCHANGED <<sourceVars, run, mutex, loopMutex, calls, playerVars, toSink, toSource, telling, asked, missed>>

RegisterListener(there) ==
  /\ sink.created
  /\ sink.listener # there
  /\ run["app"].pc = "idle"
  /\ IF there THEN UNCHANGED calls ELSE AppCalls
  /\ sink' = [sink EXCEPT !.listener = there]
  /\ UNCHANGED <<sourceVars, run, mutex, loopMutex, playerVars, toSink, toSource, telling, asked, missed>>

AppLocks(call) ==
  /\ sink.created
  /\ AppCalls
  /\ run' = [run EXCEPT !["app"] = [pc |-> "lock", call |-> call]]
  /\ UNCHANGED <<sourceVars, sink, mutex, loopMutex, playerVars, toSink, toSource, telling, asked, missed>>

AppPauses ==
  /\ sink.created
  /\ AppCalls
  /\ Pause
  /\ asked' = [asked EXCEPT !.play = FALSE]
  /\ UNCHANGED <<sourceVars, sink, run, mutex, loopMutex, toSink, toSource, telling, missed>>

AppSetsLoopMode(mode) ==
  /\ sink.created
  /\ AppCalls
  /\ mode # sink.loopMode
  /\ SetLoopMode("app", mode)
  /\ UNCHANGED <<sourceVars, sink, mutex, toSink, telling, asked>>

-----------------------------------------------------------------------------
(* The media player's thread.                                              *)

Outstanding(tells) == \E i \in 1..Len(events) : events[i].tells \in tells

Plays == player.state = "STARTED"

\* Bound: an end of a playback counts as a call does.
Ends == /\ Plays
        /\ calls < MaxCalls
        /\ calls' = calls + 1

PlaybackCompletes ==
  /\ Ends
  /\ ~player.looping
  /\ Becomes("PLAYBACK_COMPLETE")
  /\ UNCHANGED <<sourceVars, sink, run, mutex, loopMutex, toSink, toSource, telling, asked, missed>>

PlaybackBreaks ==
  /\ Ends
  /\ player.item \in Unplayable
  /\ player' = [player EXCEPT !.state = "STATE_ERROR"]
  /\ events' = events \o <<[tells |-> "error"]>> \o States(<<"STATE_ERROR">>)
  /\ UNCHANGED <<sourceVars, sink, run, mutex, loopMutex, toSink, toSource, telling, asked, missed>>

\* Bound: one position at a time, and none of an item of which the source has one.
PositionUpdate ==
  /\ Plays
  /\ source.position # player.item
  /\ ~Outstanding({"position"})
  /\ \A i \in 1..Len(toSource) : toSource[i].tells # "position"
  /\ events' = Append(events, [tells |-> "position", item |-> player.item])
  /\ UNCHANGED <<sourceVars, sinkVars, player, toSink, toSource, telling, asked, missed>>

\* OnInfo of a state: state_ first, and the telling after it.
SetState ==
  /\ telling = None
  /\ events # <<>>
  /\ Head(events).tells = "state"
  /\ sink' = [sink EXCEPT !.state = Head(events).state]
  /\ telling' = Head(events).state
  /\ events' = Tail(events)
  /\ UNCHANGED <<sourceVars, run, mutex, loopMutex, calls, player, toSink, toSource, asked, missed>>

OnStateChangedKeepingTime(state) ==
  /\ sink' = sink
  /\ Reported(<<[tells |-> "state", state |-> state]>>)

\* Every other state than STARTED ends the timed positions, listener or not.
OnStateChanged(state) ==
  /\ sink' = IF state = "STARTED" THEN sink ELSE [sink EXCEPT !.syncTimer = FALSE]
  /\ Reported(<<[tells |-> "state", state |-> state]>>)

TellState ==
  /\ telling # None
  /\ OnStateChanged(telling)
  /\ telling' = None
  /\ UNCHANGED <<sourceVars, run, mutex, loopMutex, calls, playerVars, toSink, asked>>

\* The first position after a start is told and starts the timer; later ones
\* are told when they are out of step.  Without a duration none is.
OnPositionChanged ==
  /\ telling = None
  /\ events # <<>>
  /\ Head(events).tells = "position"
  /\ events' = Tail(events)
  /\ IF player.state \in {"IDLE", "INITIALIZED"} \/ ~sink.listener
       THEN UNCHANGED <<sink, toSource>>
       ELSE LET told == Append(toSource, [tells |-> "position", item |-> Head(events).item])
            IN  \/ /\ sink.state = "STARTED"
                   /\ ~sink.syncTimer
                   /\ sink' = [sink EXCEPT !.syncTimer = TRUE, !.curPosition = Head(events).item]
                   /\ toSource' = told
                \/ /\ sink.state = "STARTED"
                   /\ sink.syncTimer
                   /\ sink' = [sink EXCEPT !.curPosition = Head(events).item]
                   /\ toSource' \in {toSource, told}
                \/ /\ sink.state # "STARTED"
                   /\ toSource' = told
                   /\ UNCHANGED sink
  /\ missed' = (missed \/ ~sink.listener)
  /\ UNCHANGED <<sourceVars, run, mutex, loopMutex, calls, player, toSink, telling, asked>>

OnError ==
  /\ telling = None
  /\ events # <<>>
  /\ Head(events).tells = "error"
  /\ events' = Tail(events)
  /\ OnPlayerError
  /\ UNCHANGED <<sourceVars, sinkVars, player, toSink, telling, asked>>

\* The timer's thread.  Bound: as for PositionUpdate.
AutoSyncPosition ==
  /\ sink.syncTimer
  /\ source.position # sink.curPosition
  /\ \A i \in 1..Len(toSource) : toSource[i].tells # "position"
  /\ toSource' = Append(toSource, [tells |-> "position", item |-> sink.curPosition])
  /\ UNCHANGED <<sourceVars, sinkVars, playerVars, toSink, telling, asked, missed>>

Telling == SetState \/ TellState \/ OnPositionChanged \/ OnError

-----------------------------------------------------------------------------
\* A session that begins to stream, or one whose ends have got ready to play.
StreamInit ==
  /\ streaming \in BOOLEAN
  /\ source = [listener |-> streaming, state |-> "IDLE", item |-> None, error |-> FALSE,
               timer |-> FALSE, position |-> None, loop |-> FALSE]
  /\ toSink = <<>>
  /\ toSource = <<>>
  /\ sink = [created |-> streaming, listener |-> streaming, surface |-> streaming,
             mediaInfo |-> None, load |-> FALSE, play |-> FALSE, state |-> "IDLE",
             syncTimer |-> FALSE, curPosition |-> None, loopMode |-> FALSE]
  /\ run = [t \in Threads |-> [pc |-> "idle", call |-> NoCommand]]
  /\ mutex = None
  /\ loopMutex = None
  /\ player = [state |-> "IDLE", item |-> None, looping |-> FALSE]
  /\ events = <<>>
  /\ telling = None
  /\ commands = 0
  /\ calls = 0
  /\ asked = [item |-> None, play |-> FALSE]
  /\ missed = FALSE

Playing(t) ==
  \/ Lock(t) \/ LoadPlaceholder(t) \/ Announce(t)
  \/ InnerPlayFails(t) \/ InnerPlayLocked(t) \/ Fail(t) \/ StoreLoopMode(t)

SourceApp ==
  \/ \E item \in Media : ControllerLoad(item)
  \/ \E item \in Items : ControllerPlay(item)
  \/ \E do \in {"pause", "resume", "stop"} : ControllerSend(do)
  \/ \E mode \in BOOLEAN : ControllerSetLoopMode(mode)
  \/ \E there \in BOOLEAN : SetListener(there)

SinkApp ==
  \/ CreateStreamPlayer
  \/ \E there \in BOOLEAN : RegisterListener(there)
  \/ \E call \in {Surface, [do |-> "stop"]} : AppLocks(call)
  \/ AppPauses
  \/ \E mode \in BOOLEAN : AppSetsLoopMode(mode)

StreamNext ==
  \/ SourceApp \/ SwitchToStream \/ PlayerListenerGetter
  \/ Worker \/ SinkApp \/ Telling \/ AutoSyncPosition
  \/ \E t \in Threads : Playing(t)
  \/ PlaybackCompletes \/ PlaybackBreaks \/ PositionUpdate

\* Each thread goes on while it can, and a player that plays says where.
StreamFairness ==
  /\ WF_streamVars(Worker)
  /\ \A t \in Threads : WF_streamVars(Playing(t))
  /\ WF_streamVars(Telling)
  /\ WF_streamVars(PlayerListenerGetter)
  /\ WF_streamVars(PositionUpdate)

StreamSpec == StreamInit /\ [][StreamNext]_streamVars

StreamFairSpec == StreamSpec /\ StreamFairness

-----------------------------------------------------------------------------
Called == [pc : {"idle"}, call : {NoCommand}]
  \cup [pc : {"lock", "announce", "source", "fail", "placeholder"},
        call : [do : {"load", "play"}, item : Media] \cup {Surface, [do |-> "stop"]}]
  \cup [pc : {"loop"}, call : [do : {"loop"}, mode : BOOLEAN]]

\* Every variable has its type, and mutex_ is held by whoever plays or stops.
StreamTypeOK ==
  /\ streaming \in BOOLEAN
  /\ source \in [listener : BOOLEAN, state : PlayerStates,
                 item : Media \cup {None}, error : BOOLEAN, timer : BOOLEAN,
                 position : Media \cup {None}, loop : BOOLEAN]
  /\ toSink \in Seq(Command)
  /\ toSource \in Seq(Callback)
  /\ sink \in [created : BOOLEAN, listener : BOOLEAN, surface : BOOLEAN,
               mediaInfo : Media \cup {None}, load : BOOLEAN, play : BOOLEAN,
               state : PlayerStates, syncTimer : BOOLEAN,
               curPosition : Media \cup {None}, loopMode : BOOLEAN]
  /\ run \in [Threads -> Called]
  /\ mutex \in Threads \cup {None}
  /\ loopMutex \in Threads \cup {None}
  /\ player \in [state : PlayerStates, item : Media \cup {None}, looping : BOOLEAN]
  /\ events \in Seq(Event)
  /\ telling \in PlayerStates \cup {None}
  /\ commands \in 0..MaxCommands
  /\ calls \in 0..MaxCalls
  /\ asked \in [item : Media \cup {None}, play : BOOLEAN]
  /\ missed \in BOOLEAN
  /\ \A t \in Threads :
       mutex = t <=> run[t].pc \in {"announce", "source", "fail", "placeholder"}

\* Nothing is under way and nothing was dropped.
Settled ==
  /\ toSink = <<>>
  /\ toSource = <<>>
  /\ events = <<>>
  /\ telling = None
  /\ \A t \in Threads : run[t].pc = "idle"
  /\ ~missed

\* An item that was asked for is in the player when all has settled, and
\* playing if that was asked; or it waits for a surface, with the flag that
\* makes the surface play it; or the source was told of an error after the item.
NoSilentFailure ==
  Settled /\ asked.item \in Items /\ ~source.error =>
    IF sink.surface
      THEN /\ player.item = asked.item
           /\ asked.play => player.state \in {"STARTED", "PLAYBACK_COMPLETE"}
      ELSE /\ sink.mediaInfo = asked.item
           /\ sink.play \/ (sink.load /\ ~asked.play)

\* When all has settled the player, its manager at the sink and the source have
\* one loop mode, and the source shows the state the player is in and counts
\* time just when that is playing: unless it was told of an error or shows the
\* item that has nothing to play (cast_stream_player.cpp:1267,
\* cast_stream_manager_client.cpp:474).
SourceMirrorsPlayer ==
  Settled =>
    /\ source.loop = sink.loopMode /\ player.looping = sink.loopMode
    /\ ~source.error /\ source.item # Placeholder =>
         /\ source.state = player.state
         /\ source.timer <=> source.state = "STARTED"

\* A player that plays an item gets its position to the source, whatever the
\* timer that spares positions was doing for the item before.
PositionArrives ==
  \A item \in Items :
    (player.item = item /\ Plays)
      ~> (source.position = item \/ player.item # item \/ ~Plays \/ missed)

=============================================================================
