------------------------------- MODULE Looper -------------------------------
(***************************************************************************)
(* The looper of a session: utils/src/handler.cpp.  A thread takes         *)
(* messages from a queue ordered by due time, under a mutex and a          *)
(* condition variable; any thread posts, removes and stops.  Every other   *)
(* thread's operation is one critical section and one action here; the     *)
(* looper's own critical section is cut where its waits release the mutex. *)
(*                                                                         *)
(* The API is used as the session uses it: delayed messages are all of one *)
(* kind, only handlers post them (cast_session_state.cpp) and only they    *)
(* are ever removed, by handlers and by CastSessionImpl::Stop.  The queue  *)
(* is a set, of which the sort leaves a message of least due time at the   *)
(* back: which one of equals is not for the code to say.                   *)
(***************************************************************************)
EXTENDS Naturals

CONSTANTS
  Immediate,    \* kinds of messages that are posted without a delay
  Delayed,      \* the one kind that is posted with one: MSG_CONNECT_TIMEOUT
  Timeout,      \* the delay
  MaxTime,      \* bound: the clock stops here
  MaxMessages   \* bound: messages posted in a behaviour

ASSUME KindsAssumption == Delayed \notin Immediate
ASSUME BoundsAssumption == Timeout \in Nat /\ MaxTime \in Nat /\ MaxMessages \in Nat

VARIABLES
  pc,             \* where the looper is
  deadline,       \* the due time it waits for
  notified,       \* a notification has ended its wait
  msgQueue,       \* msgQueue_
  msg,            \* the message it handles, or NoMessage
  stop,           \* stop_
  stopWhenEmpty,  \* stopWhenEmpty_
  now,            \* the clock
  posted          \* messages posted so far: their identities

vars == <<pc, deadline, notified, msgQueue, msg, stop, stopWhenEmpty, now, posted>>
looperVars == <<pc, deadline, notified, msg>>

Message == [id : 1..MaxMessages, what : Immediate \cup {Delayed}, when : 0..MaxTime]
NoMessage == [id |-> 0]
Waiting == {"wait", "waitUntil"}

\* Types; the looper holds a message exactly while it handles one, and only
\* a waiting looper can be notified.
TypeOK ==
  /\ pc \in {"loop", "wait", "waitUntil", "handle", "exited"}
  /\ deadline \in 0..MaxTime
  /\ notified \in BOOLEAN
  /\ msgQueue \subseteq Message
  /\ msg \in Message \cup {NoMessage}
  /\ stop \in BOOLEAN
  /\ stopWhenEmpty \in BOOLEAN
  /\ now \in 0..MaxTime
  /\ posted \in 0..MaxMessages
  /\ msg # NoMessage <=> pc = "handle"
  /\ notified => pc \in Waiting

Init ==
  /\ pc = "loop"
  /\ deadline = 0
  /\ notified = FALSE
  /\ msgQueue = {}
  /\ msg = NoMessage
  /\ stop = FALSE
  /\ stopWhenEmpty = FALSE
  /\ now = 0
  /\ posted = 0

(***************************************************************************)
(* The looper's thread.                                                    *)
(***************************************************************************)
\* Bug: stop_ is only looked at when the queue is empty.
MustLeaveWhenEmpty == (stopWhenEmpty \/ stop) /\ msgQueue = {}

MustLeave == (stopWhenEmpty /\ msgQueue = {}) \/ stop

Back == {m \in msgQueue : \A n \in msgQueue : m.when <= n.when}

GoTo(place) == pc' = place /\ notified' = FALSE

\* The checks under the mutex and the wait they lead to.
Leave ==
  /\ MustLeave
  /\ GoTo("exited")
  /\ UNCHANGED deadline

WaitUntilDue ==
  /\ ~MustLeave
  /\ \E m \in Back : deadline' = m.when
  /\ GoTo("waitUntil")

WaitEmpty(place) ==
  /\ ~MustLeave
  /\ msgQueue = {}
  /\ GoTo(place)
  /\ UNCHANGED deadline

Others == <<msg, msgQueue, stop, stopWhenEmpty, now, posted>>

Loop ==
  /\ pc = "loop"
  /\ Leave \/ WaitUntilDue \/ WaitEmpty("wait")
  /\ UNCHANGED Others

\* condition_.wait returns: it has no predicate, so the checks are made again.
WaitReturns ==
  /\ pc = "wait"
  /\ notified
  /\ Leave \/ WaitUntilDue \/ WaitEmpty("loop")
  /\ UNCHANGED Others

\* condition_.wait_until returns before its time.
WaitUntilReturns ==
  /\ pc = "waitUntil"
  /\ notified
  /\ now < deadline
  /\ GoTo("loop")
  /\ UNCHANGED <<deadline, Others>>

\* Bug: the result of wait_until is not looked at.
WakeupTakes ==
  /\ pc = "waitUntil"
  /\ notified \/ now >= deadline
  /\ \E m \in Back :
       /\ msgQueue' = msgQueue \ {m}
       /\ msg' = m
  /\ GoTo("handle")
  /\ UNCHANGED <<deadline, stop, stopWhenEmpty, now, posted>>

\* It times out, notified or not: what is at the back now is handled, even
\* when it is not what was waited for, and even when the looper must stop.
TimeoutTakes ==
  /\ pc = "waitUntil"
  /\ now >= deadline
  /\ \E m \in Back :
       /\ msgQueue' = msgQueue \ {m}
       /\ msg' = m
  /\ GoTo("handle")
  /\ UNCHANGED <<deadline, stop, stopWhenEmpty, now, posted>>

TimeoutFindsNothing ==
  /\ pc = "waitUntil"
  /\ now >= deadline
  /\ msgQueue = {}
  /\ GoTo("loop")
  /\ UNCHANGED <<deadline, Others>>

HandleMessageReturns ==
  /\ pc = "handle"
  /\ GoTo("loop")
  /\ msg' = NoMessage
  /\ UNCHANGED <<deadline, msgQueue, stop, stopWhenEmpty, now, posted>>

\* A wait may end for no reason.
SpuriousWakeup ==
  /\ pc \in Waiting
  /\ notified' = TRUE
  /\ UNCHANGED <<pc, deadline, Others>>

(***************************************************************************)
(* Any thread, the looper's own included while it handles a message.       *)
(***************************************************************************)
Notify ==
  /\ notified' = (notified \/ pc \in Waiting)
  /\ UNCHANGED <<pc, deadline, msg>>

\* A message takes its due time when it is made, before the mutex is asked for.
Enqueue(what, delay) ==
  /\ posted < MaxMessages
  /\ posted' = posted + 1
  /\ \E made \in 0..now :
       /\ made + delay <= MaxTime
       /\ msgQueue' = msgQueue \cup
            {[id |-> posted + 1, what |-> what, when |-> made + delay]}
  /\ UNCHANGED <<stop, stopWhenEmpty, now>>

SendCastMessage ==
  /\ \E what \in Immediate : Enqueue(what, 0)
  /\ Notify

SendCastMessageDelayed ==
  /\ pc = "handle"
  /\ Enqueue(Delayed, Timeout)
  /\ Notify

RemoveMessage ==
  /\ msgQueue' = {m \in msgQueue : m.what # Delayed}
  /\ Notify
  /\ UNCHANGED <<stop, stopWhenEmpty, now, posted>>

StopSafty(stopSafty) ==
  /\ IF stopSafty THEN stopWhenEmpty' = TRUE /\ UNCHANGED stop
                  ELSE stop' = TRUE /\ UNCHANGED stopWhenEmpty
  /\ Notify
  /\ UNCHANGED <<msgQueue, now, posted>>

Tick ==
  /\ now < MaxTime
  /\ now' = now + 1
  /\ UNCHANGED <<looperVars, msgQueue, stop, stopWhenEmpty, posted>>

LooperNext ==
  \/ Loop \/ WaitReturns \/ WaitUntilReturns
  \/ TimeoutTakes \/ TimeoutFindsNothing \/ HandleMessageReturns

Next ==
  \/ LooperNext \/ SpuriousWakeup \/ Tick
  \/ SendCastMessage \/ SendCastMessageDelayed \/ RemoveMessage
  \/ \E stopSafty \in BOOLEAN : StopSafty(stopSafty)

\* The looper's thread runs when it can, handlers return, and time passes.
Spec == Init /\ [][Next]_vars /\ WF_vars(LooperNext) /\ WF_vars(Tick)

(***************************************************************************)
(* Properties.                                                             *)
(***************************************************************************)
\* The looper keeps its promise to the session (LooperPromise): it hands
\* every message over once, in order of due time, none early, although it
\* takes what is at the back after its wait and not what it waited for; no
\* wake-up is lost, and it ends when told to.
Promise == INSTANCE LooperPromise WITH
  pending <- msgQueue, current <- msg, ended <- (pc = "exited")

KeepsPromise == Promise!Spec

\* After StopSafty(false) only the message that was already due when the
\* looper waited is still handled: a looper that checks the flag leaves.
StopIsFinal ==
  [][stop /\ pc \in {"loop", "wait", "handle"} => pc' \in {pc, "loop", "exited"}]_vars
=============================================================================
