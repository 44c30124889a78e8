--------------------------- MODULE LooperPromise ---------------------------
(***************************************************************************)
(* What a session relies on its looper (utils/src/handler.cpp) for, with   *)
(* nothing of its thread, lock and condition variable: every message is    *)
(* handed over once, one at a time, the one with the earliest due time     *)
(* first and never before that time, and the looper ends when it was told  *)
(* to stop and, if told to stop safely, has nothing left to hand over.     *)
(***************************************************************************)
EXTENDS Naturals

CONSTANTS
  Immediate,    \* kinds of messages that are posted without a delay
  Delayed,      \* the one kind that is posted with one: MSG_CONNECT_TIMEOUT
  Timeout,      \* the delay
  MaxTime,      \* bound: the clock stops here
  MaxMessages   \* bound: messages posted in a behaviour

VARIABLES
  now,            \* the clock
  posted,         \* how many messages have been posted
  pending,        \* messages that wait
  current,        \* the message being handled, or NoMessage
  stop,           \* told to stop at once
  stopWhenEmpty,  \* told to stop when nothing is left
  ended           \* the looper has stopped

vars == <<now, posted, pending, current, stop, stopWhenEmpty, ended>>

Message == [id : 1..MaxMessages, what : Immediate \cup {Delayed}, when : 0..MaxTime]
NoMessage == [id |-> 0]

Init ==
  /\ now = 0
  /\ posted = 0
  /\ pending = {}
  /\ current = NoMessage
  /\ stop = FALSE
  /\ stopWhenEmpty = FALSE
  /\ ended = FALSE

\* A message of one's own making; only the handler of a message delays one.
Post ==
  /\ posted < MaxMessages
  /\ posted' = posted + 1
  /\ \E what \in Immediate \cup {Delayed}, when \in 0..MaxTime :
       /\ pending' = pending \cup {[id |-> posted + 1, what |-> what, when |-> when]}
       /\ what \in Immediate => when <= now
       /\ what = Delayed => current # NoMessage
  /\ UNCHANGED <<now, current, stop, stopWhenEmpty, ended>>

\* Delayed messages can be taken back.
TakeBack ==
  /\ pending' = {m \in pending : m.what # Delayed}
  /\ UNCHANGED <<now, posted, current, stop, stopWhenEmpty, ended>>

Due(m) == m.when <= now /\ \A n \in pending : m.when <= n.when

HandOver ==
  /\ ~ended
  /\ current = NoMessage
  /\ \E m \in pending :
       /\ Due(m)
       /\ pending' = pending \ {m}
       /\ current' = m
  /\ UNCHANGED <<now, posted, stop, stopWhenEmpty, ended>>

Finish ==
  /\ current # NoMessage
  /\ current' = NoMessage
  /\ UNCHANGED <<now, posted, pending, stop, stopWhenEmpty, ended>>

TellToStop ==
  /\ \/ stop' = TRUE /\ UNCHANGED stopWhenEmpty
     \/ stopWhenEmpty' = TRUE /\ UNCHANGED stop
  /\ UNCHANGED <<now, posted, pending, current, ended>>

End ==
  /\ ~ended
  /\ current = NoMessage
  /\ stop \/ (stopWhenEmpty /\ pending = {})
  /\ ended' = TRUE
  /\ UNCHANGED <<now, posted, pending, current, stop, stopWhenEmpty>>

Tick ==
  /\ now < MaxTime
  /\ now' = now + 1
  /\ UNCHANGED <<posted, pending, current, stop, stopWhenEmpty, ended>>

Next == Post \/ TakeBack \/ HandOver \/ Finish \/ TellToStop \/ End \/ Tick

\* What is due is handed over, a handler returns, and the looper ends when
\* told to.
Fairness == WF_vars(HandOver \/ End) /\ WF_vars(Finish) /\ WF_vars(Tick)

SafeSpec == Init /\ [][Next]_vars
Spec == SafeSpec /\ Fairness
=============================================================================
