--------------------------- MODULE TransportProofs --------------------------
(***************************************************************************)
(* What carries a session: the looper of its messages (Looper) and its     *)
(* channels (Channels), each proved for every value of its constants.      *)
(*                                                                         *)
(* Looper keeps the safety half of LooperPromise for every set of kinds,   *)
(* delay and bound.  The step that needs an invariant is TimeoutTakes: it  *)
(* takes the back of the queue because its wait timed out, and what it     *)
(* takes is due because whatever made the deadline go away left only       *)
(* messages that were due when they were posted.                           *)
(*                                                                         *)
(* Channels returns what it opened, with its mutex free, and hands on only *)
(* what is its own: ChannelsIInv says, of every place the threads of a     *)
(* connection can be at, what they still hold, and which map entry or      *)
(* socket is theirs.                                                       *)
(***************************************************************************)
EXTENDS Looper, Channels, FiniteSetTheorems, WellFoundedInduction, TLAPS

(***************************************************************************)
(* Messages.                                                               *)
(***************************************************************************)
\* A message is told from NoMessage by its identity (handler.cpp:30).
LEMMA MessageIsSome == \A m \in Message : m # NoMessage
  BY BoundsAssumption DEF Message, NoMessage

\* What Enqueue adds to the queue is a message, and the queue stays one of
\* messages (handler.cpp:85-97).
LEMMA EnqueueTyped ==
  ASSUME TypeOK, NEW what \in Immediate \cup {Delayed}, NEW delay \in Nat,
         Enqueue(what, delay)
  PROVE  /\ msgQueue' \subseteq Message
         /\ posted' \in 0..MaxMessages
         /\ UNCHANGED <<stop, stopWhenEmpty, now>>
  <1>1. posted + 1 \in 1..MaxMessages
    BY BoundsAssumption DEF TypeOK, Enqueue
  <1>2. PICK t0 \in 0..now :
          /\ t0 + delay <= MaxTime
          /\ msgQueue' = msgQueue \cup
               {[id |-> posted + 1, what |-> what, when |-> t0 + delay]}
    BY DEF Enqueue
  <1>3. t0 + delay \in 0..MaxTime
    BY <1>2, BoundsAssumption DEF TypeOK
  <1>4. [id |-> posted + 1, what |-> what, when |-> t0 + delay] \in Message
    BY <1>1, <1>3 DEF Message
  <1> QED
    BY <1>1, <1>2, <1>4 DEF TypeOK, Enqueue

(***************************************************************************)
(* The invariant.                                                          *)
(***************************************************************************)
\* Nothing that was posted without a delay is due later than now.
ImmediateIsDue == \A m \in msgQueue : m.what # Delayed => m.when <= now

\* A looper in wait_until has something due at its deadline, or nothing but
\* what is due already.
WaitsForDue ==
  pc = "waitUntil" => \/ \E m \in msgQueue : m.when <= deadline
                      \/ \A m \in msgQueue : m.when <= now

LooperInv == TypeOK /\ ImmediateIsDue /\ WaitsForDue

LEMMA InitInv == Init => LooperInv
  <1> SUFFICES ASSUME Init PROVE LooperInv
    OBVIOUS
  <1>1. deadline \in 0..MaxTime /\ now \in 0..MaxTime /\ posted \in 0..MaxMessages
    BY BoundsAssumption DEF Init
  <1>2. TypeOK
    BY <1>1 DEF Init, TypeOK
  <1>3. ImmediateIsDue /\ WaitsForDue
    BY DEF Init, ImmediateIsDue, WaitsForDue
  <1> QED BY <1>2, <1>3 DEF LooperInv

\* A notification changes nothing but notified.
LEMMA NotifyTyped ==
  ASSUME TypeOK, Notify
  PROVE  /\ notified' \in BOOLEAN
         /\ notified' => pc \in Waiting
         /\ UNCHANGED <<pc, deadline, msg>>
  BY DEF TypeOK, Notify

LEMMA TypeStep == TypeOK /\ [Next]_vars => TypeOK'
  <1> SUFFICES ASSUME TypeOK, [Next]_vars PROVE TypeOK'
    OBVIOUS
  <1> USE BoundsAssumption
  <1>1. CASE Loop
    <2>1. CASE Leave
      BY <1>1, <2>1 DEF TypeOK, Loop, Leave, GoTo, Others
    <2>2. CASE WaitUntilDue
      <3>1. deadline' \in 0..MaxTime
        BY <2>2 DEF TypeOK, WaitUntilDue, Back, Message
      <3> QED BY <1>1, <2>2, <3>1 DEF TypeOK, Loop, WaitUntilDue, GoTo, Others, Waiting
    <2>3. CASE WaitEmpty("wait")
      BY <1>1, <2>3 DEF TypeOK, Loop, WaitEmpty, GoTo, Others, Waiting
    <2> QED BY <1>1, <2>1, <2>2, <2>3 DEF Loop
  <1>2. CASE WaitReturns
    <2>1. CASE Leave
      BY <1>2, <2>1 DEF TypeOK, WaitReturns, Leave, GoTo, Others
    <2>2. CASE WaitUntilDue
      <3>1. deadline' \in 0..MaxTime
        BY <2>2 DEF TypeOK, WaitUntilDue, Back, Message
      <3> QED BY <1>2, <2>2, <3>1 DEF TypeOK, WaitReturns, WaitUntilDue, GoTo, Others, Waiting
    <2>3. CASE WaitEmpty("loop")
      BY <1>2, <2>3 DEF TypeOK, WaitReturns, WaitEmpty, GoTo, Others, Waiting
    <2> QED BY <1>2, <2>1, <2>2, <2>3 DEF WaitReturns
  <1>3. CASE WaitUntilReturns
    BY <1>3 DEF TypeOK, WaitUntilReturns, GoTo, Others
  <1>4. CASE TimeoutTakes
    <2>1. PICK m \in msgQueue : msgQueue' = msgQueue \ {m} /\ msg' = m
      BY <1>4 DEF TimeoutTakes, Back
    <2>2. msg' \in Message /\ msg' # NoMessage
      BY <2>1, MessageIsSome DEF TypeOK
    <2> QED BY <1>4, <2>1, <2>2 DEF TypeOK, TimeoutTakes, GoTo
  <1>5. CASE TimeoutFindsNothing
    BY <1>5 DEF TypeOK, TimeoutFindsNothing, GoTo, Others
  <1>6. CASE HandleMessageReturns
    BY <1>6 DEF TypeOK, HandleMessageReturns, GoTo
  <1>7. CASE SpuriousWakeup
    BY <1>7 DEF TypeOK, SpuriousWakeup, Others
  <1>8. CASE Tick
    BY <1>8 DEF TypeOK, Tick, looperVars
  <1>9. CASE SendCastMessage
    <2>1. PICK what \in Immediate : Enqueue(what, 0)
      BY <1>9 DEF SendCastMessage
    <2>2. Notify
      BY <1>9 DEF SendCastMessage
    <2> QED BY <2>1, <2>2, EnqueueTyped, NotifyTyped DEF TypeOK
  <1>10. CASE SendCastMessageDelayed
    BY <1>10, EnqueueTyped, NotifyTyped DEF TypeOK, SendCastMessageDelayed
  <1>11. CASE RemoveMessage
    BY <1>11, NotifyTyped DEF TypeOK, RemoveMessage
  <1>12. ASSUME NEW stopSafty \in BOOLEAN, StopSafty(stopSafty) PROVE TypeOK'
    <2>1. stop' \in BOOLEAN /\ stopWhenEmpty' \in BOOLEAN
      BY <1>12 DEF StopSafty, TypeOK
    <2> QED BY <1>12, <2>1, NotifyTyped DEF TypeOK, StopSafty
  <1>13. CASE UNCHANGED vars
    BY <1>13 DEF TypeOK, vars
  <1> QED
    BY <1>1, <1>2, <1>3, <1>4, <1>5, <1>6, <1>7, <1>8, <1>9, <1>10, <1>11, <1>12, <1>13
    DEF Next, LooperNext

\* The types of a looper hold in every state it reaches (handler.cpp).
THEOREM LooperTypeCorrect == Spec => []TypeOK
  <1>1. Init => TypeOK
    BY InitInv DEF LooperInv
  <1> QED BY <1>1, TypeStep, PTL DEF Spec

\* Time only goes on, and nothing but Tick moves it.
LEMMA TimeGoesOn == TypeOK /\ [Next]_vars => now <= now'
  <1> SUFFICES ASSUME TypeOK, [Next]_vars PROVE now <= now'
    OBVIOUS
  <1>1. CASE Tick
    BY <1>1, BoundsAssumption DEF TypeOK, Tick
  <1>2. CASE now' = now
    BY <1>2, BoundsAssumption DEF TypeOK
  <1>3. \/ Tick \/ now' = now
    BY DEF Next, LooperNext, Loop, WaitReturns, WaitUntilReturns, TimeoutTakes,
           TimeoutFindsNothing, HandleMessageReturns, SpuriousWakeup, Others,
           SendCastMessage, SendCastMessageDelayed, Enqueue, RemoveMessage, StopSafty, vars
  <1> QED BY <1>1, <1>2, <1>3

\* A step that adds no message but one that is due at once, or that a handler
\* delays, keeps the immediate ones due.
LEMMA ImmediateStep == TypeOK /\ ImmediateIsDue /\ [Next]_vars => ImmediateIsDue'
  <1> SUFFICES ASSUME TypeOK, ImmediateIsDue, [Next]_vars,
                      NEW m \in msgQueue', m.what # Delayed
               PROVE  m.when <= now'
    BY DEF ImmediateIsDue
  <1> USE BoundsAssumption
  <1>1. m \in Message
    BY TypeStep DEF TypeOK
  <1>2. now \in Nat /\ now' \in Nat /\ now <= now'
    BY TypeStep, TimeGoesOn DEF TypeOK
  <1>3. CASE m \in msgQueue
    <2>1. m.when <= now
      BY <1>3 DEF ImmediateIsDue
    <2> QED BY <1>1, <1>2, <2>1 DEF Message
  <1>4. CASE SendCastMessage /\ m \notin msgQueue
    <2>1. PICK what \in Immediate, t0 \in 0..now :
            msgQueue' = msgQueue \cup {[id |-> posted + 1, what |-> what, when |-> t0 + 0]}
      BY <1>4 DEF SendCastMessage, Enqueue
    <2>2. m.when = t0 + 0
      BY <1>4, <2>1
    <2> QED BY <1>2, <2>2
  <1>5. CASE SendCastMessageDelayed /\ m \notin msgQueue
    <2>1. PICK t0 \in 0..now :
            msgQueue' = msgQueue \cup {[id |-> posted + 1, what |-> Delayed, when |-> t0 + Timeout]}
      BY <1>5 DEF SendCastMessageDelayed, Enqueue
    <2> QED BY <1>5, <2>1
  <1>6. m \in msgQueue \/ SendCastMessage \/ SendCastMessageDelayed
    BY DEF Next, LooperNext, Loop, WaitReturns, WaitUntilReturns, TimeoutTakes,
           TimeoutFindsNothing, HandleMessageReturns, SpuriousWakeup, Others, Tick,
           RemoveMessage, StopSafty, vars
  <1> QED BY <1>3, <1>4, <1>5, <1>6

\* wait_until is entered with the deadline of the back, and while it waits a
\* message is only added that is due, or removed with all that are not.
LEMMA WaitStep == LooperInv /\ [Next]_vars => WaitsForDue'
  <1> SUFFICES ASSUME LooperInv, [Next]_vars, pc' = "waitUntil"
               PROVE  \/ \E m \in msgQueue' : m.when <= deadline'
                      \/ \A m \in msgQueue' : m.when <= now'
    BY DEF WaitsForDue
  <1> USE BoundsAssumption DEF LooperInv
  <1>1. /\ now \in Nat /\ now' \in Nat /\ now <= now' /\ deadline \in Nat
        /\ \A m \in msgQueue : m.when \in Nat
        /\ \A m \in msgQueue' : m.when \in Nat
    BY TypeStep, TimeGoesOn DEF TypeOK, Message
  <1>2. CASE pc # "waitUntil"
    <2>1. Loop \/ WaitReturns
      BY <1>2 DEF Next, LooperNext, WaitUntilReturns, TimeoutTakes, TimeoutFindsNothing,
                  HandleMessageReturns, GoTo, SpuriousWakeup, Tick, looperVars, SendCastMessage,
                  SendCastMessageDelayed, RemoveMessage, StopSafty, Notify, vars
    <2>2. WaitUntilDue /\ msgQueue' = msgQueue
      BY <2>1 DEF Loop, WaitReturns, Leave, WaitEmpty, GoTo, Others
    <2>3. PICK m \in msgQueue : deadline' = m.when
      BY <2>2 DEF WaitUntilDue, Back
    <2> QED BY <1>1, <2>2, <2>3
  <1>3. CASE pc = "waitUntil"
    <2>1. deadline' = deadline
      BY <1>3 DEF Next, LooperNext, Loop, WaitReturns, WaitUntilReturns, TimeoutTakes,
                  TimeoutFindsNothing, HandleMessageReturns, GoTo, SpuriousWakeup, Tick, looperVars,
                  SendCastMessage, SendCastMessageDelayed, RemoveMessage, StopSafty, Notify, vars
    <2>2. CASE msgQueue \subseteq msgQueue' /\ (\A m \in msgQueue' \ msgQueue : m.when <= now')
      BY <1>1, <1>3, <2>1, <2>2 DEF WaitsForDue
    <2>3. CASE RemoveMessage
      BY <1>1, <2>3 DEF RemoveMessage, ImmediateIsDue
    <2>4. CASE SendCastMessage
      <3>1. PICK what \in Immediate, t0 \in 0..now :
              msgQueue' = msgQueue \cup {[id |-> posted + 1, what |-> what, when |-> t0 + 0]}
        BY <2>4 DEF SendCastMessage, Enqueue
      <3>2. t0 + 0 <= now'
        BY <1>1
      <3> QED BY <2>2, <3>1, <3>2
    <2>5. CASE msgQueue' = msgQueue
      BY <2>2, <2>5
    <2>6. RemoveMessage \/ SendCastMessage \/ msgQueue' = msgQueue
      BY <1>3 DEF Next, LooperNext, Loop, WaitReturns, WaitUntilReturns, TimeoutTakes,
                  TimeoutFindsNothing, HandleMessageReturns, GoTo, SpuriousWakeup, Others, Tick,
                  SendCastMessageDelayed, StopSafty, vars
    <2> QED BY <2>3, <2>4, <2>5, <2>6
  <1> QED BY <1>2, <1>3

LEMMA InvStep == LooperInv /\ [Next]_vars => LooperInv'
  BY TypeStep, ImmediateStep, WaitStep DEF LooperInv

(***************************************************************************)
(* The refinement.                                                         *)
(***************************************************************************)
\* What wait_until leaves at the back when it times out is due.
LEMMA BackIsDue ==
  ASSUME LooperInv, pc = "waitUntil", now >= deadline, NEW m \in Back
  PROVE  m \in msgQueue /\ Promise!Due(m)
  <1> USE BoundsAssumption DEF LooperInv
  <1>1. m \in msgQueue /\ \A n \in msgQueue : m.when <= n.when
    BY DEF Back
  <1>2. now \in Nat /\ deadline \in Nat /\ \A n \in msgQueue : n.when \in Nat
    BY DEF TypeOK, Message
  <1>3. m.when <= now
    BY <1>1, <1>2 DEF WaitsForDue
  <1> QED BY <1>1, <1>3 DEF Promise!Due

LEMMA PromiseInit == Init => Promise!Init
  BY DEF Init, Promise!Init, NoMessage, Promise!NoMessage

LEMMA PromiseStep == LooperInv /\ [Next]_vars => [Promise!Next]_(Promise!vars)
  <1> SUFFICES ASSUME LooperInv, [Next]_vars
               PROVE  Promise!Next \/ UNCHANGED Promise!vars
    OBVIOUS
  <1> USE DEF NoMessage, Promise!NoMessage
  <1>a. TypeOK
    BY DEF LooperInv
  <1>b. pc = "handle" <=> msg # NoMessage
    BY <1>a DEF TypeOK
  <1>1. ASSUME pc \in {"loop", "wait"}, Leave, UNCHANGED Others
        PROVE  Promise!End
    BY <1>1, <1>b DEF Leave, MustLeave, GoTo, Others, Promise!End
  <1>2. ASSUME pc # "exited", pc' # "exited", UNCHANGED Others
        PROVE  UNCHANGED Promise!vars
    BY <1>2 DEF Others, Promise!vars
  <1>3. CASE Loop
    BY <1>1, <1>2, <1>3 DEF Loop, WaitUntilDue, WaitEmpty, GoTo, Promise!Next
  <1>4. CASE WaitReturns
    BY <1>1, <1>2, <1>4 DEF WaitReturns, WaitUntilDue, WaitEmpty, GoTo, Promise!Next
  <1>5. CASE WaitUntilReturns \/ TimeoutFindsNothing
    BY <1>2, <1>5 DEF WaitUntilReturns, TimeoutFindsNothing, GoTo, Others
  <1>6. CASE TimeoutTakes
    <2>1. PICK m \in Back : msgQueue' = msgQueue \ {m} /\ msg' = m
      BY <1>6 DEF TimeoutTakes
    <2>2. m \in msgQueue /\ Promise!Due(m)
      BY <1>6, <2>1, BackIsDue DEF TimeoutTakes
    <2>3. msg = NoMessage /\ pc # "exited" /\ pc' # "exited"
      BY <1>6, <1>b DEF TimeoutTakes, GoTo
    <2>4. Promise!HandOver
      BY <1>6, <2>1, <2>2, <2>3 DEF TimeoutTakes, Promise!HandOver
    <2> QED BY <2>4 DEF Promise!Next
  <1>7. CASE HandleMessageReturns
    <2>1. Promise!Finish
      BY <1>7, <1>b DEF HandleMessageReturns, GoTo, Promise!Finish
    <2> QED BY <2>1 DEF Promise!Next
  <1>8. CASE SpuriousWakeup
    BY <1>8 DEF SpuriousWakeup, Others, Promise!vars
  <1>9. CASE Tick
    <2>1. Promise!Tick
      BY <1>9 DEF Tick, looperVars, Promise!Tick
    <2> QED BY <2>1 DEF Promise!Next
  <1>10. ASSUME NEW what \in Immediate \cup {Delayed}, NEW delay \in Nat, Enqueue(what, delay), Notify,
                what \in Immediate => delay = 0, what = Delayed => msg # NoMessage
         PROVE  Promise!Post
    <2>1. PICK t0 \in 0..now :
            /\ t0 + delay <= MaxTime
            /\ msgQueue' = msgQueue \cup
                 {[id |-> posted + 1, what |-> what, when |-> t0 + delay]}
      BY <1>10 DEF Enqueue
    <2>2. t0 + delay \in 0..MaxTime /\ (what \in Immediate => t0 + delay <= now)
      BY <1>10, <1>a, <2>1, BoundsAssumption DEF TypeOK
    <2> QED BY <1>10, <2>1, <2>2 DEF Enqueue, Notify, Promise!Post
  <1>11. CASE SendCastMessage
    <2>1. Promise!Post
      BY <1>10, <1>11, KindsAssumption DEF SendCastMessage
    <2> QED BY <2>1 DEF Promise!Next
  <1>12. CASE SendCastMessageDelayed
    <2>1. Promise!Post
      BY <1>10, <1>12, <1>b, KindsAssumption, BoundsAssumption DEF SendCastMessageDelayed
    <2> QED BY <2>1 DEF Promise!Next
  <1>13. CASE RemoveMessage
    <2>1. Promise!TakeBack
      BY <1>13 DEF RemoveMessage, Notify, Promise!TakeBack
    <2> QED BY <2>1 DEF Promise!Next
  <1>14. ASSUME NEW stopSafty \in BOOLEAN, StopSafty(stopSafty)
         PROVE  Promise!Next
    <2>1. Promise!TellToStop
      BY <1>14 DEF StopSafty, Notify, Promise!TellToStop
    <2> QED BY <2>1 DEF Promise!Next
  <1>15. CASE UNCHANGED vars
    BY <1>15 DEF vars, Promise!vars
  <1> QED
    BY <1>3, <1>4, <1>5, <1>6, <1>7, <1>8, <1>9, <1>11, <1>12, <1>13, <1>14, <1>15
    DEF Next, LooperNext

\* The looper implements the safety half of its promise: every message once,
\* one at a time, in order of due time and none early, and an end only when
\* it was told to stop (handler.cpp).
THEOREM LooperKeepsPromise == Spec => Promise!SafeSpec
  <1> QED BY InitInv, InvStep, PromiseInit, PromiseStep, PTL DEF Spec, Promise!SafeSpec

\* Told to stop at once, a looper about to look at its flags hands over
\* nothing more (handler.cpp:33-43).
THEOREM LooperStopIsFinal == Spec => StopIsFinal
  <1>1. ASSUME TypeOK, Next, stop, pc \in {"loop", "wait", "handle"}
        PROVE  pc' \in {pc, "loop", "exited"}
    BY <1>1 DEF Next, LooperNext, Loop, WaitReturns, WaitUntilReturns, TimeoutTakes, WaitUntilDue,
                WaitEmpty, Leave, MustLeave, TimeoutFindsNothing, HandleMessageReturns, GoTo, Others,
                SpuriousWakeup, Tick, looperVars, SendCastMessage, SendCastMessageDelayed,
                RemoveMessage, StopSafty, Notify
  <1> QED BY <1>1, LooperTypeCorrect, PTL DEF Spec, StopIsFinal

(***************************************************************************)
(* Channels.                                                               *)
(***************************************************************************)
-----------------------------------------------------------------------------
(* The inductive invariant                                                   *)

Made == 1..made

TcpPlaces == {"start", "accept", "accepted", "failed", "open", "end", "unbound"}
BusPlaces == {"serve", "setup", "name", "enter", "end"}

ManagerTypes ==
  /\ side \in [link : Links, source : Ends] /\ made \in 0..MaxConnections
  /\ managed \subseteq Made /\ listed \in BOOLEAN
  /\ module \in [Conns -> Modules \cup {NoName}] /\ \A c \in Made : module[c] \in Modules
  /\ looper \in [at : {"idle", "enter", "destroy", "close"}, conn : 0..made]
  /\ user \in [Modules -> 0..made] /\ entry \in [Modules -> 0..made]

SocketTypes ==
  /\ work \in [Conns -> TcpPlaces \cup BusPlaces]
  /\ cut \in [Conns -> TcpPlaces \cup BusPlaces \cup {"no"}]
  /\ hand \in [Conns -> Nat]
  /\ tcp \in [Conns -> [remote : {0} \cup Sockets, isReceiving : BOOLEAN, stopReceive : BOOLEAN]]
  /\ file \in [Sockets -> 0..made] /\ on \in [Conns -> 0..made] /\ shut \subseteq Made
  /\ reader \in [Conns -> {"none", "new", "loop", "recv", "handle", "end"}]

SessionRecord ==
  [st : {"free", "opening", "opened", "refused", "up", "down", "gone"}, name : Modules \cup {NoName},
   at : {"idle", "report", "erase", "stop", "remove"}, conn : 0..made]

SessionOK(s) ==
  /\ sess[s] \in SessionRecord
  /\ sess[s].st = "free" => sess[s] = Free
  /\ sess[s].st # "free" => sess[s].name \in Modules
  /\ sess[s].at = "idle" <=> sess[s].conn = NoConn

BusTypes ==
  /\ passive \in [Conns -> BOOLEAN] /\ id \in [Conns -> {0} \cup Sessions]
  /\ idName \in [Sessions -> Modules \cup {NoName}] /\ servers \subseteq Modules
  /\ DOMAIN sess = Sessions /\ sess = [s \in Sessions |-> sess[s]]
  /\ \A s \in Sessions : SessionOK(s)
  /\ jam \in BOOLEAN
  /\ \A c \in Conns : work[c] = "name" => hand[c] \in Sessions
  /\ \A d \in dying : d = <<d[1], d[2]>> /\ d[1] \in Made /\ ~Held(d[1])

TypeInv == ManagerTypes /\ SocketTypes /\ BusTypes

\* A connection that is not made yet has no thread and no socket.
UnmadeInv ==
  \A c \in Conns \ Made :
    /\ work[c] = "end" /\ cut[c] = "no" /\ reader[c] = "none"
    /\ tcp[c].remote = 0 /\ ~tcp[c].stopReceive

\* Over TCP a socket is of the connection it was accepted for, which has it
\* until it is closed, and knows it from when it stored it.
SocketInv(c) ==
  /\ \A f \in Sockets : file[f] = c =>
       hand[c] = f /\ work[c] \in {"accepted", "failed", "open", "end"}
  /\ work[c] \in {"accepted", "failed"} => hand[c] \in Sockets /\ file[hand[c]] = c
  /\ tcp[c].remote # 0 =>
       /\ file[tcp[c].remote] = c /\ work[c] \in {"open", "end"}
       /\ Closed(c) => Undone(c)
  /\ Closed(c) => c \notin managed
  /\ work[c] \in {"accept", "accepted"} /\ Closed(c) => Undone(c)
  /\ work[c] \in {"open", "end"} =>
       \A f \in Sockets : file[f] = c => tcp[c].remote # 0 \/ Undone(c)

\* What a reader hands on came from the connection's own socket.
ReaderInv(c) ==
  /\ reader[c] # "none" => work[c] = "end"
  /\ work[c] = "open" \/ reader[c] # "none" =>
       hand[c] \in Sockets /\ (~tcp[c].stopReceive => file[hand[c]] = c)
  /\ reader[c] = "recv" /\ ~tcp[c].stopReceive => on[c] = c

TcpInv ==
  /\ servers = {} /\ dying = {} /\ ~jam /\ \A s \in Sessions : sess[s] = Free
  /\ \A m \in Modules : entry[m] = NoConn
  /\ looper.at \in {"idle", "destroy"} /\ looper.conn = NoConn
  /\ \A c \in Conns : work[c] \in TcpPlaces /\ SocketInv(c) /\ ReaderInv(c)

ManagerInv ==
  /\ looper.at \in {"enter", "close"} <=> looper.conn # NoConn
  /\ looper.at = "close" => looper.conn \in managed /\ Closed(looper.conn)
  /\ looper.at = "enter" => looper.conn \notin managed /\ work[looper.conn] = "end"

\* A connection is kept until it is closed; one whose thread goes on after that
\* was closed under it.
KeptInv ==
  /\ \A c \in Made : c \in managed \/ c = looper.conn \/ Closed(c)
  /\ \A c \in Conns : work[c] # "end" /\ Closed(c) => Undone(c)

Kept(c) == c \in managed \/ c = looper.conn \/ Undone(c)
ServerInv == \A m \in servers : \E c \in Made : module[c] = m /\ Kept(c)

\* The map has a connection under its own name, whose thread is through.
EntryInv ==
  \A m \in Modules : entry[m] # NoConn =>
    /\ module[entry[m]] = m /\ work[entry[m]] = "end"
    /\ Undone(entry[m]) \/ (entry[m] \in managed /\ entry[m] # looper.conn)

BusInv ==
  /\ \A f \in Sockets : file[f] = NoConn
  /\ \A c \in Conns :
       work[c] \in BusPlaces /\ reader[c] = "none" /\ tcp[c].remote = 0 /\ ~tcp[c].stopReceive
  /\ ManagerInv /\ KeptInv /\ ServerInv /\ EntryInv /\ LockSurvives

ChannelsIInv == TypeInv /\ UnmadeInv /\ (Tcp => TcpInv) /\ (SoftBus => BusInv)

-----------------------------------------------------------------------------
(* Numbers                                                                   *)

\* The least of some numbers is one of them.
LEMMA LeastIsOne ==
  ASSUME NEW S, S \subseteq Nat, S # {}
  PROVE  Least(S) \in S
<1>1. \E i \in S : \A k \in S : <<k, i>> \notin OpToRel(<, Nat)
  BY NatLessThanWellFounded, WFMin
<1>2. \A k, i \in Nat : k < i => <<k, i>> \in OpToRel(<, Nat)
  BY DEF OpToRel
<1>3. PICK i \in S : \A k \in S : ~(k < i)
  BY <1>1, <1>2
<1>4. \A k \in S : i <= k
  BY <1>3
<1> QED
  BY <1>4 DEF Least

\* The connections made are numbered from 1, and there is a next one below the
\* bound.
LEMMA Numbers ==
  ASSUME TypeInv
  PROVE  /\ Made \subseteq Conns /\ NoConn \notin Conns
         /\ made \in Nat /\ MaxConnections \in Nat
         /\ made < MaxConnections => made + 1 \in Conns \ Made
  BY ChannelsAssumption DEF TypeInv, ManagerTypes, Made, Conns, NoConn

\* A connection that waits for its peer has no socket, and the others have one
\* each at most: so there is one for it.
LEMMA SocketIsFree ==
  ASSUME TypeInv, \A d \in Conns : SocketInv(d), NEW c \in Conns, work[c] = "accept"
  PROVE  \E f \in Sockets : file[f] = NoConn
<1> SUFFICES ASSUME \A f \in Sockets : file[f] # NoConn
             PROVE  FALSE
  OBVIOUS
<1>1. \A f \in Sockets : file[f] \in Conns \ {c}
  <2>1. ASSUME NEW f \in Sockets
        PROVE  file[f] \in Conns /\ file[f] # c
    <3>1. SocketInv(c)
      OBVIOUS
    <3>2. file[f] \in 0..made /\ made \in 0..MaxConnections
      BY DEF TypeInv, ManagerTypes, SocketTypes
    <3> QED
      BY <3>1, <3>2, ChannelsAssumption DEF SocketInv, Conns, NoConn
  <2> QED
    BY <2>1
<1>2. file \in [Sockets -> Conns \ {c}]
  BY <1>1 DEF TypeInv, SocketTypes
<1>3. Sockets = Conns /\ IsFiniteSet(Conns) /\ Cardinality(Conns) \in Nat
  <2>1. IsFiniteSet(1..MaxConnections)
    BY ChannelsAssumption, FS_Interval
  <2> QED
    BY <2>1, FS_CardinalityType DEF Sockets, Conns
<1>4. IsFiniteSet(Conns \ {c}) /\ Cardinality(Conns \ {c}) = Cardinality(Conns) - 1
  BY <1>3, FS_RemoveElement
<1>5. PICK f \in Sockets, g \in Sockets : f # g /\ file[f] = file[g]
  <2>1. Cardinality(Conns \ {c}) < Cardinality(Sockets)
    BY <1>3, <1>4
  <2> QED
    BY <1>2, <1>3, <1>4, <2>1, FS_PigeonHole
<1> QED
  BY <1>1, <1>5 DEF SocketInv

-----------------------------------------------------------------------------
(* Steps over TCP                                                            *)

\* What is the same for the other connections.
Apart(c) ==
  /\ \A d \in Conns \ {c} :
       /\ work'[d] = work[d] /\ cut'[d] = cut[d] /\ reader'[d] = reader[d] /\ tcp'[d] = tcp[d]
       /\ hand'[d] = hand[d] /\ on'[d] = on[d] /\ (d \in managed' => d \in managed)
  /\ \A f \in Sockets : file'[f] # file[f] => {file[f], file'[f]} \subseteq {NoConn, c}

OfBus == <<entry, servers, sess, dying, jam>>

\* A step of one connection keeps the invariant if it keeps its own part of it.
LEMMA StepApart ==
  ASSUME TypeInv, TcpInv, NEW c \in Conns, Apart(c), UNCHANGED OfBus,
         looper'.at \in {"idle", "destroy"}, looper'.conn = NoConn,
         work'[c] \in TcpPlaces, SocketInv(c)', ReaderInv(c)'
  PROVE  TcpInv'
<1>1. ASSUME NEW d \in Conns \ {c}
      PROVE  work'[d] \in TcpPlaces /\ SocketInv(d)' /\ ReaderInv(d)'
  <2>1. SocketInv(d) /\ ReaderInv(d) /\ work[d] \in TcpPlaces
    BY <1>1 DEF TcpInv
  <2>2. \A f \in Sockets : file'[f] = d <=> file[f] = d
    BY <1>1, Numbers DEF Apart
  <2>3. work'[d] = work[d] /\ cut'[d] = cut[d] /\ reader'[d] = reader[d] /\ tcp'[d] = tcp[d]
        /\ hand'[d] = hand[d] /\ on'[d] = on[d] /\ (d \in managed' => d \in managed)
    BY <1>1 DEF Apart
  <2>4. tcp[d].remote # 0 => tcp[d].remote \in Sockets
    BY <1>1 DEF TypeInv, SocketTypes
  <2>5. SocketInv(d)'
    BY <2>1, <2>2, <2>3, <2>4 DEF SocketInv, Closed, Undone, Midway
  <2>6. ReaderInv(d)'
    BY <2>1, <2>2, <2>3 DEF ReaderInv
  <2> QED
    BY <2>1, <2>3, <2>5, <2>6
<1> QED
  BY <1>1 DEF TcpInv, OfBus

\* The steps of the thread that accepts, but the one that gets a socket.
LEMMA AcceptingTcp ==
  ASSUME TypeInv, TcpInv, NEW c \in Conns,
         Accept(c) \/ PeerPortFails(c) \/ SetRemoteSocket(c) \/ OpenTcp(c)
  PROVE  TcpInv'
<1>1. /\ Apart(c) /\ UNCHANGED OfBus /\ UNCHANGED <<looper, cut, managed, hand, file, on>>
  BY DEF Accept, PeerPortFails, SetRemoteSocket, OpenTcp, Goto, Apart, OfBus, TypeInv,
         SocketTypes, managerVars, socketVars, nameVars, busVars
<1>2. SocketInv(c) /\ ReaderInv(c) /\ looper.at \in {"idle", "destroy"} /\ looper.conn = NoConn
  BY DEF TcpInv
<1>3. work'[c] \in TcpPlaces /\ SocketInv(c)' /\ ReaderInv(c)'
  <2>1. CASE Accept(c)
    <3>1. /\ work[c] \in {"start", "unbound", "accept"} /\ UNCHANGED <<tcp, reader>>
          /\ work'[c] \in {"accept", "end"}
          /\ work'[c] = "accept" => cut[c] = "no"
      BY <2>1 DEF Accept, Goto, TypeInv, SocketTypes, socketVars
    <3> QED
      BY <1>1, <1>2, <3>1 DEF SocketInv, ReaderInv, TcpPlaces, Closed, Undone, Midway
  <2>2. CASE PeerPortFails(c)
    <3>1. /\ work[c] = "accepted" /\ UNCHANGED <<tcp, reader>> /\ work'[c] = "failed"
      BY <2>2 DEF PeerPortFails, Goto, TypeInv, SocketTypes, socketVars
    <3> QED
      BY <1>1, <1>2, <3>1 DEF SocketInv, ReaderInv, TcpPlaces, Closed, Undone, Midway
  <2>3. CASE SetRemoteSocket(c)
    <3>1. /\ work[c] = "accepted" /\ UNCHANGED reader /\ work'[c] = "open"
          /\ tcp'[c].remote = hand[c] /\ tcp'[c].stopReceive = tcp[c].stopReceive
      BY <2>3 DEF SetRemoteSocket, Goto, TypeInv, SocketTypes, socketVars
    <3>2. 0 \notin Sockets
      BY DEF Sockets
    <3> QED
      BY <1>1, <1>2, <3>1, <3>2 DEF SocketInv, ReaderInv, TcpPlaces, Closed, Undone, Midway
  <2>4. CASE OpenTcp(c)
    <3>1. /\ work[c] = "open" /\ UNCHANGED tcp /\ work'[c] = "end" /\ reader'[c] = "new"
      BY <2>4 DEF OpenTcp, Goto, TypeInv, SocketTypes, socketVars
    <3> QED
      BY <1>1, <1>2, <3>1 DEF SocketInv, ReaderInv, TcpPlaces, Closed, Undone, Midway
  <2> QED
    BY <2>1, <2>2, <2>3, <2>4
<1> QED
  BY <1>1, <1>2, <1>3, StepApart

\* The peer connects: a new socket, of the connection whose accept takes it.
LEMMA PeerConnectsTcp ==
  ASSUME TypeInv, TcpInv, NEW c \in Conns, PeerConnects(c)
  PROVE  TcpInv'
<1> DEFINE f == Least({g \in Sockets : file[g] = NoConn})
<1>1. f \in Sockets /\ file[f] = NoConn
  <2>1. {g \in Sockets : file[g] = NoConn} # {}
    BY SocketIsFree DEF TcpInv, PeerConnects
  <2> QED
    BY <2>1, LeastIsOne DEF Sockets
<1>2. /\ work[c] = "accept" /\ work' = [work EXCEPT ![c] = "accepted"]
      /\ file' = [file EXCEPT ![f] = c] /\ hand' = [hand EXCEPT ![c] = f]
      /\ UNCHANGED <<managed, looper, cut, tcp, reader, on>> /\ UNCHANGED OfBus
  BY DEF PeerConnects, Goto, OfBus, managerVars, nameVars, busVars
<1> HIDE DEF f
<1>3. Apart(c)
  BY <1>1, <1>2 DEF Apart, TypeInv, SocketTypes
<1>4. SocketInv(c) /\ ReaderInv(c)
  BY DEF TcpInv
<1>5. \A g \in Sockets : file[g] # c
  BY <1>2, <1>4 DEF SocketInv
<1>6. /\ work'[c] = "accepted" /\ hand'[c] = f /\ file'[f] = c
      /\ \A g \in Sockets \ {f} : file'[g] = file[g]
  BY <1>1, <1>2 DEF TypeInv, SocketTypes
<1>7. tcp[c].remote = 0
  BY <1>2, <1>4 DEF SocketInv
<1>8. SocketInv(c)' /\ ReaderInv(c)'
  BY <1>1, <1>2, <1>4, <1>5, <1>6, <1>7 DEF SocketInv, ReaderInv, Closed, Undone, Midway
<1> QED
  BY <1>2, <1>3, <1>6, <1>8, StepApart DEF TcpInv, TcpPlaces

\* A reader's step leaves it with its own socket, or stopped.
LEMMA ReadingTcp ==
  ASSUME TypeInv, TcpInv, NEW c \in Conns, Reading(c)
  PROVE  TcpInv'
<1>1. /\ Apart(c) /\ UNCHANGED OfBus /\ UNCHANGED <<looper, cut, managed, hand, file, work>>
      /\ reader[c] # "none" /\ reader'[c] # "none"
      /\ tcp'[c].remote = tcp[c].remote /\ tcp'[c].stopReceive = tcp[c].stopReceive
      /\ reader'[c] = "recv" => on'[c] = file[hand[c]]
  BY DEF Reading, ReadLooper, Recv, RecvPacket, RecvEnds, RecvFails, HandleReceivedData, Read,
         Received, Apart, OfBus, TypeInv, SocketTypes, managerVars, nameVars, busVars
<1>2. SocketInv(c) /\ ReaderInv(c) /\ work[c] \in TcpPlaces
  BY DEF TcpInv
<1>3. SocketInv(c)' /\ ReaderInv(c)'
  BY <1>1, <1>2 DEF SocketInv, ReaderInv, Closed, Undone, Midway
<1> QED
  BY <1>1, <1>2, <1>3, StepApart DEF TcpInv

\* The destructor closes the socket it finds in its connection.
LEMMA DestroyTcpTcp ==
  ASSUME TypeInv, UnmadeInv, TcpInv, DestroyTcp
  PROVE  TcpInv'
<1> SUFFICES ASSUME NEW c, c = First
             PROVE  TcpInv'
  OBVIOUS
<1>1. c \in managed
  <2>1. managed \subseteq Nat /\ managed # {}
    BY DEF DestroyTcp, TypeInv, ManagerTypes, Made
  <2> QED
    BY <2>1, LeastIsOne DEF First
<1>2. c \in Conns /\ c \notin managed'
  BY <1>1, Numbers DEF TypeInv, ManagerTypes, DestroyTcp
<1>3. /\ looper.at = "destroy" /\ UNCHANGED <<looper, work, hand, reader, on>> /\ UNCHANGED OfBus
      /\ managed' = managed \ {c} /\ cut' = Cut(c)
      /\ tcp[c].remote # 0 => file' = [file EXCEPT ![tcp[c].remote] = NoConn]
      /\ tcp[c].remote = 0 => file' = file
      /\ tcp' = [tcp EXCEPT ![c] = [remote |-> 0, isReceiving |-> FALSE,
                                    stopReceive |-> IF tcp[c].remote # 0 THEN TRUE
                                                    ELSE @.stopReceive]]
  BY DEF DestroyTcp, CloseTcp, Shutdown, OfBus, nameVars, busVars
<1>4. SocketInv(c) /\ ReaderInv(c) /\ work[c] \in TcpPlaces
  BY <1>2 DEF TcpInv
<1>5. ~Closed(c)
  BY <1>1, <1>4 DEF SocketInv
<1>6. Apart(c)
  BY <1>2, <1>3, <1>4 DEF Apart, Cut, TypeInv, SocketTypes, SocketInv
<1>7. /\ cut'[c] = work[c] /\ Closed(c)' /\ tcp'[c].remote = 0
      /\ tcp'[c].stopReceive = (tcp[c].remote # 0 \/ tcp[c].stopReceive)
  BY <1>2, <1>3, <1>4, <1>5 DEF Cut, Closed, TypeInv, SocketTypes, TcpPlaces
<1>8. CASE tcp[c].remote = 0
  <2>1. SocketInv(c)'
    BY <1>2, <1>3, <1>4, <1>5, <1>7, <1>8
    DEF SocketInv, Closed, Undone, Midway
  <2>2. ReaderInv(c)'
    BY <1>2, <1>3, <1>4, <1>5, <1>7, <1>8 DEF ReaderInv
  <2> QED
    BY <1>2, <1>3, <1>4, <1>6, <2>1, <2>2, StepApart DEF TcpInv
<1>9. CASE tcp[c].remote # 0
  <2>1. tcp[c].remote \in Sockets
    BY <1>2, <1>9 DEF TypeInv, SocketTypes
  <2>2. \A f \in Sockets : file'[f] # c
    BY <1>2, <1>3, <1>4, <1>9, <2>1, Numbers DEF SocketInv, TypeInv, SocketTypes
  <2>3. SocketInv(c)' /\ ReaderInv(c)'
    BY <1>2, <1>3, <1>4, <1>7, <1>9, <2>1, <2>2
    DEF SocketInv, ReaderInv, Closed, Undone, Midway
  <2> QED
    BY <1>2, <1>3, <1>4, <1>6, <2>3, StepApart DEF TcpInv
<1> QED
  BY <1>8, <1>9

\* A connection that is made over TCP.
LEMMA MakingTcp ==
  ASSUME TypeInv, UnmadeInv, TcpInv, Tcp, NEW m \in Modules,
         StartListenTcp(m) \/ StartConnection(m)
  PROVE  TcpInv'
<1> SUFFICES ASSUME NEW c, c = made + 1
             PROVE  TcpInv'
  OBVIOUS
<1>1. made < MaxConnections
  BY DEF StartListenTcp, StartConnection, NewChannel
<1>2. c \in Conns \ Made
  BY <1>1, Numbers
<1>3. /\ work' = [work EXCEPT ![c] = work'[c]] /\ work'[c] \in {"start", "unbound", "end"}
      /\ UNCHANGED <<looper, cut, hand, file, tcp, reader, on>> /\ UNCHANGED OfBus
      /\ managed' \subseteq managed \cup {c}
  BY <1>2 DEF StartListenTcp, StartConnection, OfBus, socketVars, nameVars, busVars, TypeInv,
              SocketTypes, UnmadeInv
<1>4. Apart(c)
  BY <1>2, <1>3 DEF Apart, TypeInv, SocketTypes
<1>5. \A f \in Sockets : file[f] # c
  BY <1>2 DEF TypeInv, ManagerTypes, SocketTypes, Made, Conns
<1>6. SocketInv(c)' /\ ReaderInv(c)'
  BY <1>2, <1>3, <1>5 DEF UnmadeInv, SocketInv, ReaderInv, Closed
<1> QED
  BY <1>2, <1>3, <1>4, <1>6, StepApart DEF TcpInv, TcpPlaces

\* The looper begins and ends to destroy.
LEMMA LooperTcp ==
  ASSUME TypeInv, TcpInv, DestroyAllChannels \/ RemoveRemoteDevice
  PROVE  TcpInv'
<1>1. /\ looper' \in {Idle, [at |-> "destroy", conn |-> NoConn]}
      /\ UNCHANGED OfBus /\ UNCHANGED <<managed, work, cut, socketVars>>
  BY DEF DestroyAllChannels, RemoveRemoteDevice, OfBus, managerVars, nameVars, busVars
<1>2. \A d \in Conns : SocketInv(d)' <=> SocketInv(d)
  BY <1>1 DEF SocketInv, Closed, Undone, Midway, socketVars
<1>3. \A d \in Conns : ReaderInv(d)' <=> ReaderInv(d)
  BY <1>1 DEF ReaderInv, socketVars
<1> QED
  BY <1>1, <1>2, <1>3 DEF TcpInv, OfBus, Idle

-----------------------------------------------------------------------------
(* Steps over SoftBus: what is kept                                          *)

OfSockets == <<file, reader, tcp>>

\* What was closed, and was closed under its thread, stays so.
Lasting == \A d \in Conns : (Closed(d) => Closed(d)') /\ (Undone(d) => Undone(d)')

\* A connection that was cut short stays so.
LEMMA CutLasts ==
  ASSUME TypeInv, cut' = cut \/ \E c \in Conns : cut' = Cut(c)
  PROVE  Lasting
  BY DEF TypeInv, SocketTypes, Cut, Lasting, Closed, Undone, Midway

\* Steps of SoftBus, and of connections that are closed or destroyed, at most
\* take entries and servers away.
LEMMA QuietBus ==
  ASSUME TypeInv, BusInv,
         UNCHANGED <<made, module, managed, looper, work>>, UNCHANGED OfSockets,
         cut' = cut \/ \E c \in Conns : cut' = Cut(c),
         servers' \subseteq servers, \A m \in Modules : entry'[m] \in {entry[m], NoConn},
         LockSurvives'
  PROVE  BusInv'
<1>1. Lasting
  BY CutLasts
<1>2. Made \subseteq Conns
  BY Numbers
<1>3. ManagerInv'
  BY <1>1, <1>2 DEF BusInv, ManagerInv, Lasting, TypeInv, ManagerTypes
<1>4. KeptInv'
  <2>1. \A c \in Made : c \in managed' \/ c = looper'.conn \/ Closed(c)'
    BY <1>1, <1>2 DEF BusInv, KeptInv, Lasting
  <2>2. ASSUME NEW c \in Conns, work'[c] # "end", Closed(c)'
        PROVE  Undone(c)'
    <3>1. CASE Closed(c)
      BY <1>1, <2>2, <3>1 DEF BusInv, KeptInv, Lasting
    <3>2. CASE ~Closed(c)
      <4>1. cut'[c] = work[c] /\ work[c] \in BusPlaces
        BY <2>2, <3>2 DEF Closed, Cut, TypeInv, SocketTypes, BusInv
      <4> QED
        BY <2>2, <4>1 DEF Undone, Midway, BusPlaces
    <3> QED
      BY <3>1, <3>2
  <2> QED
    BY <2>1, <2>2 DEF KeptInv, Made
<1>5. ServerInv'
  <2>1. \A c \in Made : Kept(c) => Kept(c)'
    BY <1>1, <1>2 DEF Kept, Lasting
  <2> QED
    BY <2>1 DEF BusInv, ServerInv, Made
<1>6. EntryInv'
  <2>1. \A m \in Modules : entry[m] # NoConn => entry[m] \in Conns
    BY <1>2 DEF TypeInv, ManagerTypes, Made, NoConn
  <2> QED
    BY <1>1, <2>1 DEF BusInv, EntryInv, Lasting
<1> QED
  BY <1>3, <1>4, <1>5, <1>6 DEF BusInv, OfSockets

\* The thread that sets c up goes on.
LEMMA WorkBus ==
  ASSUME TypeInv, UnmadeInv, BusInv, NEW c \in Conns, work[c] # "end",
         UNCHANGED <<made, module, managed, looper, cut>>, UNCHANGED OfSockets,
         work' = [work EXCEPT ![c] = work'[c]], work'[c] \in BusPlaces,
         servers' \subseteq servers \cup {module[c]},
         LockSurvives',
         \/ entry' = entry
         \/ entry' = [entry EXCEPT ![module[c]] = c] /\ work'[c] = "end"
  PROVE  BusInv'
<1>1. c \in Made /\ Made \subseteq Conns
  BY Numbers DEF UnmadeInv
<1>2. Kept(c)
  BY <1>1 DEF BusInv, KeptInv, Kept
<1>3. ManagerInv'
  <2>1. \A d \in Conns : d # c => work'[d] = work[d]
    BY DEF TypeInv, SocketTypes
  <2>2. looper.conn # NoConn => looper.conn \in Conns
    BY <1>1 DEF TypeInv, ManagerTypes, Made, NoConn
  <2> QED
    BY <2>1, <2>2 DEF BusInv, ManagerInv, Closed
<1>4. KeptInv'
  BY DEF BusInv, KeptInv, TypeInv, SocketTypes, Closed, Undone, Midway, Made
<1>5. ServerInv'
  <2>1. \A d \in Made : Kept(d) <=> Kept(d)'
    BY DEF Kept, Undone, Midway
  <2> QED
    BY <1>1, <1>2, <2>1 DEF BusInv, ServerInv, Made
<1>6. EntryInv'
  <2>1. ASSUME NEW m \in Modules, entry'[m] # NoConn
        PROVE  /\ module[entry'[m]] = m /\ work'[entry'[m]] = "end"
               /\ Undone(entry'[m]) \/ (entry'[m] \in managed /\ entry'[m] # looper.conn)
    <3>1. CASE entry'[m] = entry[m] /\ entry[m] # c
      <4>1. entry[m] \in Conns
        BY <1>1, <2>1, <3>1 DEF TypeInv, ManagerTypes, Made, NoConn
      <4> QED
        BY <2>1, <3>1, <4>1 DEF BusInv, EntryInv, TypeInv, SocketTypes
    <3>2. CASE entry'[m] = entry[m] /\ entry[m] = c
      BY <1>1, <2>1, <3>2 DEF BusInv, EntryInv
    <3>3. CASE entry'[m] # entry[m]
      <4>1. m = module[c] /\ entry'[m] = c /\ work'[c] = "end"
        BY <3>3 DEF TypeInv, ManagerTypes
      <4>2. Closed(c) => Undone(c)
        BY DEF BusInv, KeptInv
      <4>3. c = looper.conn => Closed(c)
        BY <1>1 DEF BusInv, ManagerInv, NoConn, Conns
      <4> QED
        BY <1>1, <4>1, <4>2, <4>3 DEF BusInv, KeptInv
    <3> QED
      BY <3>1, <3>2, <3>3
  <2> QED
    BY <2>1 DEF EntryInv, Undone, Midway
<1> QED
  BY <1>3, <1>4, <1>5, <1>6 DEF BusInv, OfSockets, TypeInv, SocketTypes

-----------------------------------------------------------------------------
(* References                                                                *)

\* References are dropped with the map's mutex in hand only by the entries.
LEMMA LockedDrops ==
  ASSUME TypeInv, BusInv, Lasting, managed \subseteq managed', DropsUnderLock,
         \A d \in Conns : Held(d) /\ (\A m \in Modules : entry[m] # d) => Held(d)'
  PROVE  LockSurvives'
<1> SUFFICES ASSUME jam'
             PROVE  \E c \in Conns : Undone(c)'
  BY DEF LockSurvives
<1>1. PICK d \in Conns : Held(d) /\ ~Held(d)'
  BY DEF DropsUnderLock, Dropped
<1>2. PICK m \in Modules : entry[m] = d
  BY <1>1
<1>3. d \notin managed'
  BY <1>1 DEF Held
<1>4. Undone(d)
  BY <1>2, <1>3 DEF BusInv, EntryInv, Conns, NoConn
<1> QED
  BY <1>4 DEF Lasting

\* The mutex, once lost, was lost to a connection closed too early, which stays
\* one.
LEMMA LockKept ==
  ASSUME BusInv, Lasting, UNCHANGED jam
  PROVE  LockSurvives'
  BY DEF BusInv, LockSurvives, Lasting

\* A reference is only got from one, but to a connection that is being made.
NoneRevived == \A d \in Made : ~Held(d) => ~Held(d)'

DyingOK == \A d \in dying : d = <<d[1], d[2]>> /\ d[1] \in Made /\ ~Held(d[1])

\* What is referred to has been made.
LEMMA HeldIsMade ==
  ASSUME TypeInv, UnmadeInv, NEW c \in Conns, Held(c)
  PROVE  c \in Made
<1>1. \A n \in 0..made : n = c => c \in Made
  BY DEF Made, Conns
<1>2. work[c] # "end" => c \in Made
  BY DEF UnmadeInv
<1>3. \A s \in Sessions : sess[s].conn \in 0..made
  BY DEF TypeInv, BusTypes, SessionOK, SessionRecord
<1> QED
  BY <1>1, <1>2, <1>3 DEF Held, TypeInv, ManagerTypes

\* A connection that waits for its destructor is not referred to again.
LEMMA DyingKept ==
  ASSUME TypeInv, UnmadeInv, NoneRevived, made' \in {made, made + 1}, NEW t,
         dying' \subseteq dying \cup (Dropped \X {t})
  PROVE  DyingOK'
<1>1. Made \subseteq Made'
  BY DEF TypeInv, ManagerTypes, Made
<1>2. ASSUME NEW d \in dying'
      PROVE  d = <<d[1], d[2]>> /\ d[1] \in Made' /\ ~Held(d[1])'
  <2>1. CASE d \in dying
    BY <1>1, <2>1 DEF TypeInv, BusTypes, NoneRevived
  <2>2. CASE d \in Dropped \X {t}
    <3>1. d = <<d[1], d[2]>> /\ d[1] \in Dropped
      BY <2>2
    <3> QED
      BY <1>1, <3>1, HeldIsMade DEF Dropped
  <2> QED
    BY <2>1, <2>2
<1> QED
  BY <1>2 DEF DyingOK

-----------------------------------------------------------------------------
(* Steps over SoftBus: each of them                                          *)

\* The sessions SoftBus ends keep the connection of the callback that runs.
LEMMA EndedSessions ==
  ASSUME TypeInv, NEW S
  PROVE  /\ DOMAIN Ended(S) = Sessions /\ Ended(S) = [s \in Sessions |-> Ended(S)[s]]
         /\ \A s \in Sessions :
              /\ Ended(S)[s] \in {sess[s], Free, [sess[s] EXCEPT !.st = "gone"]}
              /\ Ended(S)[s].conn = sess[s].conn /\ Ended(S)[s].at = sess[s].at
              /\ sess[s] = Free => Ended(S)[s] = Free
              /\ Ended(S)[s] = [sess[s] EXCEPT !.st = "gone"] /\ Ended(S)[s] # sess[s]
                   => sess[s].at # "idle" /\ sess[s].st # "free"
<1>1. ASSUME NEW s \in Sessions
      PROVE  /\ Ended(S)[s] \in {sess[s], Free, [sess[s] EXCEPT !.st = "gone"]}
             /\ Ended(S)[s].conn = sess[s].conn /\ Ended(S)[s].at = sess[s].at
             /\ sess[s] = Free => Ended(S)[s] = Free
             /\ Ended(S)[s] = [sess[s] EXCEPT !.st = "gone"] /\ Ended(S)[s] # sess[s]
                  => sess[s].at # "idle" /\ sess[s].st # "free"
  <2>1. sess[s] \in SessionRecord /\ (sess[s].at = "idle" <=> sess[s].conn = NoConn)
        /\ (sess[s].st = "free" => sess[s] = Free)
    BY DEF TypeInv, BusTypes, SessionOK
  <2> QED
    BY <2>1 DEF Ended, Free, SessionRecord
<1> QED
  BY <1>1 DEF Ended

\* What the peer does, and what only the sessions remember, leaves the
\* connections alone.
LEMMA QuietActions ==
  ASSUME TypeInv, BusInv,
         \/ \E m \in Modules : PeerOpens(m)
         \/ \E s \in Sessions : \/ PeerAnswers(s) \/ PeerCloses(s)
                                \/ OnConnectionSessionOpened(s) \/ OnConnectionSessionClosed(s)
                                \/ ReportOpened(s) \/ ReportClosed(s) \/ StopService(s)
  PROVE  BusInv'
<1>1. /\ UNCHANGED <<made, module, managed, looper, work>> /\ UNCHANGED OfSockets
      /\ UNCHANGED <<cut, jam, entry>> /\ servers' \subseteq servers
  BY DEF PeerOpens, PeerAnswers, PeerCloses, OnConnectionSessionOpened, OnConnectionSessionClosed,
         ReportOpened, ReportClosed, StopService, EndSession, Unserved, DropsAs, OfSockets,
         managerVars, socketVars, nameVars
<1>2. LockSurvives'
  BY <1>1, CutLasts, LockKept
<1> QED
  BY <1>1, <1>2, QuietBus

\* OnConnectionSessionClosed takes the entry of its name out of the map.
LEMMA EraseEntryBus ==
  ASSUME TypeInv, BusInv, NEW s \in Sessions, EraseEntry(s)
  PROVE  BusInv'
<1> DEFINE c == sess[s].conn
<1>1. c \in Conns
  BY Numbers DEF EraseEntry, TypeInv, BusTypes, SessionOK, SessionRecord, Made, NoConn
<1>2. /\ UNCHANGED <<made, module, managed, looper, work, user>> /\ UNCHANGED OfSockets
      /\ cut' = Cut(c) /\ servers' = servers /\ entry' = Erased(c) /\ DropsUnderLock
      /\ sess' = [sess EXCEPT ![s].at = "stop"]
  BY DEF EraseEntry, OfSockets, managerVars, socketVars
<1>3. Lasting
  <2>1. \E d \in Conns : cut' = Cut(d)
    BY <1>1, <1>2
  <2> QED
    BY <2>1, CutLasts
<1>4. \A t \in Sessions : sess'[t].conn = sess[t].conn
  BY <1>2 DEF TypeInv, BusTypes, SessionOK, SessionRecord
<1>5. \A d \in Conns : Held(d) /\ (\A m \in Modules : entry[m] # d) => Held(d)'
  BY <1>2, <1>4 DEF Held
<1>6. LockSurvives'
  BY <1>2, <1>3, <1>5, LockedDrops
<1>7. \A m \in Modules : entry'[m] \in {entry[m], NoConn}
  BY <1>2 DEF Erased, TypeInv, ManagerTypes
<1>8. cut' = cut \/ \E d \in Conns : cut' = Cut(d)
  BY <1>1, <1>2
<1> HIDE DEF c
<1> QED
  BY <1>2, <1>6, <1>7, <1>8, QuietBus

\* The destructor closes a connection once more; what it closes is not the
\* manager's.
LEMMA DestroyBus ==
  ASSUME TypeInv, BusInv, NEW c \in Made, NEW t, Destroy(c, t)
  PROVE  BusInv'
<1>1. /\ UNCHANGED <<made, module, managed, looper, work, user, cut>> /\ UNCHANGED OfSockets
      /\ servers' \subseteq servers /\ entry' = Erased(c)
      /\ sess' = EndedWith(c)
  BY DEF Destroy, EndSession, Unserved, OfSockets, managerVars, socketVars
<1>2. Lasting
  BY <1>1, CutLasts
<1>3. \A s \in Sessions : sess'[s].conn = sess[s].conn
  BY <1>1, EndedSessions DEF EndedWith
<1>4. \A d \in Conns : Held(d) /\ (\A m \in Modules : entry[m] # d) => Held(d)'
  BY <1>1, <1>3 DEF Held
<1>5. LockSurvives'
  <2> SUFFICES ASSUME jam'
               PROVE  \E d \in Conns : Undone(d)'
    BY DEF LockSurvives
  <2>1. PICK d \in Conns : Held(d) /\ ~Held(d)'
    BY DEF Destroy, Dropped
  <2>2. PICK m \in Modules : entry[m] = d
    BY <1>4, <2>1
  <2>3. d \notin managed'
    BY <2>1 DEF Held
  <2>4. Undone(d)
    BY <1>1, <2>2, <2>3 DEF BusInv, EntryInv, Conns, NoConn
  <2> QED
    BY <1>2, <2>4 DEF Lasting
<1>6. \A m \in Modules : entry'[m] \in {entry[m], NoConn}
  BY DEF Destroy, Erased, TypeInv, ManagerTypes
<1> QED
  BY <1>1, <1>5, <1>6, QuietBus

\* The thread of a connection over SoftBus, from its server to its entry in the
\* map.
LEMMA SetupBus ==
  ASSUME TypeInv, UnmadeInv, BusInv, NEW c \in Conns, SetupSession(c)
  PROVE  BusInv'
<1>1. /\ UNCHANGED <<made, module, managed, looper, cut, user>> /\ UNCHANGED OfSockets
      /\ work[c] # "end" /\ work' = [work EXCEPT ![c] = work'[c]] /\ work'[c] \in BusPlaces
      /\ servers' \subseteq servers \cup {module[c]}
  BY DEF SetupSession, StartSoftBusService, OpenSoftBusSession, SetSessionId, EnterSession, Goto,
         OfSockets, managerVars, socketVars, nameVars, BusPlaces, TypeInv, SocketTypes
<1>2. Lasting
  BY <1>1, CutLasts
<1>3. CASE EnterSession(c)
  <2>1. /\ work'[c] = "end" /\ entry' = [entry EXCEPT ![module[c]] = c] /\ DropsUnderLock
        /\ UNCHANGED sess
    BY <1>3 DEF EnterSession, Goto, TypeInv, SocketTypes
  <2>2. module[c] \in Modules
    BY <1>1 DEF UnmadeInv, TypeInv, ManagerTypes
  <2>3. \A d \in Conns : Held(d) /\ (\A m \in Modules : entry[m] # d) => Held(d)'
    <3>1. Held(c)'
      BY <2>1, <2>2 DEF Held, TypeInv, ManagerTypes
    <3>2. ASSUME NEW d \in Conns \ {c}, Held(d), \A m \in Modules : entry[m] # d
          PROVE  Held(d)'
      <4>1. work'[d] = work[d]
        BY <1>1, <3>2 DEF TypeInv, SocketTypes
      <4> QED
        BY <1>1, <2>1, <3>2, <4>1 DEF Held
    <3> QED
      BY <3>1, <3>2
  <2>4. LockSurvives'
    BY <1>1, <1>2, <2>1, <2>3, LockedDrops
  <2> QED
    BY <1>1, <2>1, <2>4, WorkBus
<1>4. CASE ~EnterSession(c)
  <2>1. UNCHANGED <<entry, jam>>
    BY <1>4 DEF SetupSession, StartSoftBusService, OpenSoftBusSession, SetSessionId, DropsAs,
                nameVars
  <2> QED
    BY <1>1, <1>2, <2>1, LockKept, WorkBus
<1> QED
  BY <1>3, <1>4

\* StartListen and StartConnection make a connection with a thread of its own.
LEMMA MakingBus ==
  ASSUME TypeInv, UnmadeInv, BusInv, SoftBus, NEW m \in Modules,
         StartListen(m) \/ StartConnection(m)
  PROVE  BusInv'
<1> SUFFICES ASSUME NEW c, c = made + 1
             PROVE  BusInv'
  OBVIOUS
<1>1. looper = Idle /\ made < MaxConnections /\ made' = c /\ module' = [module EXCEPT ![c] = m]
  BY DEF StartListen, StartConnection, NewChannel
<1>2. c \in Conns \ Made /\ Made \subseteq Conns /\ Made' = Made \cup {c}
  BY <1>1, Numbers DEF Made
<1>3. /\ UNCHANGED <<entry, cut, jam>> /\ UNCHANGED OfSockets
      /\ managed \subseteq managed' /\ managed' \subseteq managed \cup {c}
      /\ \/ /\ looper' = [at |-> "enter", conn |-> c] /\ managed' = managed /\ work' = work
            /\ servers' \subseteq servers \cup {m}
         \/ /\ looper' = looper /\ managed' = managed \cup {c} /\ servers' = servers
            /\ work' = [work EXCEPT ![c] = "serve"]
  BY <1>1 DEF StartListen, StartConnection, SoftBus, OfSockets, socketVars, nameVars, busVars
<1>4. /\ ~Closed(c) /\ work[c] = "end" /\ module'[c] = m
      /\ \A d \in Made : module'[d] = module[d] /\ work'[d] = work[d] /\ d # c
  BY <1>1, <1>2, <1>3 DEF UnmadeInv, Closed, TypeInv, ManagerTypes, SocketTypes
<1>5. Lasting
  BY <1>3, CutLasts
<1>6. looper.conn = NoConn /\ c # NoConn /\ managed \subseteq Made
  BY <1>1, <1>2, Numbers DEF Idle, TypeInv, ManagerTypes
<1>7. ManagerInv'
  BY <1>1, <1>2, <1>3, <1>4, <1>6 DEF ManagerInv, Idle
<1>8. KeptInv'
  <2>1. \A d \in Made' : d \in managed' \/ d = looper'.conn \/ Closed(d)'
    BY <1>2, <1>3, <1>5, <1>6 DEF BusInv, KeptInv, Lasting, Made, NoConn
  <2>2. \A d \in Conns : work'[d] # "end" /\ Closed(d)' => Undone(d)'
    BY <1>2, <1>3, <1>4, <1>5 DEF BusInv, KeptInv, Lasting, Closed, TypeInv, SocketTypes
  <2> QED
    BY <2>1, <2>2 DEF KeptInv
<1>9. ServerInv'
  <2>1. \A d \in Made : Kept(d) => Kept(d)'
    BY <1>2, <1>3, <1>5, <1>6 DEF Kept, Lasting, Made, NoConn
  <2>2. Kept(c)'
    BY <1>3 DEF Kept
  <2> QED
    BY <1>2, <1>3, <1>4, <2>1, <2>2 DEF BusInv, ServerInv
<1>10. EntryInv'
  <2>1. \A n \in Modules : entry[n] # NoConn => entry[n] \in Made
    BY DEF TypeInv, ManagerTypes, Made, NoConn
  <2>2. ASSUME NEW n \in Modules, entry[n] # NoConn
        PROVE  /\ module'[entry[n]] = n /\ work'[entry[n]] = "end"
               /\ Undone(entry[n])' \/ (entry[n] \in managed' /\ entry[n] # looper'.conn)
    <3>1. entry[n] \in Made /\ entry[n] \in Conns /\ entry[n] # c
      BY <1>2, <2>1, <2>2
    <3>2. /\ module[entry[n]] = n /\ work[entry[n]] = "end"
          /\ Undone(entry[n]) \/ entry[n] \in managed
      BY <2>2 DEF BusInv, EntryInv
    <3> QED
      BY <1>3, <1>4, <1>5, <1>6, <2>2, <3>1, <3>2 DEF Lasting
  <2> QED
    BY <1>3, <2>2 DEF EntryInv
<1>11. LockSurvives'
  BY <1>3, <1>5, LockKept
<1>12. \A d \in Conns : work'[d] \in BusPlaces
  BY <1>3 DEF BusInv, BusPlaces, TypeInv, SocketTypes
<1> QED
  BY <1>3, <1>7, <1>8, <1>9, <1>10, <1>11, <1>12 DEF BusInv, OfSockets

\* The looper hands the connection it made to the manager.
LEMMA EnterListeningBus ==
  ASSUME TypeInv, UnmadeInv, BusInv, EnterListening
  PROVE  BusInv'
<1> SUFFICES ASSUME NEW c, c = looper.conn
             PROVE  BusInv'
  OBVIOUS
<1>1. /\ looper.at = "enter" /\ entry' = [entry EXCEPT ![module[c]] = c]
      /\ managed' = managed \cup {c} /\ looper' = Idle /\ DropsUnderLock
      /\ UNCHANGED <<made, module, user, work, cut, servers, sess>> /\ UNCHANGED OfSockets
  BY DEF EnterListening, OfSockets, socketVars
<1>2. c \in Made /\ c \in Conns /\ work[c] = "end" /\ c # NoConn
  BY <1>1, Numbers DEF BusInv, ManagerInv, TypeInv, ManagerTypes, Made, NoConn
<1>3. Lasting
  BY <1>1, CutLasts
<1>4. LockSurvives'
  <2>1. \A d \in Conns : Held(d) /\ (\A m \in Modules : entry[m] # d) => Held(d)'
    BY <1>1 DEF Held
  <2> QED
    BY <1>1, <1>3, <2>1, LockedDrops
<1>5. ManagerInv'
  BY <1>1 DEF ManagerInv, Idle
<1>6. KeptInv'
  BY <1>1, <1>3 DEF BusInv, KeptInv, Made, Closed, Undone, Midway
<1>7. ServerInv'
  <2>1. \A d \in Made : Kept(d) => Kept(d)'
    BY <1>1, <1>3, Numbers DEF Kept, Lasting
  <2> QED
    BY <1>1, <2>1 DEF BusInv, ServerInv, Made
<1>8. EntryInv'
  <2>1. ASSUME NEW m \in Modules, entry'[m] # NoConn
        PROVE  /\ module[entry'[m]] = m /\ work[entry'[m]] = "end"
               /\ Undone(entry'[m]) \/ entry'[m] \in managed'
    <3>1. CASE m = module[c]
      BY <1>1, <1>2, <3>1 DEF TypeInv, ManagerTypes
    <3>2. CASE m # module[c]
      BY <1>1, <2>1, <3>2 DEF BusInv, EntryInv, TypeInv, ManagerTypes
    <3> QED
      BY <3>1, <3>2
  <2>2. \A m \in Modules : entry'[m] # NoConn => entry'[m] # looper'.conn
    BY <1>1 DEF Idle
  <2> QED
    BY <1>1, <2>1, <2>2 DEF EntryInv, Undone, Midway
<1> QED
  BY <1>1, <1>4, <1>5, <1>6, <1>7, <1>8 DEF BusInv, OfSockets

\* The looper gives the manager's connections up, to close them one by one.
LEMMA LooperBus ==
  ASSUME TypeInv, BusInv, DestroyAllChannels \/ RemoveRemoteDevice
  PROVE  BusInv'
<1>1. /\ UNCHANGED <<made, module, managed, user, work, cut, servers, entry, jam>>
      /\ UNCHANGED OfSockets /\ looper' \in {Idle, [at |-> "destroy", conn |-> NoConn]}
      /\ looper.at \in {"idle", "destroy"}
  BY DEF DestroyAllChannels, RemoveRemoteDevice, OfSockets, managerVars, socketVars, nameVars,
         busVars, Idle
<1>2. looper'.conn = NoConn /\ looper.conn = NoConn
  BY <1>1 DEF Idle, BusInv, ManagerInv
<1>3. ManagerInv' /\ KeptInv'
  BY <1>1, <1>2 DEF BusInv, ManagerInv, KeptInv, Idle, Made, Closed, Undone, Midway
<1>4. ServerInv' /\ EntryInv' /\ LockSurvives'
  BY <1>1, <1>2 DEF BusInv, ServerInv, EntryInv, LockSurvives, Kept, Made, Closed, Undone, Midway
<1> QED
  BY <1>1, <1>3, <1>4 DEF BusInv, OfSockets

\* The looper closes the connection it has taken from the manager.
LEMMA CloseConnectionBus ==
  ASSUME TypeInv, BusInv, CloseConnection
  PROVE  BusInv'
<1> SUFFICES ASSUME NEW c, c = First
             PROVE  BusInv'
  OBVIOUS
<1>1. c \in managed
  <2>1. managed \subseteq Nat /\ managed # {}
    BY DEF CloseConnection, TypeInv, ManagerTypes, Made
  <2> QED
    BY <2>1, LeastIsOne DEF First
<1>2. c \in Made /\ c \in Conns /\ c # NoConn
  BY <1>1, Numbers DEF TypeInv, ManagerTypes
<1>3. /\ looper.at = "destroy" /\ entry' = Erased(c) /\ cut' = Cut(c)
      /\ looper' = [at |-> "close", conn |-> c] /\ DropsUnderLock
      /\ UNCHANGED <<made, module, managed, user, work, servers, sess>> /\ UNCHANGED OfSockets
  BY DEF CloseConnection, OfSockets, managerVars, socketVars
<1>4. Lasting /\ looper.conn = NoConn
  <2>1. \E d \in Conns : cut' = Cut(d)
    BY <1>2, <1>3
  <2> QED
    BY <1>3, <2>1, CutLasts DEF BusInv, ManagerInv
<1>5. LockSurvives'
  <2>1. \A d \in Conns : Held(d) /\ (\A m \in Modules : entry[m] # d) => Held(d)'
    BY <1>3, <1>4 DEF Held, Conns, NoConn
  <2> QED
    BY <1>3, <1>4, <2>1, LockedDrops
<1>6. Closed(c)' /\ (~Closed(c) => cut'[c] = work[c])
  BY <1>2, <1>3 DEF Closed, Cut, TypeInv, SocketTypes, BusPlaces, TcpPlaces
<1>7. ManagerInv'
  BY <1>1, <1>2, <1>3, <1>6 DEF ManagerInv
<1>8. KeptInv'
  <2>1. \A d \in Made : d \in managed' \/ d = looper'.conn \/ Closed(d)'
    BY <1>3, <1>4, Numbers DEF BusInv, KeptInv, Lasting, Made
  <2>2. ASSUME NEW d \in Conns, work'[d] # "end", Closed(d)'
        PROVE  Undone(d)'
    <3>1. CASE Closed(d)
      BY <1>3, <1>4, <2>2, <3>1 DEF BusInv, KeptInv, Lasting
    <3>2. CASE ~Closed(d)
      <4>1. cut'[d] = work[d] /\ work[d] \in BusPlaces
        BY <1>3, <2>2, <3>2 DEF Closed, Cut, TypeInv, SocketTypes, BusInv
      <4> QED
        BY <1>3, <2>2, <4>1 DEF Undone, Midway, BusPlaces
    <3> QED
      BY <3>1, <3>2
  <2> QED
    BY <1>3, <2>1, <2>2 DEF KeptInv, Made
<1>9. ServerInv'
  <2>1. \A d \in Made : Kept(d) => Kept(d)'
    BY <1>3, <1>4, Numbers DEF Kept, Lasting, Made, NoConn
  <2> QED
    BY <1>3, <2>1 DEF BusInv, ServerInv, Made
<1>10. EntryInv'
  <2>1. \A m \in Modules : entry'[m] # NoConn => entry'[m] = entry[m] /\ m # module[c]
    BY <1>3 DEF Erased, TypeInv, ManagerTypes
  <2>2. \A m \in Modules : entry[m] # NoConn => entry[m] \in Conns
    BY Numbers DEF TypeInv, ManagerTypes, Made, NoConn
  <2> QED
    BY <1>3, <1>4, <2>1, <2>2 DEF BusInv, EntryInv, Lasting
<1> QED
  BY <1>3, <1>5, <1>7, <1>8, <1>9, <1>10 DEF BusInv, OfSockets

\* The looper closes the session of the connection, and removes its server.
LEMMA CloseSoftBusSessionBus ==
  ASSUME TypeInv, BusInv, CloseSoftBusSession
  PROVE  BusInv'
<1> SUFFICES ASSUME NEW c, c = looper.conn
             PROVE  BusInv'
  OBVIOUS
<1>1. /\ looper.at = "close" /\ managed' = managed \ {c} /\ servers' = servers \ {module[c]}
      /\ looper' = [at |-> "destroy", conn |-> NoConn]
      /\ UNCHANGED <<made, module, user, work, cut, entry, jam>> /\ UNCHANGED OfSockets
  BY DEF CloseSoftBusSession, EndSession, Unserved, OfSockets, socketVars, DropsAs
<1>2. Closed(c)
  BY <1>1 DEF BusInv, ManagerInv
<1>3. ManagerInv'
  BY <1>1 DEF ManagerInv
<1>4. KeptInv'
  BY <1>1, <1>2 DEF BusInv, KeptInv, Made, Closed, Undone, Midway
<1>5. ServerInv'
  <2>1. \A d \in Made : Kept(d) /\ d # c => Kept(d)'
    BY <1>1 DEF Kept, Undone, Midway
  <2> QED
    BY <1>1, <2>1 DEF BusInv, ServerInv, Made
<1>6. EntryInv' /\ LockSurvives'
  BY <1>1 DEF BusInv, EntryInv, LockSurvives, Undone, Midway
<1> QED
  BY <1>1, <1>3, <1>4, <1>5, <1>6 DEF BusInv, OfSockets

-----------------------------------------------------------------------------
(* Types                                                                     *)

\* A new channel takes the next number and the name of its module.
LEMMA Making ==
  ASSUME TypeInv, NEW m \in Modules, NewChannel(m)
  PROVE  /\ made' = made + 1 /\ made' \in 0..MaxConnections /\ made' \in Conns \ Made
         /\ Made' = Made \cup {made'} /\ looper = Idle
         /\ 0..made \subseteq 0..made'
         /\ module' \in [Conns -> Modules \cup {NoName}]
         /\ \A c \in Made' : module'[c] \in Modules
         /\ side' = side /\ listed' = TRUE
<1>1. made' = made + 1 /\ made < MaxConnections /\ looper = Idle
      /\ module' = [module EXCEPT ![made + 1] = m] /\ side' = side /\ listed' = TRUE
  BY DEF NewChannel
<1>2. made' \in Conns \ Made /\ made \in Nat /\ MaxConnections \in Nat
  BY <1>1, Numbers
<1>3. Made' = Made \cup {made'}
  BY <1>1, <1>2 DEF Made
<1>4. module' \in [Conns -> Modules \cup {NoName}]
      /\ \A c \in Made' : module'[c] \in Modules
  BY <1>1, <1>2, <1>3 DEF TypeInv, ManagerTypes
<1> QED
  BY <1>1, <1>2, <1>3, <1>4

\* The first of the manager's connections is one that was made.
LEMMA FirstIsManaged ==
  ASSUME TypeInv, managed # {}
  PROVE  First \in managed /\ First \in 0..made /\ First # NoConn /\ First \in Conns
<1>1. managed \subseteq Nat
  BY DEF TypeInv, ManagerTypes, Made
<1>2. First \in managed
  BY <1>1, LeastIsOne DEF First
<1> QED
  BY <1>2, Numbers DEF TypeInv, ManagerTypes, Made, NoConn

\* A callback that is under way has found a connection, which was made.
LEMMA SessionConn ==
  ASSUME TypeInv, NEW s \in Sessions
  PROVE  /\ sess[s].conn \in 0..made
         /\ sess[s].at # "idle" => sess[s].conn \in Made /\ module[sess[s].conn] \in Modules
  BY DEF TypeInv, BusTypes, SessionOK, SessionRecord, ManagerTypes, Made, NoConn

\* The types of the manager's variables are kept by every step.
LEMMA ManagerTyped ==
  ASSUME TypeInv, UnmadeInv, (Tcp => TcpInv) /\ (SoftBus => BusInv), ChannelsNext
  PROVE  ManagerTypes'
<1>0. ManagerTypes /\ Made = 1..made /\ made \in Nat /\ 0 \in 0..made
  BY Numbers DEF Made, TypeInv
<1>1. ASSUME NEW m \in Modules, StartListenTcp(m) \/ StartConnection(m) \/ StartListen(m)
      PROVE  ManagerTypes'
  <2>1. NewChannel(m)
    BY <1>1 DEF StartListenTcp, StartConnection, StartListen
  <2>2. /\ managed' \subseteq managed \cup {made + 1} /\ UNCHANGED <<user, entry>>
        /\ looper' \in {looper, [at |-> "enter", conn |-> made + 1]}
    BY <1>1 DEF StartListenTcp, StartConnection, StartListen, busVars, nameVars
  <2>3. /\ made' = made + 1 /\ made' \in 0..MaxConnections
        /\ Made' = Made \cup {made'} /\ looper = Idle
        /\ 0..made \subseteq 0..made'
        /\ module' \in [Conns -> Modules \cup {NoName}]
        /\ \A c \in Made' : module'[c] \in Modules
        /\ side' = side /\ listed' = TRUE
    BY <2>1, Making
  <2>4. looper' \in [at : {"idle", "enter", "destroy", "close"}, conn : 0..made']
    <3>1. made' \in 0..made'
      BY <1>0, <2>3
    <3> QED
      BY <2>2, <2>3, <3>1, <1>0 DEF Idle, NoConn
  <2>5. user' \in [Modules -> 0..made'] /\ entry' \in [Modules -> 0..made']
    BY <1>0, <2>2, <2>3 DEF ManagerTypes
  <2>6. managed' \subseteq Made'
    BY <1>0, <2>2, <2>3 DEF ManagerTypes
  <2> QED
    BY <1>0, <2>3, <2>4, <2>5, <2>6 DEF ManagerTypes
<1>2. CASE EnterListening
  <2>1. UNCHANGED <<side, made, module, listed, user>> /\ looper' = Idle
        /\ managed' = managed \cup {looper.conn}
        /\ entry' = [entry EXCEPT ![module[looper.conn]] = looper.conn]
    BY <1>2 DEF EnterListening
  <2>2. looper.conn \in 0..made /\ looper.conn # 0
    BY <1>0, <1>2, Numbers DEF EnterListening, BusInv, TcpInv, ManagerInv, SoftBus, ManagerTypes,
                               NoConn
  <2>3. looper.conn \in Made
    BY <1>0, <2>2
  <2> QED
    BY <1>0, <2>1, <2>2, <2>3 DEF ManagerTypes, Idle, NoConn, Made
<1>3. CASE DestroyAllChannels \/ RemoveRemoteDevice
  <2>1. UNCHANGED <<side, made, module, managed, user, entry>> /\ listed' \in {listed, FALSE}
        /\ looper' \in {Idle, [at |-> "destroy", conn |-> NoConn]}
    BY <1>3 DEF DestroyAllChannels, RemoveRemoteDevice, managerVars, busVars, nameVars
  <2>2. looper' \in [at : {"idle", "enter", "destroy", "close"}, conn : 0..made']
    BY <1>0, <2>1 DEF Idle, NoConn
  <2> QED
    BY <1>0, <2>1, <2>2 DEF ManagerTypes, Made
<1>4. CASE DestroyTcp
  <2>1. UNCHANGED <<side, made, module, listed, looper, entry>> /\ managed' \subseteq managed
        /\ user' = [user EXCEPT ![module[First]] = 0]
    BY <1>4 DEF DestroyTcp, CloseTcp, OnChannelRemoved, busVars, nameVars, NoConn
  <2> QED
    BY <1>0, <2>1 DEF ManagerTypes, Made
<1>5. CASE CloseConnection
  <2>1. UNCHANGED managerVars /\ UNCHANGED user /\ entry' = [entry EXCEPT ![module[First]] = 0]
        /\ looper' = [at |-> "close", conn |-> First]
    BY <1>5 DEF CloseConnection, Erased, NoConn
  <2>2. First \in 0..made
    BY <1>5, FirstIsManaged DEF CloseConnection
  <2> QED
    BY <1>0, <2>1, <2>2 DEF ManagerTypes, managerVars, Made
<1>6. CASE CloseSoftBusSession
  <2>1. UNCHANGED <<side, made, module, listed, user, entry>> /\ managed' \subseteq managed
        /\ looper' = [at |-> "destroy", conn |-> NoConn]
    BY <1>6 DEF CloseSoftBusSession
  <2> QED
    BY <1>0, <2>1 DEF ManagerTypes, NoConn, Made
<1>7. ASSUME NEW c \in Conns, Reading(c)
      PROVE  ManagerTypes'
  BY <1>0, <1>7 DEF Reading, ReadLooper, Recv, RecvPacket, RecvEnds, RecvFails, HandleReceivedData,
              managerVars, busVars, nameVars, Made, ManagerTypes
<1>8. ASSUME NEW c \in Conns, Accepting(c)
      PROVE  ManagerTypes'
  <2>1. c \in Made
    BY <1>8 DEF Accepting, Accept, PeerConnects, PeerPortFails, SetRemoteSocket, OpenTcp, UnmadeInv
  <2>2. UNCHANGED managerVars /\ UNCHANGED <<looper, entry>>
        /\ user' \in {user, [user EXCEPT ![module[c]] = c]}
    BY <1>8 DEF Accepting, Accept, PeerConnects, PeerPortFails, SetRemoteSocket, OpenTcp,
                OnChannelCreated, busVars, nameVars
  <2> QED
    BY <1>0, <2>1, <2>2 DEF managerVars, Made, ManagerTypes
<1>9. ASSUME NEW c \in Conns, SetupSession(c)
      PROVE  ManagerTypes'
  <2>1. c \in Made
    BY <1>9 DEF SetupSession, StartSoftBusService, OpenSoftBusSession, SetSessionId, EnterSession,
                UnmadeInv
  <2>2. UNCHANGED managerVars /\ UNCHANGED <<looper, user>>
        /\ entry' \in {entry, [entry EXCEPT ![module[c]] = c]}
    BY <1>9 DEF SetupSession, StartSoftBusService, OpenSoftBusSession, SetSessionId, EnterSession,
                nameVars
  <2> QED
    BY <1>0, <2>1, <2>2 DEF managerVars, Made, ManagerTypes
<1>10. ASSUME NEW s \in Sessions, PeerAnswers(s) \/ PeerCloses(s) \/ Callback(s)
       PROVE  ManagerTypes'
  <2>1. sess[s].conn \in 0..made
    BY SessionConn
  <2>2. UNCHANGED managerVars /\ UNCHANGED looper
        /\ \/ entry' = entry /\ (\/ user' = user
                                 \/ \E m, c : c \in {0, sess[s].conn} /\ user' = [user EXCEPT ![m] = c])
           \/ user' = user /\ \E m : entry' = [entry EXCEPT ![m] = 0]
    BY <1>10 DEF PeerAnswers, PeerCloses, Callback, OnConnectionSessionOpened,
        OnConnectionSessionClosed, ReportOpened, ReportClosed, EraseEntry, StopService,
        OnChannelCreated, OnChannelRemoved, Erased, nameVars, NoConn
  <2> QED
    BY <1>0, <2>1, <2>2 DEF managerVars, Made, ManagerTypes
<1>11. ASSUME NEW m \in Modules, PeerOpens(m)
       PROVE  ManagerTypes'
  BY <1>0, <1>11 DEF PeerOpens, managerVars, nameVars, Made, ManagerTypes
<1>12. ASSUME NEW d \in dying, Destroy(d[1], d[2])
       PROVE  ManagerTypes'
  <2>1. UNCHANGED managerVars /\ UNCHANGED <<looper, user>>
        /\ entry' = [entry EXCEPT ![module[d[1]]] = 0]
    BY <1>12 DEF Destroy, Erased, NoConn
  <2> QED
    BY <1>0, <2>1 DEF managerVars, Made, ManagerTypes
<1> QED
  BY <1>1, <1>2, <1>3, <1>4, <1>5, <1>6, <1>7, <1>8, <1>9, <1>10, <1>11, <1>12 DEF ChannelsNext

\* The types of threads and sockets are kept, and the connections made only
\* grow.
LEMMA SocketTyped ==
  ASSUME TypeInv, UnmadeInv, (Tcp => TcpInv) /\ (SoftBus => BusInv), ChannelsNext
  PROVE  SocketTypes' /\ made \in Nat /\ made' \in Nat /\ made <= made'
<1>0. SocketTypes /\ made \in Nat /\ Made = 1..made /\ (made' = made => Made' = Made)
  BY Numbers DEF Made, TypeInv
<1>1. ASSUME NEW m \in Modules, StartListenTcp(m) \/ StartConnection(m) \/ StartListen(m)
      PROVE  SocketTypes' /\ made' \in Nat /\ made <= made'
  <2>1. NewChannel(m)
    BY <1>1 DEF StartListenTcp, StartConnection, StartListen
  <2>2. /\ UNCHANGED socketVars /\ UNCHANGED cut
        /\ work' \in [Conns -> TcpPlaces \cup BusPlaces]
    BY <1>0, <1>1 DEF StartListenTcp, StartConnection, StartListen, TcpPlaces, BusPlaces,
                      SocketTypes
  <2>3. made' = made + 1 /\ Made \subseteq Made' /\ 0..made \subseteq 0..made'
    BY <2>1, Making
  <2> QED
    BY <1>0, <2>2, <2>3 DEF socketVars, SocketTypes
<1>2. CASE EnterListening \/ DestroyAllChannels \/ RemoveRemoteDevice \/ CloseSoftBusSession
           \/ \E m \in Modules : PeerOpens(m)
  BY <1>0, <1>2 DEF EnterListening, DestroyAllChannels, RemoveRemoteDevice, CloseSoftBusSession,
              EndSession, PeerOpens, managerVars, socketVars, SocketTypes
<1>3. CASE DestroyTcp
  <2>1. First \in Made /\ First \in Conns
    BY <1>0, <1>3, FirstIsManaged DEF DestroyTcp, NoConn
  <2>2. UNCHANGED <<made, work, hand, reader, on>> /\ cut' = Cut(First)
        /\ tcp' \in [Conns -> [remote : {0} \cup Sockets, isReceiving : BOOLEAN, stopReceive : BOOLEAN]]
    BY <1>0, <1>3, <2>1 DEF DestroyTcp, CloseTcp, Shutdown, SocketTypes
  <2>3. shut' \subseteq Made /\ file' \in [Sockets -> 0..made]
    BY <1>0, <1>3, <2>1 DEF DestroyTcp, CloseTcp, Shutdown, NoConn, SocketTypes
  <2> QED
    BY <1>0, <2>1, <2>2, <2>3 DEF Cut, SocketTypes
<1>4. CASE CloseConnection
  BY <1>0, <1>4, FirstIsManaged DEF CloseConnection, Cut, managerVars, socketVars, SocketTypes
<1>5. ASSUME NEW c \in Conns, Reading(c)
      PROVE  SocketTypes' /\ made' = made
  <2>1. /\ UNCHANGED <<made, work, cut, hand, shut, file>>
        /\ tcp' \in {tcp, [tcp EXCEPT ![c].isReceiving = TRUE]}
        /\ \E to \in {"loop", "recv", "handle", "end"} : reader' = [reader EXCEPT ![c] = to]
    BY <1>5 DEF Reading, ReadLooper, Recv, RecvPacket, RecvEnds, RecvFails,
                HandleReceivedData, Read, Received, managerVars
  <2>2. on' \in [Conns -> 0..made]
    <3>1. CASE UNCHANGED on
      BY <1>0, <3>1 DEF SocketTypes
    <3>2. CASE Recv(c) /\ tcp[c].isReceiving
      <4>1. SoftBus => reader[c] = "none"
        BY DEF BusInv
      <4>2. Tcp /\ reader[c] = "loop" => hand[c] \in Sockets
        BY DEF TcpInv, ReaderInv
      <4> QED
        BY <1>0, <3>2, <4>1, <4>2 DEF Recv, Read, SoftBus, SocketTypes
    <3> QED
      BY <1>5, <3>1, <3>2 DEF Reading, ReadLooper, Recv, RecvPacket, RecvEnds, RecvFails,
                              HandleReceivedData
  <2>3. tcp' \in [Conns -> [remote : {0} \cup Sockets, isReceiving : BOOLEAN, stopReceive : BOOLEAN]]
    <3>1. CASE tcp' = tcp
      BY <1>0, <3>1 DEF SocketTypes
    <3>2. CASE tcp' = [tcp EXCEPT ![c].isReceiving = TRUE]
      BY <1>0, <3>2 DEF SocketTypes
    <3> QED
      BY <2>1, <3>1, <3>2
  <2>4. reader' \in [Conns -> {"none", "new", "loop", "recv", "handle", "end"}]
    BY <1>0, <2>1 DEF SocketTypes
  <2> QED
    BY <1>0, <2>1, <2>2, <2>3, <2>4 DEF SocketTypes
<1>6. ASSUME NEW c \in Conns, Accepting(c)
      PROVE  SocketTypes' /\ made' = made
  <2>1. c \in Made
    BY <1>6 DEF Accepting, Accept, PeerConnects, PeerPortFails, SetRemoteSocket, OpenTcp, UnmadeInv
  <2>2. CASE PeerConnects(c)
    <3>1. Tcp
      BY <2>2 DEF PeerConnects, BusInv, BusPlaces, SoftBus
    <3>2. Least({g \in Sockets : file[g] = NoConn}) \in Sockets
      <4>1. {g \in Sockets : file[g] = NoConn} # {} /\ Sockets \subseteq Nat
        BY <2>2, <3>1, SocketIsFree DEF PeerConnects, TcpInv, Sockets
      <4> QED
        BY <4>1, LeastIsOne
    <3> QED
      BY <1>0, <2>1, <2>2, <3>2 DEF PeerConnects, Goto, TcpPlaces, managerVars, Sockets, SocketTypes
  <2>3. CASE SetRemoteSocket(c)
    <3>1. Tcp
      BY <2>3 DEF SetRemoteSocket, BusInv, BusPlaces, SoftBus
    <3>2. hand[c] \in Sockets
      BY <2>3, <3>1 DEF SetRemoteSocket, TcpInv, SocketInv
    <3> QED
      BY <1>0, <2>3, <3>2 DEF SetRemoteSocket, Goto, TcpPlaces, managerVars, SocketTypes
  <2>4. CASE Accept(c) \/ PeerPortFails(c) \/ OpenTcp(c)
    BY <1>0, <2>4 DEF Accept, PeerPortFails, OpenTcp, Goto, TcpPlaces, managerVars, socketVars,
                      SocketTypes
  <2> QED
    BY <1>6, <2>2, <2>3, <2>4 DEF Accepting
<1>7. ASSUME NEW c \in Conns, SetupSession(c)
      PROVE  SocketTypes' /\ made' = made
  <2>1. CASE OpenSoftBusSession(c)
    <3>1. hand' \in [Conns -> Nat]
      <4>1. Available # {} => Least(Available) \in Available /\ Available \subseteq Nat
        BY LeastIsOne DEF Available, Sessions
      <4> QED
        BY <1>0, <2>1, <4>1 DEF OpenSoftBusSession, SocketTypes
    <3> QED
      BY <1>0, <2>1, <3>1 DEF OpenSoftBusSession, Goto, BusPlaces, managerVars, SocketTypes
  <2>2. CASE StartSoftBusService(c) \/ SetSessionId(c) \/ EnterSession(c)
    BY <1>0, <2>2 DEF StartSoftBusService, SetSessionId, EnterSession, Goto, BusPlaces, managerVars,
                      socketVars, SocketTypes
  <2> QED
    BY <1>7, <2>1, <2>2 DEF SetupSession
<1>8. ASSUME NEW s \in Sessions, PeerAnswers(s) \/ PeerCloses(s) \/ Callback(s)
      PROVE  SocketTypes' /\ made' = made
  <2>1. CASE EraseEntry(s)
    <3>1. sess[s].conn \in Conns
      BY <2>1, SessionConn, Numbers DEF EraseEntry
    <3> QED
      BY <1>0, <2>1, <3>1 DEF EraseEntry, Cut, managerVars, socketVars, SocketTypes
  <2>2. CASE ~EraseEntry(s)
    <3>1. UNCHANGED <<made, work, cut>> /\ UNCHANGED socketVars
      BY <1>8, <2>2 DEF PeerAnswers, PeerCloses, Callback, OnConnectionSessionOpened,
             OnConnectionSessionClosed, ReportOpened, ReportClosed, StopService, EndSession, managerVars
    <3> QED
      BY <1>0, <3>1 DEF socketVars, SocketTypes
  <2> QED
    BY <2>1, <2>2
<1>9. ASSUME NEW d \in dying, Destroy(d[1], d[2])
      PROVE  SocketTypes' /\ made' = made
  BY <1>0, <1>9 DEF Destroy, EndSession, managerVars, socketVars, SocketTypes
<1> QED
  <2>1. CASE CloseConnection
    BY <1>0, <1>4, <2>1 DEF CloseConnection, managerVars
  <2>2. CASE DestroyTcp
    BY <1>0, <1>3, <2>2 DEF DestroyTcp
  <2>3. CASE DestroyAllChannels \/ RemoveRemoteDevice \/ EnterListening \/ CloseSoftBusSession
             \/ \E m \in Modules : PeerOpens(m)
    BY <1>0, <1>2, <2>3 DEF EnterListening, DestroyAllChannels, RemoveRemoteDevice,
                            CloseSoftBusSession, PeerOpens, managerVars
  <2> QED
    BY <1>0, <1>1, <1>5, <1>6, <1>7, <1>8, <1>9, <2>1, <2>2, <2>3 DEF ChannelsNext

-----------------------------------------------------------------------------
(* What is not made stays untouched                                          *)

UntouchedAt(d) ==
  work'[d] = work[d] /\ cut'[d] = cut[d] /\ reader'[d] = reader[d] /\ tcp'[d] = tcp[d]

\* No step touches a connection that is not made, but for the one it makes.
LEMMA Untouched ==
  ASSUME TypeInv, UnmadeInv, (Tcp => TcpInv) /\ (SoftBus => BusInv), ChannelsNext,
         NEW d \in Conns \ Made, d # made'
  PROVE  UntouchedAt(d)
<1>0. SocketTypes /\ Made \subseteq Conns
  BY Numbers DEF TypeInv
<1>1. ASSUME NEW m \in Modules, StartListenTcp(m) \/ StartConnection(m) \/ StartListen(m)
      PROVE  UntouchedAt(d)
  BY <1>0, <1>1 DEF StartListenTcp, StartConnection, StartListen, NewChannel, socketVars,
                    UntouchedAt, SocketTypes
<1>2. CASE EnterListening \/ DestroyAllChannels \/ RemoveRemoteDevice \/ CloseSoftBusSession
           \/ \E m \in Modules : PeerOpens(m)
  BY <1>2 DEF EnterListening, DestroyAllChannels, RemoveRemoteDevice, CloseSoftBusSession,
              EndSession, PeerOpens, socketVars, UntouchedAt
<1>3. CASE DestroyTcp \/ CloseConnection
  <2>1. First \in Made
    BY <1>0, <1>3, FirstIsManaged DEF DestroyTcp, CloseConnection, TypeInv, ManagerTypes
  <2> QED
    BY <1>0, <1>3, <2>1 DEF DestroyTcp, CloseTcp, CloseConnection, Cut, socketVars, UntouchedAt,
                            SocketTypes
<1>4. ASSUME NEW c \in Conns, Reading(c)
      PROVE  UntouchedAt(d)
  <2>1. c # d
    BY <1>4 DEF Reading, ReadLooper, Recv, RecvPacket, RecvEnds, RecvFails, HandleReceivedData,
                Read, UnmadeInv
  <2> QED
    BY <1>0, <1>4, <2>1 DEF Reading, ReadLooper, Recv, RecvPacket, RecvEnds, RecvFails,
       HandleReceivedData, Read, UntouchedAt, SocketTypes
<1>5. ASSUME NEW c \in Conns, Accepting(c)
      PROVE  UntouchedAt(d)
  <2>1. c # d
    BY <1>5 DEF Accepting, Accept, PeerConnects, PeerPortFails, SetRemoteSocket, OpenTcp, UnmadeInv
  <2> QED
    BY <1>0, <1>5, <2>1 DEF Accepting, Accept, PeerConnects, PeerPortFails, SetRemoteSocket,
       OpenTcp, Goto, socketVars, UntouchedAt, SocketTypes
<1>6. ASSUME NEW c \in Conns, SetupSession(c)
      PROVE  UntouchedAt(d)
  <2>1. c # d
    BY <1>6 DEF SetupSession, StartSoftBusService, OpenSoftBusSession, SetSessionId, EnterSession,
                UnmadeInv
  <2> QED
    BY <1>0, <1>6, <2>1 DEF SetupSession, StartSoftBusService, OpenSoftBusSession, SetSessionId,
       EnterSession, Goto, socketVars, UntouchedAt, SocketTypes
<1>7. ASSUME NEW s \in Sessions, PeerAnswers(s) \/ PeerCloses(s) \/ Callback(s)
      PROVE  UntouchedAt(d)
  <2>1. CASE EraseEntry(s)
    <3>1. sess[s].conn \in Made
      BY <2>1, SessionConn DEF EraseEntry
    <3> QED
      BY <1>0, <2>1, <3>1 DEF EraseEntry, Cut, socketVars, UntouchedAt, SocketTypes
  <2>2. CASE ~EraseEntry(s)
    BY <1>7, <2>2 DEF PeerAnswers, PeerCloses, Callback, OnConnectionSessionOpened,
       OnConnectionSessionClosed, ReportOpened, ReportClosed, StopService, EndSession, socketVars,
       UntouchedAt
  <2> QED
    BY <2>1, <2>2
<1>8. ASSUME NEW e \in dying, Destroy(e[1], e[2])
      PROVE  UntouchedAt(d)
  BY <1>8 DEF Destroy, EndSession, socketVars, UntouchedAt
<1> QED
  BY <1>1, <1>2, <1>3, <1>4, <1>5, <1>6, <1>7, <1>8 DEF ChannelsNext

\* So what is not made has no thread and no socket after any step.
LEMMA UnmadeKept ==
  ASSUME TypeInv, UnmadeInv, (Tcp => TcpInv) /\ (SoftBus => BusInv), ChannelsNext, TypeInv'
  PROVE  UnmadeInv'
<1>1. made \in Nat /\ made' \in Nat /\ made <= made'
  BY SocketTyped
<1>2. ASSUME NEW d \in Conns \ Made'
      PROVE  d \in Conns \ Made /\ d # made'
  BY <1>1 DEF Made, Conns
<1>3. \A d \in Conns \ Made' : UntouchedAt(d)
  BY <1>2, Untouched
<1> QED
  BY <1>2, <1>3 DEF UnmadeInv, UntouchedAt

-----------------------------------------------------------------------------
(* A step over TCP is none of SoftBus's, and the other way round.            *)

\* Every step over TCP keeps what is said of TCP.
LEMMA StepTcp ==
  ASSUME TypeInv, UnmadeInv, TcpInv, Tcp, ChannelsNext
  PROVE  TcpInv'
<1>1. ASSUME NEW c \in Conns, Accepting(c) \/ Reading(c)
      PROVE  TcpInv'
  BY <1>1, AcceptingTcp, PeerConnectsTcp, ReadingTcp DEF Accepting
<1>2. ASSUME NEW m \in Modules, StartListenTcp(m) \/ StartConnection(m)
      PROVE  TcpInv'
  BY <1>2, MakingTcp
<1>3. CASE DestroyTcp
  BY <1>3, DestroyTcpTcp
<1>4. CASE DestroyAllChannels \/ RemoveRemoteDevice
  BY <1>4, LooperTcp
<1>5. \A m \in Modules : ~StartListen(m) /\ ~PeerOpens(m)
  BY DEF StartListen, SoftBus, PeerOpens, TcpInv
<1>6. ~EnterListening /\ ~CloseConnection /\ ~CloseSoftBusSession
  BY DEF EnterListening, CloseConnection, CloseSoftBusSession, SoftBus, TcpInv
<1>7. \A c \in Conns : ~SetupSession(c)
  BY DEF SetupSession, StartSoftBusService, OpenSoftBusSession, SetSessionId, EnterSession, TcpInv,
         TcpPlaces
<1>8. \A s \in Sessions : ~PeerAnswers(s) /\ ~PeerCloses(s) /\ ~Callback(s)
  BY DEF PeerAnswers, PeerCloses, Callback, OnConnectionSessionOpened, ReportOpened,
         OnConnectionSessionClosed, EraseEntry, StopService, ReportClosed, TcpInv, Free
<1>9. dying = {}
  BY DEF TcpInv
<1> QED
  BY <1>1, <1>2, <1>3, <1>4, <1>5, <1>6, <1>7, <1>8, <1>9 DEF ChannelsNext

\* Every step over SoftBus keeps what is said of SoftBus.
LEMMA StepBus ==
  ASSUME TypeInv, UnmadeInv, BusInv, SoftBus, ChannelsNext
  PROVE  BusInv'
<1>1. ASSUME NEW c \in Conns, SetupSession(c)
      PROVE  BusInv'
  BY <1>1, SetupBus
<1>2. ASSUME NEW m \in Modules, StartConnection(m) \/ StartListen(m) \/ PeerOpens(m)
      PROVE  BusInv'
  BY <1>2, MakingBus, QuietActions
<1>3. CASE EnterListening \/ DestroyAllChannels \/ CloseConnection \/ CloseSoftBusSession
           \/ RemoveRemoteDevice
  BY <1>3, EnterListeningBus, LooperBus, CloseConnectionBus, CloseSoftBusSessionBus
<1>4. ASSUME NEW s \in Sessions, PeerAnswers(s) \/ PeerCloses(s) \/ Callback(s)
      PROVE  BusInv'
  BY <1>4, QuietActions, EraseEntryBus DEF Callback
<1>5. ASSUME NEW d \in dying, Destroy(d[1], d[2])
      PROVE  BusInv'
  <2>1. d[1] \in Made
    BY DEF TypeInv, BusTypes
  <2> QED
    BY <1>5, <2>1, DestroyBus
<1>6. \A m \in Modules : ~StartListenTcp(m)
  BY DEF StartListenTcp, SoftBus
<1>7. ~DestroyTcp
  BY DEF DestroyTcp, CloseTcp, SoftBus
<1>8. \A c \in Conns : ~Reading(c) /\ ~Accepting(c)
  BY DEF Reading, ReadLooper, Recv, RecvPacket, RecvEnds, RecvFails, HandleReceivedData, Read,
         Accepting, Accept, PeerConnects, PeerPortFails, SetRemoteSocket, OpenTcp, BusInv, BusPlaces
<1> QED
  BY <1>1, <1>2, <1>3, <1>4, <1>5, <1>6, <1>7, <1>8 DEF ChannelsNext

-----------------------------------------------------------------------------
(* Types of SoftBus                                                          *)

\* A step that types the sessions it changes types them all.
LEMMA SessionsTyped ==
  ASSUME TypeInv, made \in Nat, made' \in Nat, made <= made',
         DOMAIN sess' = Sessions /\ sess' = [s \in Sessions |-> sess'[s]],
         \A s \in Sessions : sess'[s] = sess[s] \/ SessionOK(s)'
  PROVE  \A s \in Sessions : SessionOK(s)'
<1>1. ASSUME NEW s \in Sessions, sess'[s] = sess[s]
      PROVE  SessionOK(s)'
  <2>1. SessionOK(s) /\ 0..made \subseteq 0..made'
    BY DEF TypeInv, BusTypes
  <2>2. sess[s] \in SessionRecord'
    BY <2>1 DEF SessionOK, SessionRecord
  <2> QED
    BY <1>1, <2>1, <2>2 DEF SessionOK
<1> QED
  BY <1>1

SessionTypes == DOMAIN sess = Sessions /\ sess = [s \in Sessions |-> sess[s]]
                /\ \A s \in Sessions : SessionOK(s)

\* The session the driver gives out is free.
LEMMA LeastAvailable ==
  ASSUME Available # {}
  PROVE  Least(Available) \in Sessions /\ sess[Least(Available)].st = "free"
<1>1. Available \subseteq Nat
  BY DEF Available, Sessions
<1>2. Least(Available) \in Available
  BY <1>1, LeastIsOne
<1> QED
  BY <1>2 DEF Available

\* A session that is changed alone.
LEMMA OneSession ==
  ASSUME TypeInv, made \in Nat, made' = made, NEW s \in Sessions, NEW r,
         sess' = [sess EXCEPT ![s] = r], r \in SessionRecord,
         r.st = "free" => r = Free, r.st # "free" => r.name \in Modules,
         r.at = "idle" <=> r.conn = NoConn
  PROVE  SessionTypes'
<1>1. DOMAIN sess' = Sessions /\ sess' = [t \in Sessions |-> sess'[t]] /\ sess'[s] = r
      /\ \A t \in Sessions \ {s} : sess'[t] = sess[t]
  BY DEF TypeInv, BusTypes
<1>2. SessionOK(s)'
  BY <1>1 DEF SessionOK, SessionRecord
<1> QED
  BY <1>1, <1>2, SessionsTyped DEF SessionTypes

\* A session that is free is blank; one that is not has a name.
LEMMA SessionIs ==
  ASSUME TypeInv, NEW s \in Sessions
  PROVE  /\ sess[s] \in SessionRecord
         /\ sess[s].st = "free" => sess[s] = Free
         /\ sess[s].st # "free" => sess[s].name \in Modules
         /\ sess[s].at = "idle" <=> sess[s].conn = NoConn
  BY DEF TypeInv, BusTypes, SessionOK

\* The blank session is a session.
LEMMA FreeIs ==
  ASSUME TypeInv
  PROVE  Free \in SessionRecord /\ Free.conn = NoConn /\ Free.at = "idle" /\ Free.st = "free"
         /\ made \in Nat
  BY Numbers DEF Free, SessionRecord, NoConn

\* The sessions of a connection that ends are sessions still.
LEMMA EndedTyped ==
  ASSUME TypeInv, NEW c, made' = made, sess' = EndedWith(c)
  PROVE  SessionTypes'
<1>1. PICK S : sess' = Ended(S)
  BY DEF EndedWith
<1>2. DOMAIN sess' = Sessions /\ sess' = [s \in Sessions |-> sess'[s]]
  BY <1>1, EndedSessions
<1>3. ASSUME NEW s \in Sessions, sess'[s] # sess[s]
      PROVE  SessionOK(s)'
  <2>1. CASE sess'[s] = Free
    BY <2>1, FreeIs DEF SessionOK, SessionRecord, Free
  <2>2. CASE sess'[s] = [sess[s] EXCEPT !.st = "gone"]
    <3>1. sess[s].at # "idle" /\ sess[s].st # "free"
      BY <1>1, <1>3, <2>2, EndedSessions
    <3> QED
      BY <2>2, <3>1, SessionIs DEF SessionOK, SessionRecord
  <2> QED
    BY <1>1, <1>3, <2>1, <2>2, EndedSessions
<1> QED
  BY <1>2, <1>3, SessionsTyped, FreeIs DEF SessionTypes

\* A session whose callback has returned is a session still.
LEMMA ReturnedTyped ==
  ASSUME TypeInv, NEW s \in Sessions, made' = made, sess' = Returned(s)
  PROVE  SessionTypes'
<1>1. CASE sess[s].st = "opened"
  <2> DEFINE r == [st |-> "up", name |-> sess[s].name, at |-> "idle", conn |-> NoConn]
  <2>1. r \in SessionRecord /\ r.name \in Modules /\ r.st = "up"
    BY <1>1, SessionIs, FreeIs DEF SessionRecord, NoConn
  <2>2. sess' = [sess EXCEPT ![s] = r]
    BY <1>1 DEF Returned
  <2> QED
    BY <2>1, <2>2, OneSession, FreeIs
<1>2. CASE sess[s].st # "opened"
  BY <1>2, OneSession, FreeIs DEF Returned
<1> QED
  BY <1>1, <1>2

\* The session of a callback that goes on.
LEMMA MovedTyped ==
  ASSUME TypeInv, NEW s \in Sessions, NEW place \in {"report", "erase", "stop", "remove"},
         made' = made, NEW c \in 1..made, sess[s].st # "free",
         sess' = [sess EXCEPT ![s] = [@ EXCEPT !.at = place, !.conn = c]]
  PROVE  SessionTypes'
<1> DEFINE r == [sess[s] EXCEPT !.at = place, !.conn = c]
<1>1. r \in SessionRecord /\ r.name \in Modules /\ r.st # "free" /\ r.at # "idle" /\ r.conn # NoConn
  <2>1. sess[s] \in SessionRecord /\ sess[s].name \in Modules
    BY SessionIs
  <2>2. c \in 0..made /\ c # NoConn
    BY FreeIs DEF NoConn
  <2> QED
    BY <2>1, <2>2 DEF SessionRecord
<1>2. sess' = [sess EXCEPT ![s] = r]
  BY DEF TypeInv, BusTypes
<1> HIDE DEF r
<1> QED
  BY <1>1, <1>2, OneSession, FreeIs

\* What a callback finds in the map is an entry of the map.
LEMMA FoundIs ==
  ASSUME TypeInv, NEW s \in Sessions, sess[s].st # "free"
  PROVE  FoundBy(s) \in 0..made /\ \E m \in Modules : FoundBy(s) = entry[m]
<1>1. sess[s].name \in Modules /\ idName[s] \in Modules \cup {NoName}
  BY SessionIs DEF TypeInv, BusTypes
<1> QED
  BY <1>1 DEF FoundBy, TypeInv, ManagerTypes

\* A callback that begins keeps hold of what it found.
LEMMA BeginTyped ==
  ASSUME TypeInv, NEW s \in Sessions, NEW place \in {"report", "erase"}, made' = made,
         sess[s].st # "free", Begin(s, place)
  PROVE  SessionTypes'
<1>1. CASE FoundBy(s) = NoConn
  BY <1>1, ReturnedTyped DEF Begin
<1>2. CASE FoundBy(s) # NoConn
  <2>1. FoundBy(s) \in 1..made
    BY <1>2, FoundIs, FreeIs DEF NoConn
  <2>2. sess' = [sess EXCEPT ![s] = [@ EXCEPT !.at = place, !.conn = FoundBy(s)]]
    BY <1>2 DEF Begin, TypeInv, BusTypes
  <2> QED
    BY <2>1, <2>2, MovedTyped
<1> QED
  BY <1>1, <1>2

\* The callbacks of a session.
LEMMA CallbackTyped ==
  ASSUME TypeInv, NEW s \in Sessions, PeerAnswers(s) \/ PeerCloses(s) \/ Callback(s)
  PROVE  SessionTypes'
<1>0. made' = made /\ made \in Nat
  BY FreeIs DEF PeerAnswers, PeerCloses, Callback, OnConnectionSessionOpened, ReportOpened,
     OnConnectionSessionClosed, EraseEntry, StopService, ReportClosed, managerVars
<1>1. CASE PeerAnswers(s)
  <2>1. PICK result \in {"opened", "refused"} : sess' = [sess EXCEPT ![s].st = result]
    BY <1>1 DEF PeerAnswers
  <2> DEFINE r == [sess[s] EXCEPT !.st = result]
  <2>2. sess[s] \in SessionRecord /\ sess[s].name \in Modules /\ (sess[s].at = "idle" <=> sess[s].conn = NoConn)
    BY <1>1, SessionIs DEF PeerAnswers
  <2>3. r \in SessionRecord /\ r.name \in Modules /\ r.st # "free" /\ (r.at = "idle" <=> r.conn = NoConn)
    BY <2>1, <2>2 DEF SessionRecord
  <2>4. sess' = [sess EXCEPT ![s] = r]
    BY <2>1 DEF TypeInv, BusTypes
  <2> HIDE DEF r
  <2> QED
    BY <1>0, <2>3, <2>4, OneSession
<1>2. CASE PeerCloses(s)
  <2> DEFINE r == [sess[s] EXCEPT !.st = "down"]
  <2>2. sess[s] \in SessionRecord /\ sess[s].name \in Modules /\ (sess[s].at = "idle" <=> sess[s].conn = NoConn)
    BY <1>2, SessionIs DEF PeerCloses
  <2>3. r \in SessionRecord /\ r.name \in Modules /\ r.st # "free" /\ (r.at = "idle" <=> r.conn = NoConn)
    BY <2>2 DEF SessionRecord
  <2>4. sess' = [sess EXCEPT ![s] = r]
    BY <1>2 DEF PeerCloses, TypeInv, BusTypes
  <2> HIDE DEF r
  <2> QED
    BY <1>0, <2>3, <2>4, OneSession
<1>3. CASE OnConnectionSessionOpened(s)
  BY <1>0, <1>3, BeginTyped DEF OnConnectionSessionOpened
<1>4. CASE OnConnectionSessionClosed(s)
  BY <1>0, <1>4, BeginTyped DEF OnConnectionSessionClosed
<1>5. CASE ReportOpened(s) \/ ReportClosed(s)
  BY <1>0, <1>5, ReturnedTyped DEF ReportOpened, ReportClosed
<1>6. CASE EraseEntry(s)
  <2>1. sess[s].conn \in 1..made /\ sess[s].st # "free"
    BY <1>6, SessionConn, SessionIs DEF EraseEntry, Made, Free
  <2>2. sess' = [sess EXCEPT ![s] = [@ EXCEPT !.at = "stop", !.conn = sess[s].conn]]
    BY <1>6, SessionIs DEF EraseEntry, TypeInv, BusTypes, SessionRecord
  <2> QED
    BY <1>0, <2>1, <2>2, MovedTyped
<1>7. CASE StopService(s)
  <2> DEFINE e == EndedWith(sess[s].conn)
  <2>1. sess' = [e EXCEPT ![s].at = "remove"]
    BY <1>7 DEF StopService
  <2>2. PICK S : e = Ended(S)
    BY DEF EndedWith
  <2> HIDE DEF e
  <2>3. /\ DOMAIN e = Sessions /\ e = [t \in Sessions |-> e[t]]
        /\ \A t \in Sessions : e[t] \in {sess[t], Free, [sess[t] EXCEPT !.st = "gone"]}
        /\ e[s].at = sess[s].at /\ e[s].conn = sess[s].conn
        /\ \A t \in Sessions : e[t] = [sess[t] EXCEPT !.st = "gone"] /\ e[t] # sess[t]
             => sess[t].at # "idle" /\ sess[t].st # "free"
    <3>1. DOMAIN Ended(S) = Sessions /\ Ended(S) = [t \in Sessions |-> Ended(S)[t]]
      BY EndedSessions
    <3>2. ASSUME NEW t \in Sessions
          PROVE  /\ Ended(S)[t] \in {sess[t], Free, [sess[t] EXCEPT !.st = "gone"]}
                 /\ Ended(S)[t].conn = sess[t].conn /\ Ended(S)[t].at = sess[t].at
                 /\ Ended(S)[t] = [sess[t] EXCEPT !.st = "gone"] /\ Ended(S)[t] # sess[t]
                      => sess[t].at # "idle" /\ sess[t].st # "free"
      BY EndedSessions
    <3> QED
      BY <2>2, <3>1, <3>2
  <2>4. sess[s].at = "stop" /\ sess[s].st # "free" /\ sess[s].conn # NoConn
    BY <1>7, SessionIs DEF StopService, Free
  <2>5. DOMAIN sess' = Sessions /\ sess' = [t \in Sessions |-> sess'[t]]
        /\ sess'[s] = [e[s] EXCEPT !.at = "remove"] /\ \A t \in Sessions \ {s} : sess'[t] = e[t]
    BY <2>1, <2>3
  <2>6. SessionOK(s)'
    <3>1. e[s] \in {sess[s], [sess[s] EXCEPT !.st = "gone"]}
      BY <2>3, <2>4 DEF Free
    <3>2. sess[s] \in SessionRecord /\ sess[s].name \in Modules
      BY <2>4, SessionIs
    <3>3. e[s] \in SessionRecord /\ e[s].name \in Modules /\ e[s].st # "free" /\ e[s].conn # NoConn
      BY <2>4, <3>1, <3>2 DEF SessionRecord
    <3> QED
      BY <1>0, <2>5, <3>3 DEF SessionOK, SessionRecord
  <2>7. ASSUME NEW t \in Sessions \ {s}, sess'[t] # sess[t]
        PROVE  SessionOK(t)'
    <3>1. CASE sess'[t] = Free
      BY <1>0, <3>1, FreeIs DEF SessionOK, SessionRecord, Free
    <3>2. CASE sess'[t] = [sess[t] EXCEPT !.st = "gone"]
      <4>1. sess[t].at # "idle" /\ sess[t].st # "free"
        BY <2>3, <2>5, <2>7, <3>2
      <4> QED
        BY <1>0, <3>2, <4>1, SessionIs DEF SessionOK, SessionRecord
    <3> QED
      BY <2>3, <2>5, <2>7, <3>1, <3>2
  <2> QED
    BY <1>0, <2>5, <2>6, <2>7, SessionsTyped DEF SessionTypes
<1> QED
  BY <1>1, <1>2, <1>3, <1>4, <1>5, <1>6, <1>7 DEF Callback

\* Every step leaves the sessions typed.
LEMMA SessTyped ==
  ASSUME TypeInv, ChannelsNext
  PROVE  SessionTypes'
<1>0. made \in Nat
  BY FreeIs
<1>1. ASSUME sess' = sess, made' \in Nat, made <= made'
      PROVE  SessionTypes'
  <2>1. DOMAIN sess = Sessions /\ sess = [s \in Sessions |-> sess[s]]
    BY DEF TypeInv, BusTypes
  <2>2. DOMAIN sess' = Sessions /\ sess' = [s \in Sessions |-> sess'[s]]
    BY <1>1, <2>1
  <2> QED
    BY <1>0, <1>1, <2>2, SessionsTyped DEF SessionTypes
<1>2. ASSUME NEW m \in Modules, StartListenTcp(m) \/ StartConnection(m) \/ StartListen(m)
      PROVE  SessionTypes'
  BY <1>0, <1>1, <1>2 DEF StartListenTcp, StartConnection, StartListen, NewChannel, busVars
<1>3. ASSUME NEW m \in Modules, PeerOpens(m)
      PROVE  SessionTypes'
  <2> DEFINE r == [st |-> "opened", name |-> m, at |-> "idle", conn |-> NoConn]
  <2>1. sess' = [sess EXCEPT ![Least(Available)] = r] /\ Available # {} /\ made' = made
    BY <1>3 DEF PeerOpens, managerVars
  <2>2. r \in SessionRecord /\ r.st = "opened" /\ r.name \in Modules
    BY <1>0 DEF SessionRecord, NoConn
  <2>3. r.at = "idle" /\ r.conn = NoConn
    OBVIOUS
  <2> HIDE DEF r
  <2> QED
    BY <1>0, <2>1, <2>2, <2>3, LeastAvailable, OneSession
<1>4. CASE EnterListening \/ DestroyAllChannels \/ DestroyTcp \/ CloseConnection
           \/ RemoveRemoteDevice
  BY <1>0, <1>1, <1>4 DEF EnterListening, DestroyAllChannels, DestroyTcp, CloseTcp, CloseConnection,
                    RemoveRemoteDevice, managerVars, busVars
<1>5. CASE CloseSoftBusSession
  BY <1>5, EndedTyped DEF CloseSoftBusSession
<1>6. ASSUME NEW c \in Conns, Reading(c) \/ Accepting(c)
      PROVE  SessionTypes'
  <2>1. sess' = sess /\ made' = made
    BY <1>6 DEF Reading, ReadLooper, Recv, RecvPacket, RecvEnds, RecvFails, HandleReceivedData,
       Accepting, Accept, PeerConnects, PeerPortFails, SetRemoteSocket, OpenTcp, managerVars, busVars
  <2> QED
    BY <1>0, <1>1, <2>1
<1>7. ASSUME NEW c \in Conns, SetupSession(c)
      PROVE  SessionTypes'
  <2>1. made' = made
    BY <1>7 DEF SetupSession, StartSoftBusService, OpenSoftBusSession, SetSessionId, EnterSession,
                managerVars
  <2>2. CASE sess' = sess
    BY <1>0, <1>1, <2>1, <2>2
  <2>3. CASE sess' # sess
    <3> DEFINE r == [st |-> "opening", name |-> module[c], at |-> "idle", conn |-> NoConn]
    <3>1. sess' = [sess EXCEPT ![Least(Available)] = r] /\ Available # {} /\ module[c] \in servers
      BY <1>7, <2>3 DEF SetupSession, StartSoftBusService, OpenSoftBusSession, SetSessionId,
                        EnterSession
    <3>2. r \in SessionRecord /\ r.st = "opening" /\ r.name \in Modules /\ r.at = "idle"
          /\ r.conn = NoConn
      BY <1>0, <3>1 DEF SessionRecord, NoConn, TypeInv, BusTypes
    <3> HIDE DEF r
    <3> QED
      BY <1>0, <2>1, <3>1, <3>2, LeastAvailable, OneSession
  <2> QED
    BY <2>2, <2>3
<1>8. ASSUME NEW s \in Sessions, PeerAnswers(s) \/ PeerCloses(s) \/ Callback(s)
      PROVE  SessionTypes'
  BY <1>8, CallbackTyped
<1>9. ASSUME NEW d \in dying, Destroy(d[1], d[2])
      PROVE  SessionTypes'
  BY <1>9, EndedTyped DEF Destroy, managerVars
<1> QED
  BY <1>2, <1>3, <1>4, <1>5, <1>6, <1>7, <1>8, <1>9 DEF ChannelsNext

\* Every step leaves names, identities and servers typed.
LEMMA NamesTyped ==
  ASSUME TypeInv, UnmadeInv, (Tcp => TcpInv) /\ (SoftBus => BusInv), ChannelsNext
  PROVE  /\ passive' \in [Conns -> BOOLEAN] /\ id' \in [Conns -> {0} \cup Sessions]
         /\ idName' \in [Sessions -> Modules \cup {NoName}] /\ servers' \subseteq Modules
         /\ jam' \in BOOLEAN
         /\ \A c \in Conns : work'[c] = "name" => hand'[c] \in Sessions
<1>0. /\ passive \in [Conns -> BOOLEAN] /\ id \in [Conns -> {0} \cup Sessions]
      /\ idName \in [Sessions -> Modules \cup {NoName}] /\ servers \subseteq Modules
      /\ jam \in BOOLEAN
      /\ \A c \in Conns : work[c] = "name" => hand[c] \in Sessions
      /\ work \in [Conns -> TcpPlaces \cup BusPlaces] /\ hand \in [Conns -> Nat]
  BY DEF TypeInv, BusTypes, SocketTypes
<1> DEFINE Names == /\ passive' \in [Conns -> BOOLEAN] /\ id' \in [Conns -> {0} \cup Sessions]
                    /\ idName' \in [Sessions -> Modules \cup {NoName}] /\ servers' \subseteq Modules
           Hands == \A c \in Conns : work'[c] = "name" => hand'[c] \in Sessions
<1>1. ASSUME NEW m \in Modules, StartListenTcp(m) \/ StartConnection(m) \/ StartListen(m)
      PROVE  Names /\ Hands /\ jam' \in BOOLEAN
  BY <1>0, <1>1 DEF StartListenTcp, StartConnection, StartListen, socketVars, busVars, nameVars
<1>2. ASSUME NEW m \in Modules, PeerOpens(m)
      PROVE  Names /\ Hands /\ jam' \in BOOLEAN
  BY <1>0, <1>2 DEF PeerOpens, nameVars, socketVars
<1>3. CASE EnterListening \/ DestroyAllChannels \/ RemoveRemoteDevice \/ CloseConnection
  BY <1>0, <1>3 DEF EnterListening, DestroyAllChannels, RemoveRemoteDevice, CloseConnection,
     socketVars, busVars, nameVars, DropsUnderLock
<1>4. CASE DestroyTcp
  BY <1>0, <1>4 DEF DestroyTcp, CloseTcp, busVars, nameVars
<1>5. CASE CloseSoftBusSession
  BY <1>0, <1>5 DEF CloseSoftBusSession, EndSession, Unserved, DropsAs, socketVars
<1>6. ASSUME NEW c \in Conns, Reading(c)
      PROVE  Names /\ Hands /\ jam' \in BOOLEAN
  BY <1>0, <1>6 DEF Reading, ReadLooper, Recv, RecvPacket, RecvEnds, RecvFails,
                    HandleReceivedData, busVars, nameVars
<1>7. ASSUME NEW c \in Conns, Accepting(c)
      PROVE  Names /\ Hands /\ jam' \in BOOLEAN
  BY <1>0, <1>7 DEF Accepting, Accept, PeerConnects, PeerPortFails, SetRemoteSocket, OpenTcp, Goto,
                    socketVars, busVars, nameVars
<1>8. ASSUME NEW c \in Conns, SetupSession(c)
      PROVE  Names /\ Hands /\ jam' \in BOOLEAN
  <2>1. module[c] \in Modules
    BY <1>8 DEF SetupSession, StartSoftBusService, OpenSoftBusSession, SetSessionId, EnterSession,
       UnmadeInv, TypeInv, ManagerTypes
  <2>2. CASE StartSoftBusService(c)
    BY <1>0, <2>1, <2>2 DEF StartSoftBusService, Goto, DropsAs, socketVars
  <2>3. CASE OpenSoftBusSession(c)
    <3>1. Names /\ jam' \in BOOLEAN
      BY <1>0, <2>3 DEF OpenSoftBusSession, nameVars, DropsAs
    <3>2. ASSUME NEW d \in Conns, work'[d] = "name"
          PROVE  hand'[d] \in Sessions
      <4>1. CASE d = c
        BY <1>0, <2>3, <3>2, <4>1, LeastAvailable DEF OpenSoftBusSession, Goto
      <4>2. CASE d # c
        BY <1>0, <2>3, <3>2, <4>2 DEF OpenSoftBusSession, Goto
      <4> QED
        BY <4>1, <4>2
    <3> QED
      BY <3>1, <3>2
  <2>4. CASE SetSessionId(c)
    <3>1. hand[c] \in Sessions
      BY <1>0, <2>4 DEF SetSessionId
    <3> QED
      BY <1>0, <2>1, <2>4, <3>1 DEF SetSessionId, Goto, Named, socketVars
  <2>5. CASE EnterSession(c)
    BY <1>0, <2>5 DEF EnterSession, Goto, DropsUnderLock, socketVars
  <2> QED
    BY <1>8, <2>2, <2>3, <2>4, <2>5 DEF SetupSession
<1>9. ASSUME NEW s \in Sessions, PeerAnswers(s) \/ PeerCloses(s) \/ Callback(s)
      PROVE  Names /\ Hands /\ jam' \in BOOLEAN
  <2>1. UNCHANGED <<work, hand>>
    BY <1>9 DEF PeerAnswers, PeerCloses, Callback, OnConnectionSessionOpened, ReportOpened,
      OnConnectionSessionClosed, EraseEntry, StopService, ReportClosed, EndSession, socketVars
  <2>2. jam' \in BOOLEAN
    BY <1>0, <1>9 DEF PeerAnswers, PeerCloses, Callback, OnConnectionSessionOpened, ReportOpened,
      OnConnectionSessionClosed, EraseEntry, StopService, ReportClosed, DropsAs, DropsUnderLock
  <2>3. CASE ReportOpened(s)
    <3>1. module[sess[s].conn] \in Modules
      BY <2>3, SessionConn DEF ReportOpened
    <3> QED
      BY <1>0, <2>1, <2>2, <2>3, <3>1 DEF ReportOpened, Named
  <2>4. CASE StopService(s)
    BY <1>0, <2>1, <2>2, <2>4 DEF StopService, EndSession, Unserved
  <2>5. CASE OnConnectionSessionClosed(s)
    BY <1>0, <2>1, <2>2, <2>5 DEF OnConnectionSessionClosed
  <2>6. CASE PeerAnswers(s) \/ PeerCloses(s) \/ OnConnectionSessionOpened(s) \/ EraseEntry(s)
             \/ ReportClosed(s)
    BY <1>0, <2>1, <2>2, <2>6 DEF PeerAnswers, PeerCloses, OnConnectionSessionOpened, EraseEntry,
                                  ReportClosed, nameVars
  <2> QED
    BY <1>9, <2>3, <2>4, <2>5, <2>6 DEF Callback
<1>10. ASSUME NEW d \in dying, Destroy(d[1], d[2])
       PROVE  Names /\ Hands /\ jam' \in BOOLEAN
  BY <1>0, <1>10 DEF Destroy, EndSession, Unserved, socketVars
<1> QED
  BY <1>1, <1>2, <1>3, <1>4, <1>5, <1>6, <1>7, <1>8, <1>9, <1>10 DEF ChannelsNext

\* A reference is got only from another one.
GotFrom(d) ==
  /\ d \in managed' => Held(d)
  /\ looper'.conn = d => Held(d)
  /\ \A m \in Modules : (user'[m] = d => Held(d)) /\ (entry'[m] = d => Held(d))
  /\ work'[d] # "end" => Held(d)
  /\ \A s \in Sessions : sess'[s].conn = d => Held(d)

\* Ending a connection's sessions lets go of no reference of a callback.
LEMMA EndedConn ==
  ASSUME TypeInv, NEW c
  PROVE  \A s \in Sessions : EndedWith(c)[s].conn = sess[s].conn
  BY EndedSessions DEF EndedWith

\* A callback that returns lets its own reference go.
LEMMA ReturnedConn ==
  ASSUME TypeInv, NEW s \in Sessions
  PROVE  \A t \in Sessions : Returned(s)[t].conn \in {sess[t].conn, NoConn}
  BY DEF Returned, Free, TypeInv, BusTypes

\* A callback that begins takes its reference from the map.
LEMMA BeginConn ==
  ASSUME TypeInv, NEW s \in Sessions, NEW place, sess[s].st # "free", Begin(s, place)
  PROVE  \A t \in Sessions : \/ sess'[t].conn \in {sess[t].conn, NoConn}
                             \/ \E m \in Modules : sess'[t].conn = entry[m]
<1>1. CASE FoundBy(s) = NoConn
  BY <1>1, ReturnedConn DEF Begin
<1>2. CASE FoundBy(s) # NoConn
  <2>1. sess' = [sess EXCEPT ![s].at = place, ![s].conn = FoundBy(s)]
    BY <1>2 DEF Begin
  <2>2. \A t \in Sessions : sess[t] \in SessionRecord
    BY SessionIs
  <2>3. \A t \in Sessions : sess'[t].conn \in {sess[t].conn, FoundBy(s)}
    BY <2>1, <2>2 DEF TypeInv, BusTypes, SessionRecord
  <2> QED
    BY <2>3, FoundIs
<1> QED
  BY <1>1, <1>2

\* No reference is got but from another that is there.
LEMMA Reviving ==
  ASSUME TypeInv, \A d \in Made : GotFrom(d)
  PROVE  NoneRevived
  BY Numbers DEF NoneRevived, GotFrom, Held

DroppedBy(t) == dying' \subseteq dying \cup (Dropped \X {t})

\* Whose references a connection's thread takes and drops.
LEMMA SetupReferences ==
  ASSUME TypeInv, BusInv, SoftBus, NEW c \in Conns, SetupSession(c)
  PROVE  NoneRevived /\ \E t : DroppedBy(t)
<1>1. /\ UNCHANGED <<managed, looper, user>> /\ work[c] # "end"
      /\ \A d \in Conns \ {c} : work'[d] = work[d]
      /\ entry' \in {entry, [entry EXCEPT ![module[c]] = c]}
  BY DEF SetupSession, StartSoftBusService, OpenSoftBusSession, SetSessionId, EnterSession, Goto,
         managerVars, nameVars, TypeInv, SocketTypes
<1>2. Held(c)
  BY <1>1 DEF Held
<1>3. \A s \in Sessions : sess'[s].conn \in {sess[s].conn, NoConn}
  <2>1. CASE UNCHANGED sess
    BY <2>1
  <2>2. CASE OpenSoftBusSession(c)
    BY <2>2 DEF OpenSoftBusSession, TypeInv, BusTypes
  <2> QED
    BY <2>1, <2>2 DEF SetupSession, StartSoftBusService, SetSessionId, EnterSession
<1>4. ASSUME NEW d \in Made
      PROVE  GotFrom(d)
  <2>1. d \in Conns /\ d # NoConn
    BY Numbers
  <2>2. \A m \in Modules : entry'[m] \in {entry[m], c}
    BY <1>1 DEF TypeInv, ManagerTypes
  <2> QED
    BY <1>1, <1>2, <1>3, <2>1, <2>2 DEF GotFrom, Held
<1>5. DroppedBy(<<"work", c>>) \/ dying' = dying
  BY DEF SetupSession, StartSoftBusService, OpenSoftBusSession, SetSessionId, EnterSession,
         DropsAs, DropsUnderLock, SoftBus, DroppedBy
<1> QED
  BY <1>4, <1>5, Reviving DEF DroppedBy

\* Whose references a callback of SoftBus takes and drops.
LEMMA CallbackReferences ==
  ASSUME TypeInv, BusInv, SoftBus, NEW s \in Sessions,
         PeerAnswers(s) \/ PeerCloses(s) \/ Callback(s)
  PROVE  NoneRevived /\ \E t : DroppedBy(t)
<1>1. UNCHANGED <<managed, looper, work>>
  BY DEF PeerAnswers, PeerCloses, Callback, OnConnectionSessionOpened, ReportOpened, managerVars,
         OnConnectionSessionClosed, EraseEntry, StopService, ReportClosed
<1>2. \A m \in Modules : user'[m] \in {user[m], NoConn, sess[s].conn}
                         /\ entry'[m] \in {entry[m], NoConn}
  <2>1. \A m \in Modules : user'[m] \in {user[m], NoConn, sess[s].conn}
    BY DEF PeerAnswers, PeerCloses, Callback, OnConnectionSessionOpened, ReportOpened,
         OnConnectionSessionClosed, EraseEntry, StopService, ReportClosed, OnChannelCreated,
         OnChannelRemoved, TypeInv, ManagerTypes
  <2>2. entry' \in {entry, Erased(sess[s].conn)}
    BY DEF PeerAnswers, PeerCloses, Callback, OnConnectionSessionOpened, ReportOpened,
         OnConnectionSessionClosed, EraseEntry, StopService, ReportClosed, nameVars
  <2> QED
    BY <2>1, <2>2 DEF Erased, TypeInv, ManagerTypes
<1>3. \A t \in Sessions : \/ sess'[t].conn \in {sess[t].conn, NoConn}
                          \/ \E m \in Modules : sess'[t].conn = entry[m]
  <2>0. \A t \in Sessions : sess[t] \in SessionRecord
    BY SessionIs
  <2>1. CASE PeerAnswers(s) \/ PeerCloses(s) \/ EraseEntry(s)
    BY <2>0, <2>1 DEF PeerAnswers, PeerCloses, EraseEntry, TypeInv, BusTypes, SessionRecord
  <2>2. CASE ReportOpened(s) \/ ReportClosed(s)
    BY <2>2, ReturnedConn DEF ReportOpened, ReportClosed
  <2>3. CASE OnConnectionSessionOpened(s)
    BY <2>3, BeginConn DEF OnConnectionSessionOpened
  <2>4. CASE OnConnectionSessionClosed(s)
    BY <2>4, BeginConn DEF OnConnectionSessionClosed
  <2>5. CASE StopService(s)
    <3> DEFINE e == EndedWith(sess[s].conn)
    <3>1. sess' = [e EXCEPT ![s].at = "remove"]
      BY <2>5 DEF StopService
    <3>2. \A t \in Sessions : e[t].conn = sess[t].conn
      BY EndedConn
    <3>3. e = [t \in Sessions |-> e[t]] /\ e[s] \in {sess[s], Free, [sess[s] EXCEPT !.st = "gone"]}
      BY EndedSessions DEF EndedWith
    <3> HIDE DEF e
    <3>4. "conn" \in DOMAIN e[s]
      BY <2>0, <3>3 DEF SessionRecord, Free
    <3>5. sess'[s].conn = e[s].conn /\ \A t \in Sessions \ {s} : sess'[t] = e[t]
      BY <3>1, <3>3, <3>4
    <3> QED
      BY <3>2, <3>5
  <2> QED
    BY <2>1, <2>2, <2>3, <2>4, <2>5 DEF Callback
<1>4. ASSUME NEW d \in Made
      PROVE  GotFrom(d)
  <2>1. d \in Conns /\ d # NoConn
    BY Numbers
  <2> QED
    BY <1>1, <1>2, <1>3, <2>1 DEF GotFrom, Held
<1>5. DroppedBy(Event(s)) \/ dying' = dying
  BY DEF PeerAnswers, PeerCloses, Callback, OnConnectionSessionOpened, ReportOpened,
         OnConnectionSessionClosed, EraseEntry, StopService, ReportClosed, DropsAs, DropsUnderLock,
         SoftBus, DroppedBy
<1> QED
  BY <1>4, <1>5, Reviving DEF DroppedBy

\* Whose references the looper and a destructor take and drop.
LEMMA LooperReferences ==
  ASSUME TypeInv, BusInv, SoftBus,
         \/ EnterListening \/ DestroyAllChannels \/ CloseConnection \/ CloseSoftBusSession
         \/ RemoveRemoteDevice \/ \E m \in Modules : PeerOpens(m)
         \/ \E d \in dying : Destroy(d[1], d[2])
  PROVE  NoneRevived /\ \E t : DroppedBy(t)
<1>1. UNCHANGED <<user, work>>
  BY DEF EnterListening, DestroyAllChannels, CloseConnection, CloseSoftBusSession,
         RemoveRemoteDevice, PeerOpens, Destroy
<1>2. managed' \subseteq managed \cup {looper.conn}
  BY DEF EnterListening, DestroyAllChannels, CloseConnection, CloseSoftBusSession,
         RemoveRemoteDevice, PeerOpens, Destroy, managerVars
<1>3. looper'.conn \in managed \cup {looper.conn, NoConn}
  <2>1. CASE CloseConnection
    BY <2>1, FirstIsManaged DEF CloseConnection
  <2>2. CASE ~CloseConnection
    <3>1. looper' \in {looper, Idle, [at |-> "destroy", conn |-> NoConn]}
      BY <2>2 DEF EnterListening, DestroyAllChannels, CloseSoftBusSession, RemoveRemoteDevice,
                  PeerOpens, Destroy
    <3> QED
      BY <3>1 DEF Idle
  <2> QED
    BY <2>1, <2>2
<1>4. \A m \in Modules : entry'[m] \in {entry[m], NoConn, looper.conn}
  BY DEF EnterListening, DestroyAllChannels, CloseConnection, CloseSoftBusSession,
         RemoveRemoteDevice, PeerOpens, Destroy, Erased, busVars, nameVars, TypeInv, ManagerTypes
<1>5. \A s \in Sessions : sess'[s].conn \in {sess[s].conn, NoConn}
  <2>1. CASE \E m \in Modules : PeerOpens(m)
    BY <2>1 DEF PeerOpens, TypeInv, BusTypes
  <2>2. CASE CloseSoftBusSession \/ \E d \in dying : Destroy(d[1], d[2])
    BY <2>2, EndedConn DEF CloseSoftBusSession, Destroy
  <2>3. CASE EnterListening \/ DestroyAllChannels \/ CloseConnection \/ RemoveRemoteDevice
    BY <2>3 DEF EnterListening, DestroyAllChannels, CloseConnection, RemoveRemoteDevice, busVars
  <2> QED
    BY <2>1, <2>2, <2>3
<1>6. ASSUME NEW d \in Made
      PROVE  GotFrom(d)
  <2>1. d \in Conns /\ d # NoConn
    BY Numbers
  <2> QED
    BY <1>1, <1>2, <1>3, <1>4, <1>5, <2>1 DEF GotFrom, Held
<1>7. DroppedBy(Looper) \/ dying' \subseteq dying
  BY DEF EnterListening, DestroyAllChannels, CloseConnection, CloseSoftBusSession,
         RemoveRemoteDevice, PeerOpens, Destroy, DropsAs, DropsUnderLock, SoftBus, DroppedBy, busVars
<1> QED
  BY <1>6, <1>7, Reviving DEF DroppedBy

\* Making a connection takes no reference to one that has none.
LEMMA MakingReferences ==
  ASSUME TypeInv, NEW m \in Modules, StartListen(m) \/ StartConnection(m)
  PROVE  NoneRevived /\ \E t : DroppedBy(t)
<1>1. /\ UNCHANGED <<user, entry, sess, dying>> /\ managed' \subseteq managed \cup {made + 1}
      /\ looper'.conn \in {looper.conn, made + 1} /\ made < MaxConnections
      /\ work' \in {work, [work EXCEPT ![made + 1] = "serve"]}
  BY DEF StartListen, StartConnection, NewChannel, busVars, nameVars
<1>2. ASSUME NEW d \in Made
      PROVE  GotFrom(d)
  <2>1. d \in Conns /\ d # NoConn /\ d # made + 1
    BY <1>1, Numbers
  <2>2. work'[d] = work[d]
    BY <1>1, <2>1 DEF TypeInv, SocketTypes
  <2> QED
    BY <1>1, <2>1, <2>2 DEF GotFrom, Held
<1> QED
  BY <1>1, <1>2, Reviving DEF DroppedBy

\* No step refers to what nothing refers to, and one thread drops what is
\* dropped.
LEMMA References ==
  ASSUME TypeInv, UnmadeInv, BusInv, SoftBus, ChannelsNext
  PROVE  NoneRevived /\ \E t : DroppedBy(t)
<1>1. \A m \in Modules : ~StartListenTcp(m)
  BY DEF StartListenTcp, SoftBus
<1>2. ~DestroyTcp
  BY DEF DestroyTcp, CloseTcp, SoftBus
<1>3. \A c \in Conns : ~Reading(c) /\ ~Accepting(c)
  BY DEF Reading, ReadLooper, Recv, RecvPacket, RecvEnds, RecvFails, HandleReceivedData, Read,
         Accepting, Accept, PeerConnects, PeerPortFails, SetRemoteSocket, OpenTcp, BusInv, BusPlaces
<1> QED
  BY <1>1, <1>2, <1>3, SetupReferences, CallbackReferences, LooperReferences, MakingReferences
  DEF ChannelsNext

-----------------------------------------------------------------------------
(* The theorems                                                              *)

\* A side stays TCP or SoftBus; a step makes one connection at most.
LEMMA SideAndMade ==
  ASSUME ChannelsNext
  PROVE  side' = side /\ made' \in {made, made + 1}
<1>1. ASSUME NEW m \in Modules,
             StartListenTcp(m) \/ StartConnection(m) \/ StartListen(m) \/ PeerOpens(m)
      PROVE  side' = side /\ made' \in {made, made + 1}
  BY <1>1 DEF StartListenTcp, StartConnection, StartListen, NewChannel, PeerOpens, managerVars
<1>2. CASE EnterListening \/ DestroyAllChannels \/ DestroyTcp \/ CloseConnection
           \/ CloseSoftBusSession \/ RemoveRemoteDevice
  BY <1>2 DEF EnterListening, DestroyAllChannels, DestroyTcp, CloseConnection, CloseSoftBusSession,
              RemoveRemoteDevice, managerVars
<1>3. ASSUME NEW c \in Conns, Reading(c) \/ Accepting(c) \/ SetupSession(c)
      PROVE  side' = side /\ made' \in {made, made + 1}
  BY <1>3 DEF Reading, ReadLooper, Recv, RecvPacket, RecvEnds, RecvFails, HandleReceivedData,
     Accepting, Accept, PeerConnects, PeerPortFails, SetRemoteSocket, OpenTcp, SetupSession,
     StartSoftBusService, OpenSoftBusSession, SetSessionId, EnterSession, managerVars
<1>4. ASSUME NEW s \in Sessions, PeerAnswers(s) \/ PeerCloses(s) \/ Callback(s)
      PROVE  side' = side /\ made' \in {made, made + 1}
  BY <1>4 DEF PeerAnswers, PeerCloses, Callback, OnConnectionSessionOpened, ReportOpened,
     OnConnectionSessionClosed, EraseEntry, StopService, ReportClosed, managerVars
<1>5. ASSUME NEW d \in dying, Destroy(d[1], d[2])
      PROVE  side' = side /\ made' \in {made, made + 1}
  BY <1>5 DEF Destroy, managerVars
<1> QED
  BY <1>1, <1>2, <1>3, <1>4, <1>5 DEF ChannelsNext

\* A packet that is handed on came while stopReceive_ was not set.
LEMMA HandedOn ==
  ASSUME TypeInv, ChannelsNext, NEW c \in Conns, reader[c] = "recv", reader'[c] = "handle"
  PROVE  ~tcp[c].stopReceive
<1>0. reader \in [Conns -> {"none", "new", "loop", "recv", "handle", "end"}]
  BY DEF TypeInv, SocketTypes
<1>1. reader' # reader
  BY <1>0
<1>2. ASSUME NEW d \in Conns, Reading(d)
      PROVE  ~tcp[c].stopReceive
  <2>1. d = c
    BY <1>0, <1>2 DEF Reading, ReadLooper, Recv, RecvPacket, RecvEnds, RecvFails,
                      HandleReceivedData, Read
  <2> QED
    BY <1>0, <1>2, <2>1 DEF Reading, ReadLooper, Recv, RecvPacket, RecvEnds, RecvFails,
                      HandleReceivedData, Read, Received
<1>3. ASSUME NEW d \in Conns, Accepting(d)
      PROVE  FALSE
  BY <1>0, <1>3 DEF Accepting, Accept, PeerConnects, PeerPortFails, SetRemoteSocket, OpenTcp,
                    socketVars
<1>4. ~ChannelsNext \/ \E d \in Conns : Reading(d) \/ Accepting(d)
  BY <1>1 DEF ChannelsNext, StartListenTcp, StartConnection, StartListen, PeerOpens, EnterListening,
     DestroyAllChannels, DestroyTcp, CloseTcp, CloseConnection, CloseSoftBusSession,
     RemoveRemoteDevice, SetupSession, StartSoftBusService, OpenSoftBusSession, SetSessionId,
     EnterSession, PeerAnswers, PeerCloses, Callback, OnConnectionSessionOpened, ReportOpened,
     OnConnectionSessionClosed, EraseEntry, StopService, ReportClosed, Destroy, EndSession,
     socketVars
<1> QED
  BY <1>2, <1>3, <1>4

\* The invariant holds at the start.
LEMMA InitChannelsIInv == ChannelsInit => ChannelsIInv
<1> SUFFICES ASSUME ChannelsInit
             PROVE  ChannelsIInv
  OBVIOUS
<1> USE DEF ChannelsInit, NoConn, Idle, Free
<1>1. MaxConnections \in Nat /\ made = 0 /\ Made = {} /\ 0..made = {0}
  BY ChannelsAssumption DEF Made
<1>2. ManagerTypes
  <2>1. looper \in [at : {"idle", "enter", "destroy", "close"}, conn : 0..made]
    BY <1>1
  <2>2. user \in [Modules -> 0..made] /\ entry \in [Modules -> 0..made]
    BY <1>1
  <2>3. made \in 0..MaxConnections /\ module \in [Conns -> Modules \cup {NoName}]
    BY <1>1
  <2> QED
    BY <1>1, <2>1, <2>2, <2>3 DEF ManagerTypes
<1>3. SocketTypes
  BY <1>1 DEF SocketTypes, TcpPlaces, BusPlaces
<1>4. BusTypes
  BY <1>1 DEF BusTypes, SessionOK, SessionRecord
<1>5. UnmadeInv
  BY DEF UnmadeInv
<1>6. TcpInv
  <2>1. \A c \in Conns : work[c] \in TcpPlaces /\ SocketInv(c) /\ ReaderInv(c)
    BY DEF TcpPlaces, SocketInv, ReaderInv, Closed, Conns
  <2> QED
    BY <2>1 DEF TcpInv
<1>7. BusInv
  BY <1>1 DEF BusInv, BusPlaces, ManagerInv, KeptInv, ServerInv, EntryInv, LockSurvives, Closed
<1> QED
  BY <1>2, <1>3, <1>4, <1>5, <1>6, <1>7 DEF ChannelsIInv, TypeInv

\* Every step keeps it.
LEMMA NextChannelsIInv == ChannelsIInv /\ ChannelsNext => ChannelsIInv'
<1> SUFFICES ASSUME ChannelsIInv, ChannelsNext
             PROVE  ChannelsIInv'
  OBVIOUS
<1>1. TypeInv /\ UnmadeInv /\ (Tcp => TcpInv) /\ (SoftBus => BusInv)
  BY DEF ChannelsIInv
<1>2. ManagerTypes'
  BY <1>1, ManagerTyped
<1>3. SocketTypes' /\ made \in Nat /\ made' \in Nat /\ made <= made'
  BY <1>1, SocketTyped
<1>4. (Tcp' <=> Tcp) /\ (SoftBus' <=> SoftBus)
  BY SideAndMade DEF Tcp, SoftBus
<1>5. Tcp => TcpInv'
  BY <1>1, StepTcp
<1>6. SoftBus => BusInv'
  BY <1>1, StepBus
<1>7. DyingOK'
  <2>1. CASE Tcp
    BY <1>5, <2>1 DEF TcpInv, DyingOK
  <2>2. CASE SoftBus
    <3>1. NoneRevived
      BY <1>1, <2>2, References
    <3>2. PICK t : DroppedBy(t)
      BY <1>1, <2>2, References
    <3>3. made' \in {made, made + 1}
      BY SideAndMade
    <3> QED
      BY <1>1, <3>1, <3>2, <3>3, DyingKept DEF DroppedBy
  <2> QED
    BY <2>1, <2>2 DEF SoftBus
<1>8. BusTypes'
  <2>1. SessionTypes'
    BY <1>1, SessTyped
  <2>2. /\ passive' \in [Conns -> BOOLEAN] /\ id' \in [Conns -> {0} \cup Sessions]
        /\ idName' \in [Sessions -> Modules \cup {NoName}] /\ servers' \subseteq Modules
        /\ jam' \in BOOLEAN
        /\ \A c \in Conns : work'[c] = "name" => hand'[c] \in Sessions
    BY <1>1, NamesTyped
  <2> QED
    BY <1>7, <2>1, <2>2 DEF BusTypes, SessionTypes, DyingOK
<1>9. TypeInv'
  BY <1>2, <1>3, <1>8 DEF TypeInv
<1>10. UnmadeInv'
  BY <1>1, <1>9, UnmadeKept
<1> QED
  BY <1>4, <1>5, <1>6, <1>9, <1>10 DEF ChannelsIInv

\* A stuttering step keeps it.
LEMMA StutterChannelsIInv ==
  ASSUME ChannelsIInv, UNCHANGED channelsVars
  PROVE  ChannelsIInv'
<1>1. UNCHANGED <<managerVars, looper, user, work, cut, socketVars, busVars>>
  BY DEF channelsVars
<1>2. UNCHANGED <<side, made, module, managed, listed, looper, user, work, cut, hand, tcp, shut,
                  reader, on, file, passive, id, entry, idName, servers, sess, dying, jam>>
  BY <1>1 DEF managerVars, socketVars, busVars, nameVars
<1>3. \A c : Held(c)' <=> Held(c)
  BY <1>2 DEF Held
<1>4. TypeInv'
  BY <1>2, <1>3 DEF ChannelsIInv, TypeInv, ManagerTypes, SocketTypes, BusTypes, SessionOK, SessionRecord,
                    Made
<1>5. UnmadeInv'
  BY <1>2 DEF ChannelsIInv, UnmadeInv, Made
<1>6. (Tcp' <=> Tcp) /\ (SoftBus' <=> SoftBus)
  BY <1>2 DEF Tcp, SoftBus
<1>7. \A c \in Conns : (SocketInv(c)' <=> SocketInv(c)) /\ (ReaderInv(c)' <=> ReaderInv(c))
  BY <1>2 DEF SocketInv, ReaderInv, Closed, Undone, Midway
<1>8. TcpInv => TcpInv'
  BY <1>2, <1>7 DEF TcpInv
<1>9. BusInv => BusInv'
  BY <1>2 DEF BusInv, ManagerInv, KeptInv, ServerInv, EntryInv, LockSurvives, Kept, Closed, Undone,
              Midway, Made
<1> QED
  BY <1>4, <1>5, <1>6, <1>8, <1>9 DEF ChannelsIInv

\* So does a step or a stutter.
LEMMA StepChannelsIInv == ChannelsIInv /\ [ChannelsNext]_channelsVars => ChannelsIInv'
  BY NextChannelsIInv, StutterChannelsIInv

\* The invariant of Channels: over TCP, whose socket each thread and reader
\* has; over SoftBus, who still has each connection, session server and map
\* entry (tcp_connection.cpp, softbus_connection.cpp, connection_manager.cpp).
THEOREM ChannelsInductive == ChannelsSpec => []ChannelsIInv
  BY InitChannelsIInv, StepChannelsIInv, PTL DEF ChannelsSpec

\* Types, and that the connections and sessions the variables name are of those
\* made; a connection that waits for its destructor is held by nobody.
THEOREM ChannelsTypeCorrect == ChannelsSpec => []ChannelsTypeOK
<1>1. ChannelsIInv => ChannelsTypeOK
  <2> SUFFICES ASSUME ChannelsIInv
               PROVE  ChannelsTypeOK
    OBVIOUS
  <2>1. ManagerTypes /\ SocketTypes /\ BusTypes
    BY DEF ChannelsIInv, TypeInv
  <2>2. \A s \in Sessions :
          sess[s] = Free \/ (sess[s].st # "free" /\ sess[s].name \in Modules /\ sess[s].conn \in 0..made)
    BY <2>1 DEF BusTypes, SessionOK, SessionRecord
  <2> QED
    BY <2>1, <2>2 DEF ManagerTypes, SocketTypes, BusTypes, Made, ChannelsTypeOK
<1> QED
  BY <1>1, ChannelsInductive, PTL

\* A closed connection gives back its socket, and the session server of its
\* name, unless it was closed too early for that: TcpSocket::Close finds the
\* socket only where SetRemoteSocket has put it, and a server that is started
\* after the closing has nobody to remove it.
THEOREM ClosedReturned == ChannelsSpec => []ClosedIsReturned
<1>1. ChannelsIInv => ClosedIsReturned
  <2> SUFFICES ASSUME ChannelsIInv
               PROVE  ClosedIsReturned
    OBVIOUS
  <2>1. TypeInv /\ (Tcp => TcpInv) /\ (SoftBus => BusInv)
    BY DEF ChannelsIInv
  <2>2. ASSUME NEW f \in Sockets, file[f] # NoConn, Closed(file[f])
        PROVE  Undone(file[f]) \/ work[file[f]] = "failed"
    <3>1. Tcp
      BY <2>1, <2>2 DEF BusInv, SoftBus
    <3>2. file[f] \in Conns
      BY <2>1, <2>2, Numbers DEF TypeInv, SocketTypes, Made, NoConn
    <3>3. SocketInv(file[f])
      BY <2>1, <3>1, <3>2 DEF TcpInv
    <3> QED
      BY <2>2, <3>3 DEF SocketInv
  <2>3. ASSUME SoftBus, NEW m \in servers
        PROVE  \E c \in Conns : module[c] = m /\ (c \in managed \cup {looper.conn} \/ Undone(c))
    BY <2>1, <2>3, Numbers DEF BusInv, ServerInv, Kept
  <2> QED
    BY <2>2, <2>3 DEF ClosedIsReturned
<1> QED
  BY <1>1, ChannelsInductive, PTL

\* No thread destroys a connection with the mutex of the map in hand, which the
\* destructor would wait for, as long as no connection is closed before its
\* thread has entered it in the map (softbus_connection.cpp:519-542).
THEOREM LockNotHeld == ChannelsSpec => []LockSurvives
<1>1. ChannelsIInv => LockSurvives
  <2> SUFFICES ASSUME ChannelsIInv, jam
               PROVE  \E c \in Conns : Undone(c)
    BY DEF LockSurvives
  <2>1. SoftBus
    BY DEF ChannelsIInv, TcpInv, SoftBus
  <2> QED
    BY <2>1 DEF ChannelsIInv, BusInv, LockSurvives
<1> QED
  BY <1>1, ChannelsInductive, PTL

\* What the reader of a connection hands on was received from its own peer, and
\* before the connection was closed: not so by the descriptor, which may stand
\* for another connection's socket, but for stopReceive_, which is looked at
\* when recv returns (tcp_socket.cpp).
THEOREM PacketsOwn == ChannelsSpec => PacketsAreOwn
<1> DEFINE Own == \A c \in Conns :
             reader[c] = "recv" /\ reader'[c] = "handle" => on[c] = c /\ (Closed(c) => Undone(c))
<1>1. ChannelsIInv /\ [ChannelsNext]_channelsVars => [Own]_channelsVars
  <2> SUFFICES ASSUME ChannelsIInv, ChannelsNext, NEW c \in Conns, reader[c] = "recv", reader'[c] = "handle"
               PROVE  on[c] = c /\ (Closed(c) => Undone(c))
    OBVIOUS
  <2>1. TypeInv /\ (Tcp => TcpInv) /\ (SoftBus => BusInv)
    BY DEF ChannelsIInv
  <2>2. Tcp
    BY <2>1 DEF BusInv, SoftBus
  <2>3. SocketInv(c) /\ ReaderInv(c)
    BY <2>1, <2>2 DEF TcpInv
  <2>4. ~tcp[c].stopReceive
    BY <2>1, HandedOn
  <2>5. on[c] = c /\ hand[c] \in Sockets /\ file[hand[c]] = c
    BY <2>3, <2>4 DEF ReaderInv
  <2>6. work[c] = "end"
    BY <2>3 DEF ReaderInv
  <2> QED
    BY <2>3, <2>5, <2>6 DEF SocketInv
<1> QED
  BY <1>1, ChannelsInductive, PTL DEF ChannelsSpec, PacketsAreOwn
=============================================================================
