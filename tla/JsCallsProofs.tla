----------------------------- MODULE JsCallsProofs -----------------------------
(***************************************************************************)
(* Proofs about JsCalls, for any calls, threads, functions and references: *)
(* the types, what a resolved promise says of the service, the references  *)
(* counted by hand, and that only subscribers are called.                  *)
(*                                                                         *)
(* A call is followed by where its task is.  A task that waits is queued,  *)
(* and waits once; a task that is ready was answered, and if it is a       *)
(* release that succeeded, the object was reset before it got there.  So   *)
(* no call is made late, after a release has resolved, while the object    *)
(* still holds the native one.                                             *)
(***************************************************************************)
EXTENDS JsCalls, SequenceTheorems, FiniteSetTheorems, TLAPS

-----------------------------------------------------------------------------
(* The invariants                                                            *)

\* What a page can call.
Methods ==
  {"setSurface", "load", "start", "play", "playIndex", "pause", "stop", "next",
   "previous", "seek", "fastForward", "fastRewind", "setVolume", "setLoopMode",
   "setSpeed", "setMute", "getPlayerStatus", "getPosition", "getDownloadRate",
   "getVolume", "getMute", "getLoopMode", "getPlaySpeed", "getMediaInfoHolder",
   "release", "setAppInfo", "resizeVirtualScreen", "setCastRoute", "getScreenshot",
   "addDevice", "removeDevice", "getSessionId", "setSessionProperty",
   "createMirrorPlayer", "createStreamPlayer", "setCastMode", "getRemoteDeviceInfo"}

CallRecord ==
  [stage : Stages, method : Methods \cup {None}, result : Results \cup {None},
   done : BOOLEAN, late : BOOLEAN]

CallTypes == call \in [Calls -> CallRecord]

\* A work is a task, or an event for a reference.
PoolWorks ==
  [task : Calls, event : {None}, ref : {None}] \cup [task : {None}, event : Watched, ref : Refs]

QueueTypes ==
  /\ waiting \in Seq(PoolWorks) /\ ready \in Seq(PoolWorks)
  /\ working \in [Threads -> PoolWorks \cup {None}]

ObjectTypes ==
  /\ kind \in {"session", "stream", "mirror"}
  /\ held \in BOOLEAN /\ listener \in BOOLEAN
  /\ \/ asking = None
     \/ asking \in [event : Watched, function : Functions, answer : {None, "SUCCESS", "ERROR"}]

ServiceTypes ==
  /\ impl \in BOOLEAN /\ target \in BOOLEAN /\ heard \in BOOLEAN /\ served \in BOOLEAN
  /\ sending \in Emitted \cup {None} /\ events \in 0..MaxEvents

CallbackTypes ==
  /\ callbacks \in [Watched -> SUBSET Refs]
  /\ refs \in [Refs -> Nat] /\ function \in [Refs -> Functions \cup {None}]
  /\ delivering \in Refs \cup {None} /\ adds \in 0..MaxAdds
  /\ owed \subseteq Watched \X Functions

TypeInv == CallTypes /\ QueueTypes /\ ObjectTypes /\ ServiceTypes /\ CallbackTypes

\* Where a call is, and what is known of it there.
IsReset(c) == call[c].method = "release" /\ call[c].result = "SUCCESS" => ~held

WillBeReset(c) == call'[c].method = "release" /\ call'[c].result = "SUCCESS" => ~held'

CallInv(c) ==
  /\ call[c].stage = "queued" => call[c].result \in {None, "INVALID_PARAM"}
  /\ call[c].result = "SUCCESS" => call[c].done \/ call[c].method \in ClientOnly[kind]
  /\ call[c].stage = "settled" => IsReset(c)
  /\ call[c].late =>
       /\ ~held /\ ~call[c].done /\ call[c].result # "SUCCESS"
       /\ call[c].stage \in {"queued", "answered", "settled"}

WaitingInv ==
  /\ \A i \in DOMAIN waiting : waiting[i].task # None => call[waiting[i].task].stage = "queued"
  /\ \A i, j \in DOMAIN waiting :
       waiting[i].task # None /\ waiting[i].task = waiting[j].task => i = j

ReadyInv ==
  \A i \in DOMAIN ready :
    ready[i].task # None =>
      call[ready[i].task].stage \in {"answered", "settled"} /\ IsReset(ready[i].task)

CallsInv == WaitingInv /\ ReadyInv /\ \A c \in Calls : CallInv(c)

\* A reference that is subscribed has a function; the counts are right.
FunctionInv == \A e \in Watched : \A r \in callbacks[e] : function[r] # None

\* While a registration is awaited there is room for a reference.
AskingInv == asking # None => adds < MaxAdds

RefsInv == FunctionInv /\ RefCountsAgree /\ AskingInv

IInv == TypeInv /\ CallsInv /\ RefsInv

-----------------------------------------------------------------------------
(* Tables and tasks                                                          *)

\* The client library answers a call itself only with an error.
LEMMA ChecksFail ==
  ASSUME TypeInv, NEW m, NEW r \in At(ClientChecks[kind], m)
  PROVE  r \in Results \ {"SUCCESS"}
<1>1. At(ClientChecks["session"], m) \subseteq {"INVALID_PARAM", "ERROR"}
  BY DEF At, ClientChecks, SessionChecks
<1>2. At(ClientChecks["stream"], m) \subseteq {"INVALID_PARAM", "ERROR"}
  BY DEF At, ClientChecks, StreamChecks
<1>3. At(ClientChecks["mirror"], m) \subseteq {"INVALID_PARAM", "ERROR"}
  BY DEF At, ClientChecks, MirrorChecks, StreamChecks
<1> QED
  BY <1>1, <1>2, <1>3 DEF TypeInv, ObjectTypes, Results

\* A proxy makes an error of every failed IPC.
LEMMA TranslatedFails ==
  ASSUME NEW m, NEW status
  PROVE  Translated(m, status) \in Results \ {"SUCCESS"}
<1>1. CASE status \notin Proxy[kind][m]
  BY <1>1 DEF Translated, Results
<1>2. CASE status \in Proxy[kind][m] /\ status = "INVALID_DATA"
  BY <1>2 DEF Translated, Results
<1>3. CASE status \in Proxy[kind][m] /\ status # "INVALID_DATA"
  BY <1>3 DEF Translated, Results
<1> QED
  BY <1>1, <1>2, <1>3

LEMMA ReleaseAsked == ASSUME TypeInv PROVE "release" \notin ClientOnly[kind]
  BY DEF TypeInv, ObjectTypes, ClientOnly

LEMMA TasksAreCalls ==
  ASSUME TypeInv
  PROVE  /\ \A i \in DOMAIN waiting :
              waiting[i] \in PoolWorks /\ (waiting[i].task # None => waiting[i].task \in Calls)
         /\ \A i \in DOMAIN ready :
              ready[i] \in PoolWorks /\ (ready[i].task # None => ready[i].task \in Calls)
<1>1. \A s \in Seq(PoolWorks) : \A i \in DOMAIN s : s[i] \in PoolWorks
  OBVIOUS
<1>2. \A w \in PoolWorks : w.task # None => w.task \in Calls
  BY DEF PoolWorks
<1> QED
  BY <1>1, <1>2 DEF TypeInv, QueueTypes

LEMMA HeadAndTail ==
  ASSUME NEW S, NEW s \in Seq(S), s # <<>>
  PROVE  /\ Head(s) \in S /\ Tail(s) \in Seq(S)
         /\ Head(s) = s[1] /\ 1 \in DOMAIN s
         /\ \A i \in DOMAIN Tail(s) : i + 1 \in DOMAIN s /\ Tail(s)[i] = s[i + 1]
  OBVIOUS

LEMMA Appended ==
  ASSUME NEW S, NEW s \in Seq(S), NEW x \in S
  PROVE  /\ Append(s, x) \in Seq(S)
         /\ \A i \in DOMAIN Append(s, x) :
              \/ i \in DOMAIN s /\ Append(s, x)[i] = s[i]
              \/ i = Len(s) + 1 /\ i \notin DOMAIN s /\ Append(s, x)[i] = x
  OBVIOUS

-----------------------------------------------------------------------------
(* What becomes of a call in one step                                        *)

InService == {"sent", "dispatched", "dropping"}

\* It is executed, or goes on in the service.
Kept(c) == call'[c].method = call[c].method /\ call'[c].late = call[c].late

Executed(c) ==
  /\ CallTypes' /\ \A d \in Calls \ {c} : call'[d] = call[d]
  /\ Kept(c) /\ call'[c].done = call[c].done
  /\ \/ call'[c].stage = "answered" /\ call'[c].result # "SUCCESS"
     \/ call'[c].stage = "answered" /\ call[c].result = "SUCCESS"
     \/ call'[c].stage = "answered" /\ held /\ call[c].method \in ClientOnly[kind]
     \/ call'[c].stage = "sent" /\ held /\ call'[c].result = call[c].result

GoesOn(c) ==
  /\ call[c].stage \in InService /\ call'[c].stage \in InService \cup {"answered"}
  /\ Kept(c)
  /\ call'[c].result = "SUCCESS" => call'[c].done \/ call[c].result = "SUCCESS"
  /\ call[c].done => call'[c].done

Goes(c) == CallTypes' /\ GoesOn(c) /\ \A d \in Calls \ {c} : call'[d] = call[d]

LEMMA AnswerTakes ==
  ASSUME TypeInv, NEW c \in Calls, NEW r \in Results, Answer(c, r)
  PROVE  /\ CallTypes' /\ \A d \in Calls \ {c} : call'[d] = call[d]
         /\ Kept(c) /\ call'[c].done = call[c].done
         /\ call'[c].stage = "answered" /\ call'[c].result = r
  BY DEF TypeInv, CallTypes, CallRecord, Stages, Answer, Kept

LEMMA ExecuteTakes ==
  ASSUME TypeInv, NEW c \in Calls, Execute(c)
  PROVE  Executed(c)
<1>1. CASE call[c].result # None
  <2>1. call[c].result \in Results /\ Answer(c, call[c].result)
    BY <1>1 DEF Execute, TypeInv, CallTypes, CallRecord
  <2> QED
    BY <2>1, AnswerTakes DEF Executed
<1>2. CASE call[c].result = None /\ ~held
  <2>1. Answer(c, "ERROR") /\ "ERROR" \in Results
    BY <1>2 DEF Execute, Results
  <2> QED
    BY <2>1, AnswerTakes DEF Executed
<1>3. CASE call[c].result = None /\ held
  <2>1. \/ \E r \in At(ClientChecks[kind], call[c].method) : Answer(c, r)
        \/ call[c].method \in ClientOnly[kind] /\ Answer(c, "SUCCESS")
        \/ call' = Sent(c)
    BY <1>3 DEF Execute
  <2>2. ASSUME NEW r \in At(ClientChecks[kind], call[c].method), Answer(c, r)
        PROVE  Executed(c)
    <3>1. r \in Results /\ r # "SUCCESS"
      BY ChecksFail
    <3> QED
      BY <2>2, <3>1, AnswerTakes DEF Executed
  <2>3. CASE call[c].method \in ClientOnly[kind] /\ Answer(c, "SUCCESS")
    <3>1. "SUCCESS" \in Results
      BY DEF Results
    <3> QED
      BY <1>3, <2>3, <3>1, AnswerTakes DEF Executed
  <2>4. CASE call' = Sent(c)
    BY <1>3, <2>4 DEF Sent, Executed, Kept, TypeInv, CallTypes, CallRecord, Stages
  <2> QED
    BY <2>1, <2>2, <2>3, <2>4
<1> QED
  BY <1>1, <1>2, <1>3 DEF TypeInv, ObjectTypes

\* An error from the service.
LEMMA FailureGoes ==
  ASSUME TypeInv, NEW c \in Calls, call[c].stage \in InService,
         NEW r \in Results \ {"SUCCESS"}, Answer(c, r)
  PROVE  Goes(c)
  BY AnswerTakes DEF Goes, GoesOn

LEMMA DoneGoes ==
  ASSUME TypeInv, NEW c \in Calls, call[c].stage \in InService, NEW r \in Results,
         call' = Done(c, r)
  PROVE  Goes(c)
  <1> DEFINE new == [call[c] EXCEPT !.stage = "answered", !.result = r, !.done = TRUE]
  <1>1. call \in [Calls -> CallRecord] /\ call[c] \in CallRecord
    BY DEF TypeInv, CallTypes
  <1>2. "answered" \in Stages
    BY DEF Stages
  <1>3. /\ new \in CallRecord /\ new.method = call[c].method /\ new.late = call[c].late
        /\ new.stage = "answered" /\ new.done = TRUE
    BY <1>1, <1>2 DEF CallRecord
  <1>4. call' = [call EXCEPT ![c] = new]
    BY <1>1 DEF Done
  <1>5. call' \in [Calls -> CallRecord] /\ call'[c] = new /\ \A d \in Calls \ {c} : call'[d] = call[d]
    BY <1>1, <1>3, <1>4
  <1> QED
    BY <1>3, <1>5 DEF Goes, GoesOn, Kept, CallTypes

LEMMA StageGoes ==
  ASSUME TypeInv, NEW c \in Calls, call[c].stage \in InService,
         NEW s \in {"dispatched", "dropping"}, call' = [call EXCEPT ![c].stage = s]
  PROVE  Goes(c)
  BY DEF Goes, GoesOn, Kept, TypeInv, CallTypes, CallRecord, Stages, InService

LEMMA ServeGoes ==
  ASSUME TypeInv, NEW c \in Calls, Serve(c)
  PROVE  /\ Goes(c)
         /\ UNCHANGED <<kind, jsVars, poolVars, served, eventVars, callbackVars>>
         /\ impl' \in BOOLEAN /\ target' \in BOOLEAN /\ heard' \in BOOLEAN
<1> USE DEF serviceVars
<1>1. {"SUCCESS", "ERROR"} \subseteq Results
  BY DEF Results
<1>2. impl \in BOOLEAN /\ target \in BOOLEAN /\ heard \in BOOLEAN
  BY DEF TypeInv, ServiceTypes
<1>3. CASE OnRemoteRequest(c)
  <2>1. call[c].stage \in InService
    BY <1>3 DEF OnRemoteRequest, InService
  <2>2. \/ \E status : Answer(c, Translated(call[c].method, status))
        \/ call' = [call EXCEPT ![c].stage = "dispatched"]
        \/ Answer(c, "ERROR")
    BY <1>3 DEF OnRemoteRequest, WithoutImpl
  <2>3. ASSUME NEW status, Answer(c, Translated(call[c].method, status))
        PROVE  Goes(c)
    BY <2>1, <2>3, TranslatedFails, FailureGoes
  <2>4. ASSUME call' = [call EXCEPT ![c].stage = "dispatched"] PROVE Goes(c)
    BY <2>1, <2>4, StageGoes
  <2>5. ASSUME Answer(c, "ERROR") PROVE Goes(c)
    BY <2>1, <2>5, <1>1, FailureGoes
  <2>6. UNCHANGED <<kind, jsVars, poolVars, serviceVars, eventVars, callbackVars>>
    BY <1>3 DEF OnRemoteRequest
  <2> QED
    BY <1>2, <2>2, <2>3, <2>4, <2>5, <2>6
<1>4. CASE Perform(c)
  <2>1. call[c].stage \in InService
    BY <1>4 DEF Perform, InService
  <2>2. (\E r \in {"SUCCESS", "ERROR"} : call' = Done(c, r)) \/ Answer(c, "ERROR")
    BY <1>4 DEF Perform
  <2>3. UNCHANGED <<kind, jsVars, poolVars, serviceVars, eventVars, callbackVars>>
    BY <1>4 DEF Perform
  <2> QED
    BY <1>1, <1>2, <2>1, <2>2, <2>3, DoneGoes, FailureGoes
<1>5. CASE PerformRelease(c)
  <2>1. call[c].stage \in InService
    BY <1>5 DEF PerformRelease, InService
  <2>2. call' = Done(c, "SUCCESS") \/ Answer(c, "ERROR")
    BY <1>5 DEF PerformRelease
  <2>3. UNCHANGED <<kind, jsVars, poolVars, serviceVars, eventVars, callbackVars>>
    BY <1>5 DEF PerformRelease
  <2> QED
    BY <1>1, <1>2, <2>1, <2>2, <2>3, DoneGoes, FailureGoes
<1>6. CASE DestroyStreamPlayer(c)
  <2>1. call[c].stage \in InService
    BY <1>6 DEF DestroyStreamPlayer, InService
  <2> QED
    BY <1>6, <1>2, <2>1, StageGoes DEF DestroyStreamPlayer
<1>7. CASE DropPlayerImpl(c)
  <2>1. call[c].stage \in InService
    BY <1>7 DEF DropPlayerImpl, InService
  <2> QED
    BY <1>7, <1>1, <1>2, <2>1, DoneGoes DEF DropPlayerImpl
<1> QED
  BY <1>3, <1>4, <1>5, <1>6, <1>7 DEF Serve

LEMMA ServiceDiesGoes ==
  ASSUME TypeInv, ServiceDies
  PROVE  CallTypes' /\ \A c \in Calls : call'[c] = call[c] \/ GoesOn(c)
<1> SUFFICES ASSUME NEW c \in Calls
             PROVE  call'[c] \in CallRecord /\ (call'[c] = call[c] \/ GoesOn(c))
  BY DEF ServiceDies, CallTypes
<1>1. call[c] \in CallRecord
  BY DEF TypeInv, CallTypes
<1>2. CASE call[c].stage \in {"dispatched", "dropping"}
  <2>1. call'[c] = [call[c] EXCEPT !.stage = "answered", !.result = "ERROR"]
    BY <1>2 DEF ServiceDies
  <2> QED
    BY <1>1, <1>2, <2>1 DEF GoesOn, Kept, InService, CallRecord, Stages, Results
<1>3. CASE call[c].stage \notin {"dispatched", "dropping"}
  BY <1>1, <1>3 DEF ServiceDies
<1> QED
  BY <1>2, <1>3

-----------------------------------------------------------------------------
(* The invariant of the calls                                                *)

Resting == UNCHANGED <<kind, held, call, waiting, ready>>

LEMMA RestingKeeps ==
  ASSUME CallsInv, Resting
  PROVE  CallsInv'
  BY DEF Resting, CallsInv, WaitingInv, ReadyInv, CallInv, IsReset

\* Calls go on in the service.
LEMMA ServiceKeeps ==
  ASSUME TypeInv, CallsInv, UNCHANGED <<kind, held, waiting, ready>>, CallTypes',
         \A c \in Calls : call'[c] = call[c] \/ GoesOn(c)
  PROVE  CallsInv'
<1>1. ASSUME NEW c \in Calls PROVE CallInv(c)'
  <2>1. CASE call'[c] = call[c]
    BY <2>1 DEF CallsInv, CallInv, IsReset
  <2>2. CASE GoesOn(c)
    BY <2>2 DEF CallsInv, CallInv, IsReset, GoesOn, Kept, InService
  <2> QED
    BY <2>1, <2>2
<1>2. WaitingInv'
  <2>1. ASSUME NEW i \in DOMAIN waiting, waiting[i].task # None
        PROVE  call'[waiting[i].task].stage = "queued"
    <3>1. waiting[i].task \in Calls
      BY <2>1, TasksAreCalls
    <3>2. call[waiting[i].task].stage = "queued"
      BY <2>1 DEF CallsInv, WaitingInv
    <3> QED
      BY <3>1, <3>2 DEF GoesOn, InService
  <2> QED
    BY <2>1 DEF CallsInv, WaitingInv
<1>3. ReadyInv'
  <2> SUFFICES ASSUME NEW i \in DOMAIN ready, ready[i].task # None
               PROVE  /\ call'[ready[i].task].stage \in {"answered", "settled"}
                      /\ IsReset(ready[i].task)'
    BY DEF ReadyInv
  <2>1. ready[i].task \in Calls
    BY TasksAreCalls
  <2>2. call[ready[i].task].stage \in {"answered", "settled"} /\ IsReset(ready[i].task)
    BY DEF CallsInv, ReadyInv
  <2>3. call'[ready[i].task] = call[ready[i].task]
    BY <2>1, <2>2 DEF GoesOn, InService
  <2> QED
    BY <2>2, <2>3 DEF IsReset
<1> QED
  BY <1>1, <1>2, <1>3 DEF CallsInv

LEMMA EnqueueKeeps ==
  ASSUME TypeInv, CallsInv, NEW c \in Calls, NEW m \in Methods, NEW valid \in BOOLEAN,
         Enqueue(c, m, valid)
  PROVE  CallTypes' /\ QueueTypes' /\ CallsInv'
<1> DEFINE r == [stage |-> "queued", method |-> m, done |-> FALSE, late |-> Released,
                 result |-> IF valid THEN None ELSE "INVALID_PARAM"]
<1>1. call' = [call EXCEPT ![c] = r] /\ call[c] = Unmade /\ r \in CallRecord
  BY DEF Enqueue, CallRecord, Stages, Results, Released
<1>2. CallTypes' /\ call'[c] = r /\ \A d \in Calls \ {c} : call'[d] = call[d]
  BY <1>1 DEF TypeInv, CallTypes
<1>3. call[c].stage = "unmade"
  BY <1>1 DEF Unmade
<1>4. waiting' = Append(waiting, TaskOf(c)) /\ TaskOf(c) \in PoolWorks /\ waiting \in Seq(PoolWorks)
  BY DEF Enqueue, TaskOf, PoolWorks, TypeInv, QueueTypes
<1>5. QueueTypes'
  BY <1>4 DEF Enqueue, QueueTypes, TypeInv
<1>6. UNCHANGED <<kind, held, ready>>
  BY DEF Enqueue, jsVars
<1>7. ASSUME NEW d \in Calls PROVE CallInv(d)'
  <2>1. CASE d # c
    BY <1>2, <1>6, <2>1 DEF CallsInv, CallInv, IsReset
  <2>2. CASE d = c
    <3>1. Released => ~held
      BY DEF Released, CallsInv, CallInv, IsReset
    <3>2. "SUCCESS" # None
      BY JsCallsAssumption DEF Results
    <3>3. /\ call'[c].stage = "queued" /\ call'[c].result \in {None, "INVALID_PARAM"}
          /\ call'[c].done = FALSE /\ call'[c].late = Released
      BY <1>2
    <3> QED
      BY <1>6, <2>2, <3>1, <3>2, <3>3 DEF CallInv
  <2> QED
    BY <2>1, <2>2
<1>8. \A i \in DOMAIN waiting : waiting[i].task # c
  BY <1>3, TasksAreCalls, JsCallsAssumption DEF CallsInv, WaitingInv
<1>9. TaskOf(c).task = c /\ c # None
  BY JsCallsAssumption DEF TaskOf
<1>10. \A i \in DOMAIN waiting' : \/ i \in DOMAIN waiting /\ waiting'[i] = waiting[i]
                                  \/ i = Len(waiting) + 1 /\ waiting'[i] = TaskOf(c)
  BY <1>4, Appended
<1>11. WaitingInv'
  <2>1. ASSUME NEW i \in DOMAIN waiting', waiting'[i].task # None
        PROVE  call'[waiting'[i].task].stage = "queued"
    <3>1. CASE i \in DOMAIN waiting /\ waiting'[i] = waiting[i]
      <4>1. waiting[i].task \in Calls /\ call[waiting[i].task].stage = "queued"
        BY <2>1, <3>1, TasksAreCalls DEF CallsInv, WaitingInv
      <4> QED
        BY <1>2, <1>3, <3>1, <4>1
    <3>2. CASE waiting'[i] = TaskOf(c)
      BY <1>2, <1>9, <3>2
    <3> QED
      BY <1>10, <3>1, <3>2
  <2>2. ASSUME NEW i \in DOMAIN waiting', NEW j \in DOMAIN waiting',
               waiting'[i].task # None, waiting'[i].task = waiting'[j].task
        PROVE  i = j
    BY <1>8, <1>9, <1>10, <2>2 DEF CallsInv, WaitingInv
  <2> QED
    BY <2>1, <2>2 DEF WaitingInv
<1>12. ReadyInv'
  <2> SUFFICES ASSUME NEW i \in DOMAIN ready, ready[i].task # None
               PROVE  /\ call'[ready[i].task].stage \in {"answered", "settled"}
                      /\ IsReset(ready[i].task)'
    BY <1>6 DEF ReadyInv
  <2>1. ready[i].task \in Calls
    BY TasksAreCalls
  <2>2. call[ready[i].task].stage \in {"answered", "settled"} /\ IsReset(ready[i].task)
    BY DEF CallsInv, ReadyInv
  <2>3. call'[ready[i].task] = call[ready[i].task]
    BY <1>2, <1>3, <2>1, <2>2
  <2> QED
    BY <1>6, <2>2, <2>3 DEF IsReset
<1> QED
  BY <1>2, <1>5, <1>7, <1>11, <1>12 DEF CallsInv

\* A task or a work is taken from the queue, and a task executed.
LEMMA TakeKeeps ==
  ASSUME TypeInv, CallsInv, NEW t \in Threads, Take(t)
  PROVE  CallTypes' /\ QueueTypes' /\ CallsInv'
<1> DEFINE w == Head(waiting)
<1>1. /\ waiting # <<>> /\ waiting' = Tail(waiting)
      /\ working' = [working EXCEPT ![t] = w]
      /\ IF w.task = None THEN UNCHANGED call ELSE Execute(w.task)
      /\ UNCHANGED <<kind, held, ready>>
  BY DEF Take, jsVars
<1>2. /\ w \in PoolWorks /\ Tail(waiting) \in Seq(PoolWorks) /\ w = waiting[1] /\ 1 \in DOMAIN waiting
      /\ \A i \in DOMAIN Tail(waiting) : i + 1 \in DOMAIN waiting /\ Tail(waiting)[i] = waiting[i + 1]
  BY <1>1, HeadAndTail DEF TypeInv, QueueTypes
<1> HIDE DEF w
<1>3. QueueTypes'
  BY <1>1, <1>2 DEF TypeInv, QueueTypes
<1>4. \A i \in DOMAIN waiting' :
        waiting'[i].task # None =>
          /\ waiting'[i].task \in Calls /\ waiting'[i].task # w.task
          /\ call[waiting'[i].task].stage = "queued"
  <2> SUFFICES ASSUME NEW i \in DOMAIN waiting', waiting'[i].task # None
               PROVE  /\ waiting'[i].task \in Calls /\ waiting'[i].task # w.task
                      /\ call[waiting'[i].task].stage = "queued"
    OBVIOUS
  <2>1. i + 1 \in DOMAIN waiting /\ waiting'[i] = waiting[i + 1] /\ i + 1 # 1
    BY <1>1, <1>2
  <2> QED
    BY <1>2, <2>1, TasksAreCalls DEF CallsInv, WaitingInv
<1>5. \A i, j \in DOMAIN waiting' :
        waiting'[i].task # None /\ waiting'[i].task = waiting'[j].task => i = j
  <2> SUFFICES ASSUME NEW i \in DOMAIN waiting', NEW j \in DOMAIN waiting',
                      waiting'[i].task # None, waiting'[i].task = waiting'[j].task
               PROVE  i = j
    OBVIOUS
  <2>1. /\ i + 1 \in DOMAIN waiting /\ waiting'[i] = waiting[i + 1]
        /\ j + 1 \in DOMAIN waiting /\ waiting'[j] = waiting[j + 1]
    BY <1>1, <1>2
  <2>2. i + 1 = j + 1
    BY <2>1 DEF CallsInv, WaitingInv
  <2>3. i \in Nat /\ j \in Nat
    BY <1>1, <1>2
  <2> QED
    BY <2>2, <2>3
<1>6. CASE w.task = None
  BY <1>1, <1>3, <1>4, <1>5, <1>6
     DEF CallsInv, CallInv, IsReset, WaitingInv, ReadyInv, TypeInv, CallTypes
<1>7. CASE w.task # None
  <2> DEFINE c == w.task
  <2>1. c \in Calls /\ call[c].stage = "queued"
    BY <1>2, <1>7, TasksAreCalls DEF CallsInv, WaitingInv
  <2>2. Executed(c)
    BY <1>1, <1>7, <2>1, ExecuteTakes
  <2> HIDE DEF c
  <2>3. ASSUME NEW d \in Calls PROVE CallInv(d)'
    <3>1. CASE d # c
      BY <1>1, <2>2, <3>1 DEF CallsInv, CallInv, IsReset, Executed
    <3>2. CASE d = c
      <4>1. call[c].result # "SUCCESS" /\ CallInv(c)
        BY <2>1, JsCallsAssumption DEF CallsInv, CallInv, Results
      <4>2. /\ call'[c].method = call[c].method /\ call'[c].late = call[c].late
            /\ call'[c].done = call[c].done
            /\ \/ call'[c].stage = "answered" /\ call'[c].result # "SUCCESS"
               \/ call'[c].stage = "answered" /\ held /\ call[c].method \in ClientOnly[kind]
               \/ call'[c].stage = "sent" /\ held /\ call'[c].result = call[c].result
        BY <2>2, <4>1 DEF Executed, Kept
      <4> QED
        BY <1>1, <3>2, <4>1, <4>2 DEF CallInv
    <3> QED
      BY <3>1, <3>2
  <2>4. WaitingInv'
    BY <1>4, <1>5, <2>2 DEF WaitingInv, Executed, c
  <2>5. ReadyInv'
    <3> SUFFICES ASSUME NEW i \in DOMAIN ready, ready[i].task # None
                 PROVE  /\ call'[ready[i].task].stage \in {"answered", "settled"}
                        /\ IsReset(ready[i].task)'
      BY <1>1 DEF ReadyInv
    <3>1. ready[i].task \in Calls
      BY TasksAreCalls
    <3>2. call[ready[i].task].stage \in {"answered", "settled"} /\ IsReset(ready[i].task)
      BY DEF CallsInv, ReadyInv
    <3>3. call'[ready[i].task] = call[ready[i].task]
      BY <2>1, <2>2, <3>1, <3>2 DEF Executed
    <3> QED
      BY <1>1, <3>2, <3>3 DEF IsReset
  <2> QED
    BY <1>3, <2>2, <2>3, <2>4, <2>5 DEF CallsInv, Executed
<1> QED
  BY <1>6, <1>7

\* A thread is through with a task: a release that succeeded resets the object.
LEMMA FinishKeeps ==
  ASSUME TypeInv, CallsInv, NEW t \in Threads, Finish(t)
  PROVE  QueueTypes' /\ CallsInv' /\ held' \in BOOLEAN /\ listener' \in BOOLEAN
<1>1. PICK w : w = working[t]
  OBVIOUS
<1>2. /\ w # None /\ ready' = Append(ready, w)
      /\ IF w.task = None THEN UNCHANGED <<held, listener>>
         ELSE call[w.task].stage = "answered" /\ Reset(w.task)
      /\ working' = [working EXCEPT ![t] = None]
      /\ UNCHANGED <<kind, call, waiting>>
  BY <1>1 DEF Finish
<1>3. w \in PoolWorks /\ ready \in Seq(PoolWorks)
  BY <1>1, <1>2 DEF TypeInv, QueueTypes
<1>4. QueueTypes'
  BY <1>2, <1>3, Appended DEF TypeInv, QueueTypes
<1>5. /\ held' \in BOOLEAN /\ listener' \in BOOLEAN
      /\ held' => held
      /\ w.task # None => call[w.task].stage = "answered" /\ WillBeReset(w.task)
  BY <1>2 DEF Reset, WillBeReset, TypeInv, ObjectTypes
<1>6. ReadyInv'
  <2> SUFFICES ASSUME NEW i \in DOMAIN ready', ready'[i].task # None
               PROVE  /\ call[ready'[i].task].stage \in {"answered", "settled"}
                      /\ WillBeReset(ready'[i].task)
    BY <1>2 DEF ReadyInv, IsReset, WillBeReset
  <2>1. (i \in DOMAIN ready /\ ready'[i] = ready[i]) \/ ready'[i] = w
    BY <1>2, <1>3, Appended
  <2>2. CASE i \in DOMAIN ready /\ ready'[i] = ready[i]
    BY <1>2, <1>5, <2>2 DEF CallsInv, ReadyInv, IsReset, WillBeReset
  <2>3. CASE ready'[i] = w
    BY <1>5, <2>3
  <2> QED
    BY <2>1, <2>2, <2>3
<1> QED
  BY <1>2, <1>4, <1>5, <1>6 DEF CallsInv, WaitingInv, CallInv, IsReset

\* A promise settles.
LEMMA CompleteKeeps ==
  ASSUME TypeInv, CallsInv, NEW c \in Calls, Complete(c)
  PROVE  CallTypes' /\ QueueTypes' /\ CallsInv'
<1>1. /\ ready # <<>> /\ Head(ready).task = c /\ ready' = Tail(ready)
      /\ call' = [call EXCEPT ![c].stage = "settled"]
      /\ UNCHANGED <<kind, held, waiting, working>>
  BY DEF Complete, Settled, jsVars
<1>2. /\ Tail(ready) \in Seq(PoolWorks) /\ Head(ready) = ready[1] /\ 1 \in DOMAIN ready
      /\ \A i \in DOMAIN Tail(ready) : i + 1 \in DOMAIN ready /\ Tail(ready)[i] = ready[i + 1]
  BY <1>1, HeadAndTail DEF TypeInv, QueueTypes
<1>3. QueueTypes'
  BY <1>1, <1>2 DEF TypeInv, QueueTypes
<1>4. c # None
  BY JsCallsAssumption
<1>5. call[c].stage \in {"answered", "settled"} /\ IsReset(c)
  BY <1>1, <1>2, <1>4 DEF CallsInv, ReadyInv
<1>6. /\ CallTypes' /\ \A d \in Calls \ {c} : call'[d] = call[d]
      /\ call'[c].stage = "settled" /\ call'[c].method = call[c].method
      /\ call'[c].result = call[c].result /\ call'[c].done = call[c].done
      /\ call'[c].late = call[c].late
  <2> DEFINE new == [call[c] EXCEPT !.stage = "settled"]
  <2>1. call \in [Calls -> CallRecord] /\ call[c] \in CallRecord /\ "settled" \in Stages
    BY DEF TypeInv, CallTypes, Stages
  <2>2. /\ new \in CallRecord /\ new.stage = "settled" /\ new.method = call[c].method
        /\ new.result = call[c].result /\ new.done = call[c].done /\ new.late = call[c].late
    BY <2>1 DEF CallRecord
  <2>3. call' = [call EXCEPT ![c] = new]
    BY <1>1, <2>1
  <2>4. /\ call' \in [Calls -> CallRecord] /\ call'[c] = new
        /\ \A d \in Calls \ {c} : call'[d] = call[d]
    BY <2>1, <2>2, <2>3
  <2> QED
    BY <2>2, <2>4 DEF CallTypes
<1>7. ASSUME NEW d \in Calls PROVE CallInv(d)'
  BY <1>1, <1>5, <1>6 DEF CallsInv, CallInv, IsReset
<1>8. WaitingInv'
  <2>1. ASSUME NEW i \in DOMAIN waiting, waiting[i].task # None
        PROVE  call'[waiting[i].task].stage = "queued"
    BY <1>5, <1>6, TasksAreCalls, <2>1 DEF CallsInv, WaitingInv
  <2> QED
    BY <1>1, <2>1 DEF CallsInv, WaitingInv
<1>9. ReadyInv'
  <2> SUFFICES ASSUME NEW i \in DOMAIN ready', ready'[i].task # None
               PROVE  /\ call'[ready'[i].task].stage \in {"answered", "settled"}
                      /\ WillBeReset(ready'[i].task)
    BY DEF ReadyInv, IsReset, WillBeReset
  <2>1. i + 1 \in DOMAIN ready /\ ready'[i] = ready[i + 1]
    BY <1>1, <1>2
  <2>2. ready'[i].task \in Calls
    BY <2>1, TasksAreCalls
  <2>3. call[ready'[i].task].stage \in {"answered", "settled"} /\ IsReset(ready'[i].task)
    BY <2>1 DEF CallsInv, ReadyInv, IsReset, WillBeReset
  <2>4. CASE ready'[i].task = c
    BY <1>1, <1>5, <1>6, <2>4 DEF IsReset, WillBeReset
  <2>5. CASE ready'[i].task # c
    BY <1>1, <1>6, <2>2, <2>3, <2>5 DEF IsReset, WillBeReset
  <2> QED
    BY <2>4, <2>5
<1> QED
  BY <1>3, <1>6, <1>7, <1>8, <1>9 DEF CallsInv

LEMMA CallsAreMade ==
  ASSUME NEW c \in Calls, StreamCall(c) \/ MirrorCall(c) \/ SessionCall(c)
  PROVE  \E m \in Methods, valid \in BOOLEAN : Enqueue(c, m, valid)
<1>1. CASE StreamCall(c)
  <2>1. \E m \in Methods : Parsed(c, m) \/ Plain(c, m)
    BY <1>1
       DEF StreamCall, SetSurface, Load, Start, Play, Pause, Stop, Next_, Previous, Seek,
           FastForward, FastRewind, SetVolume, SetLoopMode, SetSpeed, SetMute, GetPlayerStatus,
           GetPosition, GetDownloadRate, GetVolume, GetMute, GetLoopMode, GetPlaySpeed,
           GetMediaInfoHolder, Release, Methods
  <2> QED
    BY <2>1 DEF Parsed, Plain
<1>2. CASE MirrorCall(c)
  <2>1. \E m \in Methods : Parsed(c, m) \/ Plain(c, m)
    BY <1>2
       DEF MirrorCall, MirrorPlay, MirrorPause, MirrorSetSurface, SetAppInfo, MirrorRelease,
           ResizeVirtualScreen, SetCastRoute, GetScreenshot, Methods
  <2> QED
    BY <2>1 DEF Parsed, Plain
<1>3. CASE SessionCall(c)
  <2>1. \E m \in Methods : Parsed(c, m) \/ Plain(c, m)
    BY <1>3
       DEF SessionCall, AddDevice, RemoveDevice, GetSessionId, SetSessionProperty,
           CreateMirrorPlayer, CreateStreamPlayer, SetCastMode, SessionRelease,
           GetRemoteDeviceInfo, Methods
  <2> QED
    BY <2>1 DEF Parsed, Plain
<1> QED
  BY <1>1, <1>2, <1>3

\* An event becomes a work for each of its callbacks.
LEMMA HandleEventKeeps ==
  ASSUME TypeInv, CallsInv, FunctionInv, HandleEvent
  PROVE  QueueTypes' /\ CallsInv' /\ owed' \subseteq Watched \X Functions
<1>1. PICK to, e : e = sending /\ to = IF e \in NapiListener[kind] THEN Subscribers(e) ELSE {}
  OBVIOUS
<1>2. /\ UNCHANGED <<kind, held, call, working, ready>>
      /\ owed' = owed \cup {<<e, function[r]>> : r \in to}
  BY <1>1 DEF HandleEvent, jsVars
<1>3. PICK order \in SetToSeqs(to) : waiting' = waiting \o [i \in DOMAIN order |-> WorkOf(e, order[i])]
  BY <1>1 DEF HandleEvent
<1>4. to # {} => e \in Watched /\ to = callbacks[e]
  BY <1>1 DEF Subscribers
<1>5. to \in SUBSET Refs
  BY <1>4 DEF TypeInv, CallbackTypes
<1>6. Cardinality(to) \in Nat
  BY <1>5, JsCallsAssumption, FS_Subset, FS_CardinalityType
<1>7. DOMAIN order = 1..Cardinality(to) /\ \A i \in DOMAIN order : order[i] \in to
  BY DEF SetToSeqs
<1>8. PICK new : new = [i \in DOMAIN order |-> WorkOf(e, order[i])]
  OBVIOUS
<1>9. \A i \in DOMAIN order : WorkOf(e, order[i]) \in PoolWorks
  BY <1>4, <1>5, <1>7 DEF WorkOf, PoolWorks
<1>10. new \in Seq(PoolWorks) /\ DOMAIN new = DOMAIN order
  BY <1>6, <1>7, <1>8, <1>9
<1>11. \A i \in DOMAIN new : new[i].task = None
  BY <1>8, <1>10 DEF WorkOf
<1>12. waiting' \in Seq(PoolWorks) /\ waiting' = waiting \o new /\ waiting \in Seq(PoolWorks)
  BY <1>3, <1>8, <1>10 DEF TypeInv, QueueTypes
<1>13. \A i \in DOMAIN waiting' :
         \/ i \in DOMAIN waiting /\ waiting'[i] = waiting[i]
         \/ waiting'[i].task = None
  <2>1. ASSUME NEW i \in DOMAIN waiting', i \notin DOMAIN waiting
        PROVE  waiting'[i].task = None
    <3>1. i - Len(waiting) \in DOMAIN new /\ waiting'[i] = new[i - Len(waiting)]
      BY <1>10, <1>12, <2>1
    <3> QED
      BY <1>11, <3>1
  <2>2. ASSUME NEW i \in DOMAIN waiting', i \in DOMAIN waiting
        PROVE  waiting'[i] = waiting[i]
    BY <1>10, <1>12, <2>2
  <2> QED
    BY <2>1, <2>2
<1>14. WaitingInv'
  BY <1>2, <1>13 DEF CallsInv, WaitingInv
<1>15. owed' \subseteq Watched \X Functions
  <2>1. \A r \in to : e \in Watched /\ function[r] \in Functions
    BY <1>4, <1>5 DEF FunctionInv, TypeInv, CallbackTypes
  <2> QED
    BY <1>2, <2>1 DEF TypeInv, CallbackTypes
<1> QED
  BY <1>2, <1>12, <1>14, <1>15
     DEF CallsInv, CallInv, IsReset, ReadyInv, QueueTypes, TypeInv

-----------------------------------------------------------------------------
(* References                                                                *)

Subscribed(r) == {e \in Watched : r \in callbacks[e]}

LEMMA SubscribedFinite ==
  ASSUME NEW r
  PROVE  /\ IsFiniteSet(Subscribed(r)) /\ Cardinality(Subscribed(r)) \in Nat
         /\ (Cardinality(Subscribed(r)) = 0) = (Subscribed(r) = {})
<1>1. Subscribed(r) \in SUBSET Watched
  BY DEF Subscribed
<1> QED
  BY <1>1, JsCallsAssumption, FS_Subset, FS_CardinalityType, FS_EmptySet

\* How often a reference counts as held.
Counted(r) == Cardinality(Subscribed(r)) + (IF delivering = r THEN 1 ELSE 0)

LEMMA Counts ==
  RefCountsAgree = \A r \in Refs : refs[r] = Counted(r)
  BY DEF RefCountsAgree, Counted, Subscribed

LEMMA AddCallbackKeeps ==
  ASSUME TypeInv, FunctionInv, RefCountsAgree, NEW e \in Watched, NEW f \in Functions,
         AddCallback(e, f)
  PROVE  CallbackTypes' /\ FunctionInv' /\ RefCountsAgree'
<1>1. CASE UNCHANGED callbackVars
  BY <1>1 DEF callbackVars, TypeInv, CallbackTypes, FunctionInv, RefCountsAgree
<1>2. ASSUME NEW r \in Refs, refs[r] = 0, adds < MaxAdds,
             refs' = [refs EXCEPT ![r] = 1],
             function' = [function EXCEPT ![r] = f],
             callbacks' = [callbacks EXCEPT ![e] = @ \cup {r}],
             adds' = adds + 1, UNCHANGED <<delivering, owed>>
      PROVE  CallbackTypes' /\ FunctionInv' /\ RefCountsAgree'
  <2>1. CallbackTypes'
    BY <1>2, JsCallsAssumption DEF TypeInv, CallbackTypes
  <2>2. Subscribed(r) = {} /\ delivering # r
    <3>1. refs[r] = Counted(r)
    BY Counts
  <3>2. Cardinality(Subscribed(r)) \in Nat
    BY SubscribedFinite
  <3>3. Cardinality(Subscribed(r)) = 0 /\ delivering # r
    BY <1>2, <3>1, <3>2 DEF Counted
  <3> QED
    BY <3>3, SubscribedFinite
  <2>3. f # None
    BY JsCallsAssumption
  <2>4. FunctionInv'
    BY <1>2, <2>2, <2>3 DEF FunctionInv, Subscribed, TypeInv, CallbackTypes
  <2>5. Subscribed(r)' = {e} /\ \A q \in Refs \ {r} : Subscribed(q)' = Subscribed(q)
    BY <1>2, <2>2 DEF Subscribed, TypeInv, CallbackTypes
  <2>6. Cardinality({e}) = 1
    BY FS_Singleton
  <2>7. ASSUME NEW q \in Refs
        PROVE  refs'[q] = Cardinality(Subscribed(q)') + (IF delivering' = q THEN 1 ELSE 0)
    <3>1. CASE q = r
      <4>1. refs'[r] = 1 /\ delivering' # r
        BY <1>2, <2>2 DEF TypeInv, CallbackTypes
      <4>2. Cardinality(Subscribed(r)') = 1
        BY <2>5, <2>6
      <4> QED
        BY <3>1, <4>1, <4>2
    <3>2. CASE q # r
      BY <1>2, <2>5, <3>2 DEF TypeInv, CallbackTypes, RefCountsAgree, Subscribed
    <3> QED
      BY <3>1, <3>2
  <2> QED
    BY <2>1, <2>4, <2>7 DEF RefCountsAgree, Subscribed
<1> QED
  BY <1>1, <1>2 DEF AddCallback

LEMMA RemoveCallbackKeeps ==
  ASSUME TypeInv, FunctionInv, RefCountsAgree, NEW e \in Watched, NEW f \in Functions,
         RemoveCallback(e, f)
  PROVE  CallbackTypes' /\ FunctionInv' /\ RefCountsAgree'
<1>1. /\ UNCHANGED <<function, delivering, adds>> /\ owed' \subseteq owed
  BY DEF RemoveCallback
<1>2. CASE UNCHANGED <<callbacks, refs>>
  BY <1>1, <1>2 DEF TypeInv, CallbackTypes, FunctionInv, RefCountsAgree
<1>3. ASSUME NEW r \in RefOf(e, f), callbacks' = [callbacks EXCEPT ![e] = @ \ {r}],
             refs' = ReleaseRef(r)
      PROVE  CallbackTypes' /\ FunctionInv' /\ RefCountsAgree'
  <2>1. r \in Refs /\ e \in Subscribed(r)
    BY DEF RefOf, Subscribed, TypeInv, CallbackTypes
  <2>2. /\ Subscribed(r)' = Subscribed(r) \ {e}
        /\ \A q \in Refs \ {r} : Subscribed(q)' = Subscribed(q)
    BY <1>3 DEF Subscribed, TypeInv, CallbackTypes
  <2>3. /\ Cardinality(Subscribed(r)) \in Nat \ {0}
        /\ Cardinality(Subscribed(r)') = Cardinality(Subscribed(r)) - 1
    BY <2>1, <2>2, SubscribedFinite, FS_RemoveElement
  <2>4. refs[r] = Counted(r) /\ refs[r] \in Nat \ {0}
    <3>1. refs[r] = Counted(r)
      BY <2>1, Counts
    <3> QED
      BY <2>3, <3>1 DEF Counted
  <2>5. refs' = [refs EXCEPT ![r] = @ - 1]
    BY <1>3 DEF ReleaseRef
  <2>6. CallbackTypes'
    BY <1>1, <1>3, <2>1, <2>4, <2>5 DEF TypeInv, CallbackTypes
  <2>7. FunctionInv'
    BY <1>1, <1>3 DEF FunctionInv, TypeInv, CallbackTypes
  <2>8. ASSUME NEW q \in Refs
        PROVE  refs'[q] = Cardinality(Subscribed(q)') + (IF delivering' = q THEN 1 ELSE 0)
    <3>1. CASE q = r
      BY <1>1, <2>1, <2>3, <2>4, <2>5, <3>1 DEF TypeInv, CallbackTypes, Counted
    <3>2. CASE q # r
      BY <1>1, <2>2, <2>5, <3>2 DEF TypeInv, CallbackTypes, RefCountsAgree, Subscribed
    <3> QED
      BY <3>1, <3>2
  <2> QED
    BY <2>6, <2>7, <2>8 DEF RefCountsAgree, Subscribed
<1>4. RefOf(e, f) # {} => (CHOOSE r \in RefOf(e, f) : TRUE) \in RefOf(e, f)
  OBVIOUS
<1> QED
  BY <1>2, <1>3, <1>4 DEF RemoveCallback

\* A function is about to be called, or has returned.
LEMMA DeliveryKeeps ==
  ASSUME TypeInv, FunctionInv, RefCountsAgree, AfterWorkCallback \/ CallbackReturns
  PROVE  CallbackTypes' /\ FunctionInv' /\ RefCountsAgree'
<1>1. UNCHANGED <<callbacks, function, adds>> /\ owed' \subseteq owed
  BY DEF AfterWorkCallback, CallbackReturns
<1>2. CASE UNCHANGED <<refs, delivering>>
  BY <1>1, <1>2 DEF TypeInv, CallbackTypes, FunctionInv, RefCountsAgree
<1>3. ASSUME NEW r \in Refs, delivering = None, refs' = [refs EXCEPT ![r] = @ + 1],
             delivering' = r
      PROVE  CallbackTypes' /\ FunctionInv' /\ RefCountsAgree'
  <2>1. CallbackTypes' /\ FunctionInv'
    BY <1>1, <1>3 DEF TypeInv, CallbackTypes, FunctionInv
  <2>2. ASSUME NEW q \in Refs
        PROVE  refs'[q] = Cardinality(Subscribed(q)) + (IF delivering' = q THEN 1 ELSE 0)
    <3>1. refs[q] = Counted(q) /\ q # None
      BY Counts, JsCallsAssumption
    <3>2. Cardinality(Subscribed(q)) \in Nat
      BY SubscribedFinite
    <3>3. refs[q] = Cardinality(Subscribed(q))
      BY <1>3, <3>1, <3>2 DEF Counted
    <3>4. refs'[q] = IF q = r THEN refs[q] + 1 ELSE refs[q]
      BY <1>3 DEF TypeInv, CallbackTypes
    <3> QED
      BY <1>3, <3>2, <3>3, <3>4
  <2> QED
    BY <1>1, <2>1, <2>2 DEF RefCountsAgree, Subscribed
<1>4. ASSUME delivering # None, refs' = ReleaseRef(delivering), delivering' = None
      PROVE  CallbackTypes' /\ FunctionInv' /\ RefCountsAgree'
  <2>1. delivering \in Refs
    BY <1>4 DEF TypeInv, CallbackTypes
  <2>2. refs' = [refs EXCEPT ![delivering] = @ - 1]
    BY <1>4 DEF ReleaseRef
  <2>3. ASSUME NEW q \in Refs
        PROVE  /\ refs'[q] \in Nat
               /\ refs'[q] = Cardinality(Subscribed(q)) + (IF delivering' = q THEN 1 ELSE 0)
    <3>1. refs[q] = Counted(q) /\ q # None
      BY Counts, JsCallsAssumption
    <3>2. Cardinality(Subscribed(q)) \in Nat
      BY SubscribedFinite
    <3>3. refs[q] = Cardinality(Subscribed(q)) + (IF delivering = q THEN 1 ELSE 0)
      BY <3>1 DEF Counted
    <3>4. refs'[q] = IF q = delivering THEN refs[q] - 1 ELSE refs[q]
      BY <2>2 DEF TypeInv, CallbackTypes
    <3> QED
      BY <1>4, <3>1, <3>2, <3>3, <3>4
  <2>4. CallbackTypes' /\ FunctionInv'
    BY <1>1, <1>4, <2>2, <2>3 DEF TypeInv, CallbackTypes, FunctionInv
  <2> QED
    BY <1>1, <2>3, <2>4 DEF RefCountsAgree, Subscribed
<1>5. CASE AfterWorkCallback
  <2>1. PICK e, r : /\ e = Head(ready).event /\ r = Head(ready).ref
                    /\ delivering = None
                    /\ IF IsCallbackValid(e, r)
                       THEN refs' = Held(r) /\ delivering' = r
                       ELSE UNCHANGED <<refs, delivering>>
    BY <1>5 DEF AfterWorkCallback
  <2>2. Head(ready) \in PoolWorks /\ Head(ready).task = None
    BY <1>5, HeadAndTail DEF AfterWorkCallback, TypeInv, QueueTypes
  <2>3. r \in Refs
    BY <2>1, <2>2, JsCallsAssumption DEF PoolWorks
  <2> QED
    BY <1>2, <1>3, <2>1, <2>3 DEF Held
<1>6. CASE CallbackReturns
  BY <1>4, <1>6 DEF CallbackReturns
<1> QED
  BY <1>5, <1>6

-----------------------------------------------------------------------------
(* The inductive invariant                                                   *)

LEMMA InitEstablishes == ASSUME Init PROVE IInv
<1>1. TypeInv
  <2>1. CallTypes
    BY DEF Init, CallTypes, CallRecord, Stages, Unmade
  <2>2. QueueTypes
    BY DEF Init, QueueTypes
  <2>3. ObjectTypes /\ ServiceTypes
    <3>1. 0 \in 0..MaxEvents
      BY JsCallsAssumption
    <3> QED
      BY <3>1 DEF Init, ObjectTypes, ServiceTypes
  <2>4. CallbackTypes
    BY JsCallsAssumption DEF Init, CallbackTypes
  <2> QED
    BY <2>1, <2>2, <2>3, <2>4 DEF TypeInv
<1>2. CallsInv
  <2>1. \A c \in Calls : call[c] = Unmade
    BY DEF Init
  <2>2. None # "SUCCESS"
    BY JsCallsAssumption DEF Results
  <2> QED
    BY <2>1, <2>2 DEF Init, CallsInv, WaitingInv, ReadyInv, CallInv, Unmade
<1>3. FunctionInv /\ AskingInv
  BY DEF Init, FunctionInv, AskingInv
<1>4. RefCountsAgree
  <2>1. \A r \in Refs : {e \in Watched : r \in callbacks[e]} = {}
    BY DEF Init
  <2>2. delivering = None /\ \A r \in Refs : refs[r] = 0 /\ r # None
    BY JsCallsAssumption DEF Init
  <2> QED
    BY <2>1, <2>2, FS_EmptySet DEF RefCountsAgree
<1> QED
  BY <1>1, <1>2, <1>3, <1>4 DEF IInv, RefsInv

\* What a step leaves alone.
LEMMA CallbacksRest ==
  ASSUME IInv, UNCHANGED callbackVars
  PROVE  CallbackTypes' /\ FunctionInv' /\ RefCountsAgree'
  BY DEF IInv, TypeInv, RefsInv, CallbackTypes, FunctionInv, RefCountsAgree, callbackVars

LEMMA CallsRest ==
  ASSUME IInv, Resting, UNCHANGED working
  PROVE  CallTypes' /\ QueueTypes' /\ CallsInv'
  BY RestingKeeps DEF IInv, TypeInv, CallTypes, QueueTypes, Resting

LEMMA ObjectRests ==
  ASSUME IInv, UNCHANGED <<kind, jsVars>>
  PROVE  ObjectTypes' /\ (adds' = adds => AskingInv')
  BY DEF IInv, TypeInv, RefsInv, ObjectTypes, AskingInv, jsVars

LEMMA ServiceRests ==
  ASSUME IInv, UNCHANGED <<serviceVars, eventVars>>
  PROVE  ServiceTypes'
  BY DEF IInv, TypeInv, ServiceTypes, serviceVars, eventVars

\* Every action of the pool and of the page's calls.
LEMMA PoolStep ==
  ASSUME IInv,
         \/ \E c \in Calls : StreamCall(c) \/ MirrorCall(c) \/ SessionCall(c) \/ Complete(c)
         \/ Pool
  PROVE  IInv'
<1> USE DEF IInv, TypeInv, RefsInv
<1>1. ASSUME NEW c \in Calls, StreamCall(c) \/ MirrorCall(c) \/ SessionCall(c)
      PROVE  IInv'
  <2>1. PICK m \in Methods, valid \in BOOLEAN : Enqueue(c, m, valid)
    BY <1>1, CallsAreMade
  <2>2. CallTypes' /\ QueueTypes' /\ CallsInv'
    BY <2>1, EnqueueKeeps
  <2>3. UNCHANGED <<kind, jsVars, serviceVars, eventVars, callbackVars>> /\ adds' = adds
    BY <2>1 DEF Enqueue, callbackVars
  <2> QED
    BY <2>2, <2>3, CallbacksRest, ObjectRests, ServiceRests
<1>2. ASSUME NEW c \in Calls, Complete(c) PROVE IInv'
  <2>1. UNCHANGED <<kind, jsVars, serviceVars, eventVars, callbackVars>> /\ adds' = adds
    BY <1>2 DEF Complete, callbackVars
  <2> QED
    BY <1>2, <2>1, CompleteKeeps, CallbacksRest, ObjectRests, ServiceRests
<1>3. ASSUME NEW t \in Threads, Take(t) PROVE IInv'
  <2>1. UNCHANGED <<kind, jsVars, serviceVars, eventVars, callbackVars>> /\ adds' = adds
    BY <1>3 DEF Take, callbackVars
  <2> QED
    BY <1>3, <2>1, TakeKeeps, CallbacksRest, ObjectRests, ServiceRests
<1>4. ASSUME NEW t \in Threads, Finish(t) PROVE IInv'
  <2>1. UNCHANGED <<kind, asking, call, serviceVars, eventVars, callbackVars, adds>>
    BY <1>4 DEF Finish, callbackVars
  <2>2. QueueTypes' /\ CallsInv' /\ held' \in BOOLEAN /\ listener' \in BOOLEAN
    BY <1>4, FinishKeeps
  <2>3. CallTypes' /\ ObjectTypes' /\ AskingInv'
    BY <2>1, <2>2 DEF CallTypes, ObjectTypes, AskingInv
  <2> QED
    BY <2>1, <2>2, <2>3, CallbacksRest, ServiceRests
<1> QED
  BY <1>1, <1>2, <1>3, <1>4 DEF Pool

\* Every action of the service.
LEMMA ServiceStep ==
  ASSUME IInv,
         \/ \E c \in Calls : Serve(c)
         \/ SessionEnds \/ ServiceDies \/ \E e \in Emitted : Emit(e)
  PROVE  IInv'
<1> USE DEF IInv, TypeInv, RefsInv
<1>1. ASSUME NEW c \in Calls, Serve(c) PROVE IInv'
  <2>1. /\ Goes(c)
        /\ UNCHANGED <<kind, jsVars, poolVars, served, eventVars, callbackVars>>
        /\ impl' \in BOOLEAN /\ target' \in BOOLEAN /\ heard' \in BOOLEAN
    BY <1>1, ServeGoes
  <2>2. CallTypes' /\ CallsInv' /\ QueueTypes'
    BY <2>1, ServiceKeeps DEF Goes, jsVars, poolVars, QueueTypes
  <2>3. ServiceTypes' /\ adds' = adds
    BY <2>1 DEF ServiceTypes, eventVars, callbackVars
  <2> QED
    BY <2>1, <2>2, <2>3, CallbacksRest, ObjectRests
<1>2. CASE ServiceDies
  <2>1. UNCHANGED <<kind, jsVars, poolVars, impl, target, heard, eventVars, callbackVars>>
    BY <1>2 DEF ServiceDies
  <2>2. CallTypes' /\ CallsInv' /\ QueueTypes'
    BY <1>2, <2>1, ServiceDiesGoes, ServiceKeeps DEF jsVars, poolVars, QueueTypes
  <2>3. ServiceTypes' /\ adds' = adds
    BY <1>2, <2>1 DEF ServiceDies, ServiceTypes, eventVars, callbackVars
  <2> QED
    BY <2>1, <2>2, <2>3, CallbacksRest, ObjectRests
<1>3. CASE SessionEnds
  <2>1. /\ UNCHANGED <<kind, jsVars, call, poolVars, impl, heard, served, eventVars, callbackVars>>
        /\ target' = FALSE /\ adds' = adds
    BY <1>3 DEF SessionEnds, callbackVars
  <2>2. ServiceTypes' /\ Resting /\ UNCHANGED working
    BY <2>1 DEF ServiceTypes, eventVars, Resting, jsVars, poolVars
  <2> QED
    BY <2>1, <2>2, CallbacksRest, CallsRest, ObjectRests
<1>4. ASSUME NEW e \in Emitted, Emit(e) PROVE IInv'
  <2>1. /\ UNCHANGED <<kind, jsVars, call, poolVars, serviceVars, callbackVars>>
        /\ sending' = e /\ events' = events + 1 /\ events < MaxEvents /\ adds' = adds
    BY <1>4 DEF Emit, callbackVars
  <2>2. ServiceTypes' /\ Resting /\ UNCHANGED working
    BY <2>1, JsCallsAssumption DEF ServiceTypes, serviceVars, Resting, jsVars, poolVars
  <2> QED
    BY <2>1, <2>2, CallbacksRest, CallsRest, ObjectRests
<1> QED
  BY <1>1, <1>2, <1>3, <1>4

\* Every action of a subscription, and of an event on its way to it.
LEMMA SubscriptionStep ==
  ASSUME IInv,
         \/ RegisterListener \/ RegisterNativeListener \/ HandleEvent
         \/ AfterWorkCallback \/ CallbackReturns
         \/ \E e \in Watched, f \in Functions : On(e, f) \/ Off(e, f)
  PROVE  IInv'
<1> USE DEF IInv, TypeInv, RefsInv
<1>1. None \notin {"SUCCESS", "ERROR"}
  BY JsCallsAssumption DEF Results
<1>2. CASE RegisterListener
  <2>1. /\ UNCHANGED <<kind, held, listener, call, poolVars, impl, target, served, eventVars,
                       callbackVars, adds>>
        /\ heard' \in BOOLEAN /\ asking # None
        /\ \E a \in {"SUCCESS", "ERROR"} : asking' = [asking EXCEPT !.answer = a]
    BY <1>2 DEF RegisterListener, callbackVars, ServiceTypes
  <2>2. ServiceTypes' /\ Resting /\ UNCHANGED working
    BY <2>1 DEF ServiceTypes, eventVars, Resting, poolVars
  <2>3. ObjectTypes' /\ AskingInv'
    BY <2>1 DEF ObjectTypes, AskingInv
  <2> QED
    BY <2>1, <2>2, <2>3, CallbacksRest, CallsRest
<1>3. CASE RegisterNativeListener
  <2>1. /\ UNCHANGED <<kind, held, call, poolVars, serviceVars, eventVars>>
        /\ asking' = None /\ asking # None /\ listener' \in BOOLEAN
        /\ asking.event \in Watched /\ asking.function \in Functions
        /\ adds < MaxAdds
    BY <1>3 DEF RegisterNativeListener, ObjectTypes, AskingInv
  <2>2. \/ AddCallback(asking.event, asking.function)
        \/ adds' = adds + 1 /\ UNCHANGED <<callbacks, refs, function, delivering, owed>>
    BY <1>3 DEF RegisterNativeListener
  <2>3. ASSUME adds' = adds + 1, UNCHANGED <<callbacks, refs, function, delivering, owed>>
        PROVE  CallbackTypes' /\ FunctionInv' /\ RefCountsAgree'
    BY <2>1, <2>3, JsCallsAssumption DEF CallbackTypes, FunctionInv, RefCountsAgree
  <2>4. CallbackTypes' /\ FunctionInv' /\ RefCountsAgree'
    BY <2>1, <2>2, <2>3, AddCallbackKeeps
  <2>5. ObjectTypes' /\ AskingInv' /\ Resting /\ UNCHANGED working
    BY <2>1 DEF ObjectTypes, AskingInv, Resting, poolVars
  <2> QED
    BY <2>1, <2>4, <2>5, CallsRest, ServiceRests
<1>4. CASE HandleEvent
  <2>1. /\ UNCHANGED <<kind, jsVars, call, serviceVars, events, callbacks, refs, function,
                       delivering, adds>>
        /\ sending' = None
    BY <1>4 DEF HandleEvent
  <2>2. QueueTypes' /\ CallsInv' /\ owed' \subseteq Watched \X Functions
    BY <1>4, HandleEventKeeps
  <2>3. CallTypes' /\ ServiceTypes' /\ CallbackTypes' /\ FunctionInv' /\ RefCountsAgree'
    BY <2>1, <2>2
       DEF CallTypes, ServiceTypes, serviceVars, CallbackTypes, FunctionInv, RefCountsAgree
  <2> QED
    BY <2>1, <2>2, <2>3, ObjectRests
<1>5. CASE AfterWorkCallback
  <2>1. /\ UNCHANGED <<kind, jsVars, call, waiting, working, serviceVars, eventVars, adds>>
        /\ ready # <<>> /\ ready' = Tail(ready)
    BY <1>5 DEF AfterWorkCallback
  <2>2. /\ Tail(ready) \in Seq(PoolWorks)
        /\ \A i \in DOMAIN Tail(ready) : i + 1 \in DOMAIN ready /\ Tail(ready)[i] = ready[i + 1]
    BY <2>1, HeadAndTail DEF QueueTypes
  <2>3. CallTypes' /\ QueueTypes'
    BY <2>1, <2>2 DEF CallTypes, QueueTypes
  <2>4. CallsInv'
    BY <2>1, <2>2 DEF CallsInv, WaitingInv, ReadyInv, CallInv, IsReset, jsVars
  <2> QED
    BY <1>5, <2>1, <2>3, <2>4, DeliveryKeeps, ObjectRests, ServiceRests
<1>6. CASE CallbackReturns
  <2>1. UNCHANGED <<kind, jsVars, call, poolVars, serviceVars, eventVars, adds>>
    BY <1>6 DEF CallbackReturns
  <2>2. Resting /\ UNCHANGED working
    BY <2>1 DEF Resting, jsVars, poolVars
  <2> QED
    BY <1>6, <2>1, <2>2, DeliveryKeeps, CallsRest, ObjectRests, ServiceRests
<1>7. ASSUME NEW e \in Watched, NEW f \in Functions, On(e, f) PROVE IInv'
  <2>1. /\ UNCHANGED <<kind, held, listener, call, poolVars, serviceVars, eventVars>>
        /\ asking = None
    BY <1>7 DEF On, JsFree
  <2>2. Resting /\ UNCHANGED working
    BY <2>1 DEF Resting, poolVars
  <2>3. CASE AddCallback(e, f) /\ UNCHANGED asking
    <3>1. ObjectTypes' /\ AskingInv'
      BY <2>1, <2>3 DEF ObjectTypes, AskingInv
    <3> QED
      BY <2>1, <2>2, <2>3, <3>1, AddCallbackKeeps, CallsRest, ServiceRests
  <2>4. CASE /\ adds < MaxAdds /\ UNCHANGED callbackVars
             /\ asking' = [event |-> e, function |-> f, answer |-> None]
    <3>1. ObjectTypes' /\ AskingInv'
      BY <2>1, <2>4 DEF ObjectTypes, AskingInv, callbackVars
    <3> QED
      BY <2>1, <2>2, <2>4, <3>1, CallbacksRest, CallsRest, ServiceRests
  <2> QED
    BY <1>7, <2>3, <2>4 DEF On
<1>8. ASSUME NEW e \in Watched, NEW f \in Functions, Off(e, f) PROVE IInv'
  <2>1. /\ UNCHANGED <<kind, jsVars, call, poolVars, serviceVars, eventVars, adds>>
        /\ RemoveCallback(e, f)
    BY <1>8 DEF Off, RemoveCallback
  <2>2. Resting /\ UNCHANGED working
    BY <2>1 DEF Resting, jsVars, poolVars
  <2> QED
    BY <2>1, <2>2, RemoveCallbackKeeps, CallsRest, ObjectRests, ServiceRests
<1> QED
  BY <1>2, <1>3, <1>4, <1>5, <1>6, <1>7, <1>8

\* Only two steps of the JavaScript thread call a function, or see it return.
LEMMA WhoDelivers ==
  ASSUME [Next]_vars
  PROVE  UNCHANGED delivering \/ AfterWorkCallback \/ CallbackReturns
<1>1. CASE UNCHANGED vars
  BY <1>1 DEF vars, callbackVars
<1>2. ASSUME NEW c \in Calls, StreamCall(c) \/ MirrorCall(c) \/ SessionCall(c)
      PROVE  UNCHANGED delivering
  BY <1>2, CallsAreMade DEF Enqueue, callbackVars
<1>3. ASSUME NEW t \in Threads, Take(t) \/ Finish(t) PROVE UNCHANGED delivering
  BY <1>3 DEF Take, Finish, callbackVars
<1>4. ASSUME NEW c \in Calls, Serve(c) \/ Complete(c) PROVE UNCHANGED delivering
  BY <1>4 DEF Serve, OnRemoteRequest, Perform, PerformRelease, DestroyStreamPlayer,
              DropPlayerImpl, Complete, callbackVars
<1>5. CASE RegisterListener \/ RegisterNativeListener \/ HandleEvent \/ SessionEnds \/ ServiceDies
  BY <1>5
  DEF RegisterListener, RegisterNativeListener, AddCallback, HandleEvent, SessionEnds,
              ServiceDies, callbackVars
<1>6. ASSUME NEW e \in Watched, NEW f \in Functions, On(e, f) \/ Off(e, f)
      PROVE  UNCHANGED delivering
  BY <1>6 DEF On, Off, AddCallback, RemoveCallback, callbackVars
<1>7. ASSUME NEW e \in Emitted, Emit(e) PROVE UNCHANGED delivering
  BY <1>7 DEF Emit, callbackVars
<1> QED
  BY <1>1, <1>2, <1>3, <1>4, <1>5, <1>6, <1>7 DEF Next, Pool, Js

LEMMA StutterStep == ASSUME IInv, UNCHANGED vars PROVE IInv'
<1>1. /\ UNCHANGED <<kind, jsVars, serviceVars, eventVars, callbackVars, adds, working>>
      /\ Resting
  BY DEF vars, Resting, jsVars, poolVars, callbackVars
<1> QED
  BY <1>1, CallbacksRest, CallsRest, ObjectRests, ServiceRests DEF IInv, TypeInv, RefsInv

LEMMA Inductive == IInv /\ [Next]_vars => IInv'
  BY PoolStep, ServiceStep, SubscriptionStep, StutterStep DEF Next, Js

LEMMA Invariance == Spec => []IInv
  BY InitEstablishes, Inductive, PTL DEF Spec

-----------------------------------------------------------------------------
(* The theorems                                                              *)

LEMMA QueuesOfWorks ==
  ASSUME QueueTypes
  PROVE  /\ waiting \in Seq(Works) /\ ready \in Seq(Works)
         /\ working \in [Threads -> Works \cup {None}]
<1>1. PoolWorks \subseteq Works
  BY DEF PoolWorks, Works
<1>2. Seq(PoolWorks) \subseteq Seq(Works)
  <2> SUFFICES ASSUME NEW s \in Seq(PoolWorks) PROVE s \in Seq(Works)
    OBVIOUS
  <2>1. \A i \in 1 .. Len(s) : s[i] \in Works
    BY <1>1
  <2> QED
    BY <2>1, IsASeq
<1> QED
  BY <1>1, <1>2 DEF QueueTypes

\* Whatever is called, subscribed to, released or dies: every variable keeps its
\* type, and no reference count is ever negative.
THEOREM JsCallsTypeCorrect == Spec => []TypeOK
<1>1. IInv => TypeOK
  BY QueuesOfWorks
     DEF IInv, TypeInv, CallTypes, CallRecord, ObjectTypes, ServiceTypes, CallbackTypes,
         TypeOK
<1> QED
  BY <1>1, Invariance, PTL

\* For any calls on any threads of the pool: a promise resolves only when the
\* service did what was asked (or the client library alone answers), and once a
\* release has resolved, no later call reaches the service or resolves.
THEOREM ResolvedIsDone == Spec => []ResolvedWasDone
<1>1. IInv => ResolvedWasDone
  BY DEF IInv, CallsInv, CallInv, ResolvedWasDone
<1> QED
  BY <1>1, Invariance, PTL

\* For any functions, events and references: a reference counts one for each
\* event it is subscribed to and one while its function runs, so that it is
\* neither deleted in use nor leaked (napi_callback.cpp).
THEOREM ReferencesCounted == Spec => []RefCountsAgree
<1>1. IInv => RefCountsAgree
  BY DEF IInv, RefsInv
<1> QED
  BY <1>1, Invariance, PTL

\* However on() and off() come between an event and its work, and addresses are
\* used again: only what is subscribed to the event at that moment is called.
THEOREM SubscribersCalled == Spec => OnlySubscribersCalled
<1> DEFINE CalledIsSubscribed ==
      delivering' # None /\ delivering = None
        => /\ delivering' \in callbacks[Head(ready).event]
           /\ function[delivering'] # None
<1>1. ASSUME IInv, [Next]_vars PROVE CalledIsSubscribed
  <2>1. CASE UNCHANGED delivering
    BY <2>1
  <2>2. CASE CallbackReturns
    BY <2>2 DEF CallbackReturns
  <2>3. CASE AfterWorkCallback
    <3>1. Head(ready) \in PoolWorks /\ Head(ready).task = None
      BY <1>1, <2>3, HeadAndTail DEF AfterWorkCallback, IInv, TypeInv, QueueTypes
    <3>2. Head(ready).event \in Watched
      BY <3>1, JsCallsAssumption DEF PoolWorks
    <3>3. PICK e, r : /\ e = Head(ready).event /\ r = Head(ready).ref
                      /\ IF IsCallbackValid(e, r) THEN delivering' = r ELSE UNCHANGED delivering
      BY <2>3 DEF AfterWorkCallback
    <3> QED
      BY <1>1, <3>2, <3>3 DEF IsCallbackValid, IInv, RefsInv, FunctionInv
  <2> QED
    BY <1>1, <2>1, <2>2, <2>3, WhoDelivers
<1> QED
  BY <1>1, Invariance, PTL DEF Spec, OnlySubscribersCalled
==============================================================================
