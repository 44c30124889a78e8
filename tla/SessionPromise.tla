--------------------------- MODULE SessionPromise ---------------------------
(***************************************************************************)
(* What the rest of the service relies on a session for, with nothing of   *)
(* its states, messages, devices and threads: its connection is down, being *)
(* tried or up; the RTSP engine runs for a connection, never without one;  *)
(* an error that is reported meanwhile ends it; an attempt is timed, and   *)
(* what is established is not ended by that.                               *)
(***************************************************************************)

VARIABLES
  phase,    \* of the connection: down, trying or up
  engine,   \* the RTSP engine runs
  error,    \* an error was reported and has not been dealt with
  clock,    \* a timeout is to come
  leaving,  \* the session is being stopped
  gone      \* it has stopped, and changes no more

vars == <<phase, engine, error, clock, leaving, gone>>

Init ==
  /\ phase = "down" /\ engine = FALSE /\ error = FALSE /\ clock = FALSE
  /\ leaving = FALSE /\ gone = FALSE

\* Errors are reported at any time, by any thread.
Report ==
  /\ error' = TRUE
  /\ UNCHANGED <<phase, engine, clock, leaving, gone>>

\* They mean nothing to a session without a connection ...
Disregard ==
  /\ ~gone /\ phase = "down"
  /\ error' = FALSE
  /\ UNCHANGED <<phase, engine, clock, leaving, gone>>

\* ... and with one they wait until it is over.
End ==
  /\ ~gone /\ phase # "down"
  /\ phase' = "down"
  /\ engine' = FALSE
  /\ error' \in BOOLEAN
  /\ clock' \in {clock, FALSE}
  /\ UNCHANGED <<leaving, gone>>

\* An attempt is timed from its beginning, and finds no engine running.
Attempt ==
  /\ ~gone /\ phase = "down" /\ ~engine
  /\ phase' = "trying"
  /\ engine' = TRUE
  /\ clock' = TRUE
  /\ UNCHANGED <<error, leaving, gone>>

Establish ==
  /\ ~gone /\ phase = "trying"
  /\ phase' = "up"
  /\ clock' = FALSE
  /\ UNCHANGED <<engine, error, leaving, gone>>

\* A timeout stops the engine, which tells; one of an earlier attempt as well.
TimeOut ==
  /\ ~gone /\ phase # "up" /\ clock
  /\ engine' = FALSE
  /\ error' \in {error, TRUE} /\ (engine => error')
  /\ clock' \in BOOLEAN
  /\ UNCHANGED <<phase, leaving, gone>>

\* Another device joins: the engine is started for it, or that fails.
Join ==
  /\ ~gone /\ phase = "up"
  /\ \/ engine' = TRUE /\ UNCHANGED error
     \/ engine' = FALSE /\ error' = TRUE
  /\ UNCHANGED <<phase, clock, leaving, gone>>

Leave ==
  /\ ~leaving
  /\ leaving' = TRUE
  /\ clock' = FALSE
  /\ UNCHANGED <<phase, engine, error, gone>>

\* The session stops when nothing waits to be dealt with.
Go ==
  /\ leaving /\ ~gone /\ ~error /\ ~clock
  /\ gone' = TRUE
  /\ UNCHANGED <<phase, engine, error, clock, leaving>>

Next == Report \/ Disregard \/ End \/ Attempt \/ Establish \/ TimeOut \/ Join \/ Leave \/ Go

Spec == Init /\ [][Next]_vars
=============================================================================
