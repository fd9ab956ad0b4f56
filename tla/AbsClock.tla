------------------------------- MODULE AbsClock -------------------------------
(***************************************************************************)
(* What the timer promises the rest of the kernel: a clock of seconds     *)
(* since boot that only ever moves forward one second at a time, and a    *)
(* sleep(s) that returns no earlier than s seconds after it was called,   *)
(* and does return.  pit.c implements it (Pit.tla, AbsClockSpec).         *)
(***************************************************************************)
EXTENDS Naturals

VARIABLES
  time,     \* seconds since boot
  sleeper,  \* "user" or "spin": whether the task is inside sleep()
  wake      \* the second at which the current sleep() may return

absVars == <<time, sleeper, wake>>

Init == time = 0 /\ sleeper = "user" /\ wake = 0

(* A second passes. *)
Tick == time' = time + 1 /\ UNCHANGED <<sleeper, wake>>

(* The task calls sleep(s) for some s >= 0: it may return s seconds on. *)
Sleep ==
  /\ sleeper = "user"
  /\ wake' \in Nat
  /\ time <= wake'
  /\ sleeper' = "spin"
  /\ UNCHANGED time

(* sleep() returns once its wake time has come. *)
Wake ==
  /\ sleeper = "spin"
  /\ wake <= time
  /\ sleeper' = "user"
  /\ UNCHANGED <<time, wake>>

Next == Tick \/ Sleep \/ Wake

(* A sleep whose time has come is not left waiting forever. *)
Spec == Init /\ [][Next]_absVars /\ WF_absVars(Wake)
=============================================================================
