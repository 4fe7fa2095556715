------------------------------- MODULE Timers -------------------------------
(***************************************************************************)
(* The three Ticker timers and their callbacks (lib/ESP-Common). A         *)
(* callback only raises a flag and counts; loop() looks at the flags and   *)
(* lowers them when it is done. Timer 0 times the LED blink, timer 1 is    *)
(* the second, timer 2 the minute. All three repeat until detached.        *)
(***************************************************************************)
EXTENDS Integers

CONSTANTS SecondsPerMinute,  \* 60 in the code
          MinutesPerHour     \* 60 in the code

VARIABLES armed,       \* per timer: attached to the Ticker
          tickTimer,   \* per timer: the flag its callback raises
          sysSeconds,
          sysMinutes

timers == <<armed, tickTimer, sysSeconds, sysMinutes>>

TimerIds == 0..2

TypeOK ==
  /\ armed \in [TimerIds -> BOOLEAN]
  /\ tickTimer \in [TimerIds -> BOOLEAN]
  /\ sysSeconds \in 0..(SecondsPerMinute - 1)
  /\ sysMinutes \in 0..(MinutesPerHour - 1)

Init ==
  /\ armed = [t \in TimerIds |-> FALSE]
  /\ tickTimer = [t \in TimerIds |-> FALSE]
  /\ sysSeconds = 0
  /\ sysMinutes = 0
-----------------------------------------------------------------------------
Raise(t) == armed[t] /\ tickTimer' = [tickTimer EXCEPT ![t] = TRUE]

timer0Callback == Raise(0) /\ UNCHANGED <<armed, sysSeconds, sysMinutes>>

timer1Callback ==
  /\ Raise(1)
  /\ sysSeconds' = IF sysSeconds >= SecondsPerMinute - 1 THEN 0 ELSE sysSeconds + 1
  /\ UNCHANGED <<armed, sysMinutes>>

timer2Callback ==
  /\ Raise(2)
  /\ sysMinutes' = IF sysMinutes = MinutesPerHour - 1 THEN 0 ELSE sysMinutes + 1
  /\ UNCHANGED <<armed, sysSeconds>>
-----------------------------------------------------------------------------
(***************************************************************************)
(* What loop() does to them.                                               *)
(***************************************************************************)
AttachAll ==
  /\ armed' = [t \in TimerIds |-> TRUE]
  /\ UNCHANGED <<tickTimer, sysSeconds, sysMinutes>>

DetachFast ==
  /\ armed' = [armed EXCEPT ![0] = FALSE]
  /\ tickTimer' = [tickTimer EXCEPT ![0] = FALSE]
  /\ UNCHANGED <<sysSeconds, sysMinutes>>

\* Attaching an attached timer starts its period again.
AttachFast ==
  /\ armed' = [armed EXCEPT ![0] = TRUE]
  /\ UNCHANGED <<sysSeconds, sysMinutes>>

Lower(t) == tickTimer' = [tickTimer EXCEPT ![t] = FALSE]

\* A reset stops the timers and initialises the counters again.
Stop ==
  /\ armed' = [t \in TimerIds |-> FALSE]
  /\ tickTimer' = [t \in TimerIds |-> FALSE]
  /\ sysSeconds' = 0
  /\ sysMinutes' = 0
=============================================================================
