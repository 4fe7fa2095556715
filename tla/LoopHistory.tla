---------------------------- MODULE LoopHistory -----------------------------
(***************************************************************************)
(* MainLoop with what it has to be remembered for: how old a registration  *)
(* is, and how long the disabled servers have been waiting, both counted   *)
(* in minute callbacks. History variables only: no action is disabled and  *)
(* none does anything else than in MainLoop.                               *)
(***************************************************************************)
EXTENDS MainLoop

VARIABLES stale,        \* slots registered before the last minute callback
          sinceRetry,   \* minute callbacks since the servers were enabled
          missed,       \* one of these found its flag still raised
          moved         \* the retry period was replaced since then

history == <<stale, sinceRetry, missed, moved>>
hvars   == <<vars, history>>

\* The counter stops one minute beyond anything a window allows.
SinceRetryCap == MinutesPerHour + 1

HTypeOK == /\ TypeOK
           /\ stale \subseteq Slots
           /\ sinceRetry \in 0..SinceRetryCap
           /\ missed \in BOOLEAN
           /\ moved \in BOOLEAN

HInit == /\ Init
         /\ stale = {}
         /\ sinceRetry = 0
         /\ missed = FALSE
         /\ moved = FALSE

RegisteredSlots == {i \in Slots : ControlServersStatus[i] = C!Registered}

\* A registration that ends takes its age with it.
KeepStale == stale' = stale \cap RegisteredSlots'

Minute ==
  /\ MinuteCallback
  /\ stale' = RegisteredSlots
  /\ sinceRetry' = IF sinceRetry < SinceRetryCap THEN sinceRetry + 1
                   ELSE SinceRetryCap
  /\ missed' = (missed \/ tickTimer[2])
  /\ UNCHANGED moved

\* All servers are enabled: by a retry window, or by a reset.
Enabled ==
  /\ EndRetryWindow \/ SysRestart \/ PowerCycle \/ DivideByZero
  /\ KeepStale
  /\ sinceRetry' = 0
  /\ missed' = FALSE
  /\ moved' = FALSE

Other ==
  /\ \/ ConnectRound \/ EndSetup \/ FirstRun \/ LoopTop
     \/ PushAndBlink \/ Register
     \/ NoMinuteTick \/ MinuteTick \/ RetryWindow
     \/ NoRequest \/ ConfigLoad \/ SetLED
     \/ FastCallback \/ SecondCallback
     \/ Surroundings
  /\ KeepStale
  /\ moved' = (moved \/ cfgControlServersRetryMinutes' # cfgControlServersRetryMinutes)
  /\ UNCHANGED <<sinceRetry, missed>>

HNext == Minute \/ Enabled \/ Other

HSpec == HInit /\ [][HNext]_hvars
-----------------------------------------------------------------------------
\* A registration older than the last minute callback is only there while
\* the minute tick waits to be handled: a callback that comes during the
\* minute handler, and whose flag the handler then lowers, leaves no server
\* registered beyond its minute (main.cpp lines 160-182).
NoStaleRegistration == stale # {} => tickTimer[2]

\* Disabled servers get another chance at least once an hour, whatever retry
\* period is configured or loaded in between, as long as no minute callback
\* has been lost since the last one: sysMinutes passes 0 (main.cpp 173-178).
RetriedEveryHour == ~missed => sinceRetry <= MinutesPerHour

\* While the period stays what it is and no callback is lost, the disabled
\* servers wait no longer than the period, also when it does not divide the
\* hour, also when it is negative (main.cpp line 173).
RetriedOnSchedule ==
  ~missed /\ ~moved /\ RetryPeriod # 0 => sinceRetry <= RetryPeriod

\* A retry period of 0 does not turn the retries off: the remainder by zero
\* resets the device in the first minute tick, which enables everyone, so no
\* server waits for more than a minute (main.cpp line 173).
ZeroPeriodRestarts ==
  ~missed /\ ~moved /\ cfgControlServersRetryMinutes = 0 => sinceRetry <= 1

\* "retry disabled servers (minutes)", as ESP-Config.cpp line 26 has it: from
\* one window to the next it takes the configured number of minutes. The code
\* counts from the full hour instead: a period that does not divide the hour
\* is cut short by it, a longer one never elapses.
RetryPeriodExact ==
  [][EndRetryWindow /\ ~missed /\ ~moved => sinceRetry = RetryPeriod]_hvars
=============================================================================
