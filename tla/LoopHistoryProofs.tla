------------------------- MODULE LoopHistoryProofs --------------------------
(***************************************************************************)
(* Theorems about what takes loop() several minutes to get wrong: the age  *)
(* of a registration and the wait of the disabled servers.                 *)
(***************************************************************************)
EXTENDS LoopHistory, MainLoopProofs

USE DEF C!Disabled, C!Unregistered, C!Registered
-----------------------------------------------------------------------------
(***************************************************************************)
(* The history only observes: its steps are steps of loop().               *)
(***************************************************************************)
LEMMA HistoryStep == [HNext]_hvars => [Next]_vars
BY DEF HNext, Minute, Enabled, Other, hvars, Next, Sketch, WebRequest

\* Adding the history forbids nothing and adds nothing, so what is proved of
\* loop() holds with it.
THEOREM HistoryObserves == HSpec => Spec
<1>1. HInit => Init
  BY DEF HInit
<1> QED BY <1>1, HistoryStep, PTL DEF HSpec, Spec

LEMMA HistoryTyped ==
  /\ stale \subseteq Slots /\ sinceRetry \in 0..SinceRetryCap
  /\ missed \in BOOLEAN /\ moved \in BOOLEAN
  /\ [HNext]_hvars
  => /\ stale' \subseteq Slots /\ sinceRetry' \in 0..SinceRetryCap
     /\ missed' \in BOOLEAN /\ moved' \in BOOLEAN
<1> SUFFICES ASSUME stale \subseteq Slots, sinceRetry \in 0..SinceRetryCap,
                    missed \in BOOLEAN, moved \in BOOLEAN, [HNext]_hvars
             PROVE  /\ stale' \subseteq Slots /\ sinceRetry' \in 0..SinceRetryCap
                    /\ missed' \in BOOLEAN /\ moved' \in BOOLEAN
  OBVIOUS
<1>1. stale' \subseteq Slots
  BY DEF HNext, Minute, Enabled, Other, KeepStale, RegisteredSlots, hvars, history
<1>2. missed' \in BOOLEAN /\ moved' \in BOOLEAN
  BY Zenon DEF HNext, Minute, Enabled, Other, hvars, history
<1>3. sinceRetry' = 0 \/ sinceRetry' = sinceRetry
      \/ sinceRetry' = IF sinceRetry < SinceRetryCap THEN sinceRetry + 1
                       ELSE SinceRetryCap
  BY DEF HNext, Minute, Enabled, Other, hvars, history
<1> QED BY <1>1, <1>2, <1>3, MinutesAssumption DEF SinceRetryCap

\* The history variables keep their types too.
THEOREM HistoryTypeCorrect == HSpec => []HTypeOK
<1> DEFINE HInv == LoopInv /\ HTypeOK
<1>1. HInit => HInv
  <2> SUFFICES ASSUME HInit PROVE HInv
    OBVIOUS
  <2>1. LoopInv
    BY LoopInvInit DEF HInit
  <2>2. missed \in BOOLEAN /\ moved \in BOOLEAN
    BY DEF HInit
  <2>3. sinceRetry \in 0..SinceRetryCap
    BY MinutesAssumption DEF HInit, SinceRetryCap
  <2> QED BY <2>1, <2>2, <2>3 DEF HInit, HTypeOK, LoopInv
<1>2. HInv /\ [HNext]_hvars => HInv'
  <2> SUFFICES ASSUME HInv, [HNext]_hvars PROVE HInv'
    OBVIOUS
  <2>1. LoopInv'
    BY HistoryStep, LoopInvStep
  <2> QED BY <2>1, HistoryTyped DEF HTypeOK, LoopInv, Slots, SinceRetryCap
<1> QED BY <1>1, <1>2, PTL DEF HSpec
-----------------------------------------------------------------------------
(***************************************************************************)
(* The age of a registration. The callback that ages one raises the flag   *)
(* of the minute tick; whoever lowers that flag has unregistered everyone: *)
(* the minute handler just before, or, when connectWiFi lies between the   *)
(* two, at its beginning, and no one registers inside (NobodyRegistered-   *)
(* InWindow).                                                              *)
(***************************************************************************)
FreshInv == NoStaleRegistration /\ NobodyRegisteredInWindow
            /\ stale \subseteq RegisteredSlots

LEMMA FreshStep == T!TypeOK /\ FreshInv /\ [HNext]_hvars => FreshInv'
<1> SUFFICES ASSUME T!TypeOK, FreshInv, [HNext]_hvars PROVE FreshInv'
  OBVIOUS
<1> USE DEF FreshInv, NoStaleRegistration
<1>w. NobodyRegisteredInWindow'
  BY HistoryStep, WindowStep
<1>1. CASE Minute
  <2>1. stale' \subseteq RegisteredSlots'
    BY <1>1 DEF Minute, MinuteCallback, servers, RegisteredSlots
  <2>2. tickTimer'[2]
    BY <1>1 DEF Minute, MinuteCallback, T!timer2Callback, T!Raise, T!TypeOK, T!TimerIds
  <2> QED BY <1>w, <2>1, <2>2
<1>2. CASE (Enabled \/ Other) /\ UNCHANGED tickTimer
  BY <1>w, <1>2 DEF Enabled, Other, KeepStale
<1>3. CASE (Enabled \/ Other) /\ RegisteredSlots' = {}
  BY <1>w, <1>3 DEF Enabled, Other, KeepStale
<1>4. CASE Enabled
  <2>1. ASSUME EndRetryWindow PROVE RegisteredSlots' = {}
    BY <2>1 DEF EndRetryWindow, EnableServers, C!EnableAll, RegisteredSlots, Slots, C!Slots
  <2>2. ASSUME Reset PROVE RegisteredSlots' = {}
    BY <2>2 DEF Reset, C!Boot, RegisteredSlots, Slots, C!Slots
  <2> QED BY <1>3, <1>4, <2>1, <2>2 DEF Enabled, SysRestart, PowerCycle, DivideByZero
<1>5. CASE Other
  <2>1. CASE MinuteTick \/ RetryWindow
    <3>1. RegisteredSlots' = {}
      <4>1. C!UnregisterAll
        BY <2>1 DEF MinuteTick, RetryWindow, UnregisterServers
      <4>2. \A i \in Slots : ControlServersStatus'[i] # C!Registered
        BY <4>1 DEF C!UnregisterAll, Slots
      <4> QED BY <4>2 DEF RegisteredSlots, Slots, C!Slots
    <3> QED BY <1>3, <1>5, <3>1
  <2>2. CASE tickTimer'[2] = tickTimer[2]
    BY <1>w, <1>5, <2>2 DEF Other, KeepStale
  <2>3. CASE FastCallback \/ SecondCallback
    <3>1. tickTimer'[2] = tickTimer[2]
      BY <2>3 DEF FastCallback, SecondCallback, T!timer0Callback, T!timer1Callback,
         T!Raise, T!TypeOK, T!TimerIds
    <3> QED BY <2>2, <3>1
  <2>4. CASE LoopTop \/ PushAndBlink \/ Register
    <3>1. tickTimer'[2] = tickTimer[2]
      BY <2>4 DEF LoopTop, FastTick, T!DetachFast, PushAndBlink, Register,
         SlowTickDone, T!Lower, timers, T!TypeOK, T!TimerIds
    <3> QED BY <2>2, <3>1
  <2>5. CASE UNCHANGED tickTimer
    BY <2>2, <2>5
  <2> QED
    BY <1>5, <2>1, <2>3, <2>4, <2>5
    DEF Other, ConnectRound, EndSetup, FirstRun, T!AttachAll, NoMinuteTick,
        NoRequest, ConfigLoad, SetLED, Surroundings, timers
<1>6. CASE UNCHANGED hvars
  BY <1>w, <1>6 DEF hvars, history, vars, timers, servers, RegisteredSlots
<1> QED BY <1>1, <1>4, <1>5, <1>6 DEF HNext

\* No server stays registered beyond the minute tick that should have
\* unregistered it, although callbacks that come during the handler are lost
\* (main.cpp lines 160-182).
THEOREM RegistrationsExpire == HSpec => []NoStaleRegistration
<1>1. HInit => FreshInv
  BY WindowInit DEF HInit, FreshInv, NoStaleRegistration
<1>2. FreshInv => NoStaleRegistration
  BY DEF FreshInv
<1>3. LoopInv => T!TypeOK
  BY DEF LoopInv, TypeOK
<1>4. HInit => LoopInv
  BY LoopInvInit DEF HInit
<1> QED
  BY <1>1, <1>2, <1>3, <1>4, FreshStep, HistoryStep, LoopInvStep, PTL DEF HSpec
-----------------------------------------------------------------------------
(***************************************************************************)
(* Remainders.                                                             *)
(***************************************************************************)
LEMMA DivisionUnique ==
  ASSUME NEW n \in Nat \ {0}, NEW a \in Int, NEW b \in Int,
         NEW r \in 0..(n - 1), NEW s \in 0..(n - 1), n * a + r = n * b + s
  PROVE  r = s
<1>1. n * (a - b) = s - r
  OBVIOUS
<1>2. CASE a = b
  BY <1>1, <1>2
<1>3. CASE a - b >= 1
  <2>1. n * (a - b) >= n
    BY <1>3
  <2> QED BY <1>1, <2>1
<1>4. CASE a - b <= -1
  <2>1. n * (a - b) <= -n
    BY <1>4
  <2> QED BY <1>1, <2>1
<1> QED BY <1>2, <1>3, <1>4

LEMMA DivisionFact ==
  ASSUME NEW n \in Nat \ {0}, NEW m \in Nat
  PROVE  m \div n \in Int /\ m % n \in 0..(n - 1) /\ m = n * (m \div n) + (m % n)
OBVIOUS

LEMMA NextRemainder ==
  ASSUME NEW n \in Nat \ {0}, NEW m \in Nat
  PROVE  (m + 1) % n = 0 \/ (m + 1) % n = (m % n) + 1
<1> DEFINE q == m \div n  r == m % n  p == (m + 1) \div n  s == (m + 1) % n
<1>1. q \in Int /\ r \in 0..(n - 1) /\ m = n * q + r
  BY DivisionFact
<1>2. p \in Int /\ s \in 0..(n - 1) /\ m + 1 = n * p + s
  BY DivisionFact
<1> HIDE DEF q, r, p, s
<1>3. CASE r + 1 < n
  <2>1. n * q + (r + 1) = n * p + s /\ r + 1 \in 0..(n - 1)
    BY <1>1, <1>2, <1>3
  <2>2. r + 1 = s
    BY <1>1, <1>2, <2>1, DivisionUnique
  <2> QED BY <2>2 DEF r, s
<1>4. CASE r + 1 = n
  <2>1. n * (q + 1) + 0 = n * p + s /\ 0 \in 0..(n - 1) /\ q + 1 \in Int
    BY <1>1, <1>2, <1>4
  <2>2. 0 = s
    BY <1>2, <2>1, DivisionUnique
  <2> QED BY <2>2 DEF s
<1> QED BY <1>1, <1>3, <1>4
-----------------------------------------------------------------------------
(***************************************************************************)
(* The wait of the disabled servers. All that matters of a step is what it *)
(* does to the flag, the minute, the wait and the period: four kinds.      *)
(***************************************************************************)
WaitTyped == /\ T!TypeOK /\ OwnTypeOK
             /\ sinceRetry \in 0..SinceRetryCap
             /\ missed \in BOOLEAN /\ moved \in BOOLEAN

CountsMinute ==
  /\ tickTimer'[2]
  /\ sysMinutes' = IF sysMinutes = MinutesPerHour - 1 THEN 0 ELSE sysMinutes + 1
  /\ sinceRetry' = IF sinceRetry < SinceRetryCap THEN sinceRetry + 1 ELSE SinceRetryCap
  /\ missed' = (missed \/ tickTimer[2])
  /\ moved' = moved /\ UNCHANGED cfgControlServersRetryMinutes

StartsWait == sinceRetry' = 0 /\ sysMinutes' \in Nat

LowersFlag ==
  /\ tickTimer[2] /\ ~tickTimer'[2]
  /\ cfgControlServersRetryMinutes # 0 /\ ~RetryWindowNow
  /\ UNCHANGED <<sysMinutes, sinceRetry, missed, moved, cfgControlServersRetryMinutes>>

KeepsWaiting ==
  /\ tickTimer'[2] = tickTimer[2]
  /\ UNCHANGED <<sysMinutes, sinceRetry, missed>>
  /\ moved' = (moved \/ cfgControlServersRetryMinutes' # cfgControlServersRetryMinutes)

LEMMA WaitCases ==
  WaitTyped /\ [HNext]_hvars
    => CountsMinute \/ StartsWait \/ LowersFlag \/ KeepsWaiting
<1> SUFFICES ASSUME WaitTyped, [HNext]_hvars
             PROVE  CountsMinute \/ StartsWait \/ LowersFlag \/ KeepsWaiting
  OBVIOUS
<1> USE DEF WaitTyped, T!TypeOK, T!TimerIds
<1>1. CASE Minute
  BY <1>1 DEF Minute, MinuteCallback, T!timer2Callback, T!Raise, own, CountsMinute
<1>2. CASE Enabled
  <2>1. CASE EndRetryWindow
    BY <1>2, <2>1 DEF Enabled, EndRetryWindow, T!Lower, StartsWait
  <2>2. CASE Reset
    BY <1>2, <2>2 DEF Enabled, Reset, T!Stop, StartsWait
  <2> QED BY <1>2, <2>1, <2>2 DEF Enabled, SysRestart, PowerCycle, DivideByZero
<1>3. CASE Other
  <2>1. CASE MinuteTick
    <3>1. moved' = moved
      BY <1>3, <2>1, Zenon DEF Other, MinuteTick
    <3> QED BY <1>3, <2>1, <3>1 DEF Other, MinuteTick, OrdinaryMinute, T!Lower, LowersFlag
  <2>2. CASE tickTimer'[2] = tickTimer[2] /\ UNCHANGED sysMinutes
    BY <1>3, <2>2 DEF Other, KeepsWaiting
  <2>3. CASE FastCallback \/ SecondCallback
    BY <2>2, <2>3 DEF FastCallback, SecondCallback, T!timer0Callback,
       T!timer1Callback, T!Raise
  <2>4. CASE LoopTop \/ PushAndBlink \/ Register
    BY <2>2, <2>4 DEF LoopTop, FastTick, T!DetachFast, PushAndBlink, TimeBlink,
       T!AttachFast, Register, SlowTickDone, T!Lower, timers
  <2>5. CASE UNCHANGED <<tickTimer, sysMinutes>>
    BY <2>2, <2>5
  <2> QED
    BY <1>3, <2>1, <2>3, <2>4, <2>5
    DEF Other, ConnectRound, EndSetup, FirstRun, T!AttachAll, NoMinuteTick,
        RetryWindow, FlagStaysUp, NoRequest, ConfigLoad, SetLED, Surroundings, timers
<1>4. CASE UNCHANGED hvars
  BY <1>4, Zenon DEF hvars, history, vars, timers, own, KeepsWaiting
<1> QED BY <1>1, <1>2, <1>3, <1>4 DEF HNext

LEMMA MagnitudeFact ==
  ASSUME NEW c \in Int, c # 0
  PROVE  (IF c < 0 THEN -c ELSE c) \in Nat \ {0}
OBVIOUS

LEMMA PeriodFact ==
  ASSUME OwnTypeOK, cfgControlServersRetryMinutes # 0
  PROVE  RetryPeriod \in Nat \ {0}
BY RetryMinutesAssumption DEF OwnTypeOK, RetryPeriod

(***************************************************************************)
(* The hour. With the flag down the wait is at most the minute of the      *)
(* hour, which counts with it and starts over no sooner. With the flag up  *)
(* it may have just started over, and then the handler opens a window,     *)
(* whatever the period is.                                                 *)
(***************************************************************************)
HourInv ==
  ~missed => \/ sinceRetry <= sysMinutes
             \/ tickTimer[2] /\ sysMinutes = 0 /\ sinceRetry <= MinutesPerHour

LEMMA HourStep == WaitTyped /\ HourInv /\ [HNext]_hvars => HourInv'
<1> SUFFICES ASSUME WaitTyped, HourInv, [HNext]_hvars, ~missed'
             PROVE  \/ sinceRetry' <= sysMinutes'
                    \/ tickTimer'[2] /\ sysMinutes' = 0 /\ sinceRetry' <= MinutesPerHour
  BY DEF HourInv
<1> USE MinutesAssumption
<1>t. sysMinutes \in 0..(MinutesPerHour - 1) /\ sinceRetry \in 0..(MinutesPerHour + 1)
  BY DEF WaitTyped, T!TypeOK, SinceRetryCap
<1>1. CASE CountsMinute
  <2>1. ~missed /\ ~tickTimer[2]
    BY <1>1, Zenon DEF CountsMinute, WaitTyped
  <2>2. sinceRetry <= sysMinutes
    BY <2>1 DEF HourInv
  <2> QED BY <1>t, <1>1, <2>2 DEF CountsMinute, SinceRetryCap
<1>2. CASE StartsWait
  BY <1>2 DEF StartsWait
<1>3. CASE LowersFlag
  <2>1. RetryPeriod \in Nat \ {0} /\ sysMinutes # 0
    BY <1>3, PeriodFact DEF LowersFlag, WaitTyped, RetryWindowNow
  <2> QED BY <1>3, <2>1 DEF LowersFlag, HourInv
<1>4. CASE KeepsWaiting
  BY <1>4 DEF KeepsWaiting, HourInv
<1> QED BY <1>1, <1>2, <1>3, <1>4, WaitCases

(***************************************************************************)
(* The period, while it stays what it is. The wait is at most the minute's *)
(* remainder by the period, which grows with it or becomes 0, and then the *)
(* handler opens a window; the hour that starts over makes it 0 too.       *)
(***************************************************************************)
ScheduleInv ==
  ~missed /\ ~moved /\ cfgControlServersRetryMinutes # 0
    => \/ sinceRetry <= sysMinutes % RetryPeriod
       \/ /\ tickTimer[2]
          /\ sysMinutes % RetryPeriod = 0
          /\ sinceRetry <= RetryPeriod

LEMMA ScheduleStep ==
  WaitTyped /\ OwnTypeOK' /\ ScheduleInv /\ [HNext]_hvars => ScheduleInv'
<1> SUFFICES ASSUME WaitTyped, OwnTypeOK', ScheduleInv, [HNext]_hvars, ~missed', ~moved',
                    cfgControlServersRetryMinutes' # 0
             PROVE  \/ sinceRetry' <= sysMinutes' % RetryPeriod'
                    \/ /\ tickTimer'[2]
                       /\ sysMinutes' % RetryPeriod' = 0
                       /\ sinceRetry' <= RetryPeriod'
  BY DEF ScheduleInv
<1> USE MinutesAssumption
<1>t. sysMinutes \in 0..(MinutesPerHour - 1) /\ sinceRetry \in 0..(MinutesPerHour + 1)
  BY DEF WaitTyped, T!TypeOK, SinceRetryCap
<1>p. RetryPeriod' \in Nat \ {0}
  <2>1. cfgControlServersRetryMinutes' \in Int
    BY RetryMinutesAssumption DEF OwnTypeOK
  <2> QED BY <2>1, MagnitudeFact DEF RetryPeriod
<1>1. CASE CountsMinute
  <2>1. ~missed /\ ~tickTimer[2] /\ ~moved
    BY <1>1, Zenon DEF CountsMinute, WaitTyped
  <2>2. RetryPeriod' = RetryPeriod /\ cfgControlServersRetryMinutes # 0
    BY <1>1 DEF CountsMinute, RetryPeriod
  <2>3. sinceRetry <= sysMinutes % RetryPeriod
    BY <2>1, <2>2 DEF ScheduleInv
  <2>4. sysMinutes % RetryPeriod \in 0..(RetryPeriod - 1)
    BY <1>t, <1>p, <2>2, DivisionFact
  <2>5. sinceRetry' <= (sysMinutes % RetryPeriod) + 1
    BY <1>1, <1>t, <2>3, <2>4, <1>p, <2>2 DEF CountsMinute, SinceRetryCap
  <2>6. sysMinutes' % RetryPeriod = 0 \/ sysMinutes' % RetryPeriod = (sysMinutes % RetryPeriod) + 1
    <3>1. CASE sysMinutes = MinutesPerHour - 1
      BY <1>1, <1>p, <2>2, <3>1 DEF CountsMinute
    <3>2. CASE sysMinutes # MinutesPerHour - 1
      <4>1. sysMinutes' = sysMinutes + 1 /\ sysMinutes \in Nat
        BY <1>1, <1>t, <3>2 DEF CountsMinute
      <4>2. RetryPeriod \in Nat \ {0}
        BY <1>p, <2>2
      <4> HIDE DEF RetryPeriod
      <4> QED BY <4>1, <4>2, NextRemainder
    <3> QED BY <3>1, <3>2
  <2>7. tickTimer'[2]
    BY <1>1 DEF CountsMinute
  <2>8. sinceRetry' \in Nat
    BY <1>1, <1>t DEF CountsMinute, SinceRetryCap
  <2>9. \/ sinceRetry' <= sysMinutes' % RetryPeriod
        \/ sysMinutes' % RetryPeriod = 0 /\ sinceRetry' <= RetryPeriod
    BY <1>p, <2>2, <2>4, <2>5, <2>6, <2>8
  <2> QED BY <2>2, <2>7, <2>9
<1>2. CASE StartsWait
  <2>1. sysMinutes' \in Nat
    BY <1>2 DEF StartsWait
  <2>2. sysMinutes' % RetryPeriod' \in 0..(RetryPeriod' - 1)
    BY <2>1, <1>p, DivisionFact
  <2>3. sysMinutes' % RetryPeriod' \in Nat
    BY <2>2, <1>p
  <2> QED BY <1>2, <2>3 DEF StartsWait
<1>3. CASE LowersFlag
  <2>1. RetryPeriod' = RetryPeriod
    BY <1>3 DEF LowersFlag, RetryPeriod
  <2> QED BY <1>3, <2>1 DEF LowersFlag, ScheduleInv, RetryWindowNow
<1>4. CASE KeepsWaiting
  <2>1. ~moved /\ UNCHANGED cfgControlServersRetryMinutes
    BY <1>4, Zenon DEF KeepsWaiting, WaitTyped
  <2>2. RetryPeriod' = RetryPeriod
    BY <2>1 DEF RetryPeriod
  <2> QED BY <1>4, <2>1, <2>2 DEF KeepsWaiting, ScheduleInv
<1> QED BY <1>1, <1>2, <1>3, <1>4, WaitCases

(***************************************************************************)
(* A period of 0. No minute tick is an ordinary one then, so the flag that *)
(* the first callback raises stays up until the device restarts.           *)
(***************************************************************************)
ZeroInv ==
  ~missed /\ ~moved /\ cfgControlServersRetryMinutes = 0
    => sinceRetry <= IF tickTimer[2] THEN 1 ELSE 0

LEMMA ZeroStep == WaitTyped /\ ZeroInv /\ [HNext]_hvars => ZeroInv'
<1> SUFFICES ASSUME WaitTyped, ZeroInv, [HNext]_hvars, ~missed', ~moved',
                    cfgControlServersRetryMinutes' = 0
             PROVE  sinceRetry' <= IF tickTimer'[2] THEN 1 ELSE 0
  BY DEF ZeroInv
<1>1. CASE CountsMinute
  <2>1. ~missed /\ ~tickTimer[2] /\ ~moved
    BY <1>1, Zenon DEF CountsMinute, WaitTyped
  <2>2. sinceRetry = 0
    BY <1>1, <2>1, MinutesAssumption
    DEF CountsMinute, ZeroInv, WaitTyped, SinceRetryCap
  <2> QED BY <1>1, <2>2, MinutesAssumption DEF CountsMinute, SinceRetryCap
<1>2. CASE StartsWait
  BY <1>2 DEF StartsWait
<1>3. CASE LowersFlag
  BY <1>3 DEF LowersFlag
<1>4. CASE KeepsWaiting
  <2>1. ~moved /\ UNCHANGED cfgControlServersRetryMinutes
    BY <1>4, Zenon DEF KeepsWaiting, WaitTyped
  <2> QED BY <1>4, <2>1 DEF KeepsWaiting, ZeroInv
<1> QED BY <1>1, <1>2, <1>3, <1>4, WaitCases

LEMMA HistoryWaits == HInit => HourInv /\ ScheduleInv /\ ZeroInv
<1> SUFFICES ASSUME HInit PROVE HourInv /\ ScheduleInv /\ ZeroInv
  OBVIOUS
<1>1. sysMinutes = 0 /\ sinceRetry = 0 /\ OwnTypeOK
  BY LoopInvInit DEF HInit, Init, T!Init, LoopInv, TypeOK
<1>2. HourInv
  BY <1>1 DEF HourInv
<1>3. ScheduleInv
  BY <1>1, PeriodFact DEF ScheduleInv
<1>4. ZeroInv
  BY <1>1 DEF ZeroInv
<1> QED BY <1>2, <1>3, <1>4

LEMMA HistoryWaitTyped == HSpec => []WaitTyped
<1>1. LoopInv /\ HTypeOK => WaitTyped
  BY DEF LoopInv, HTypeOK, TypeOK, WaitTyped
<1>2. HInit => LoopInv
  BY LoopInvInit DEF HInit
<1> QED
  BY <1>1, <1>2, HistoryTypeCorrect, HistoryStep, LoopInvStep, PTL DEF HSpec

\* The disabled servers get another chance within the hour, for every retry
\* period and whatever periods /configLoad brings in between, as long as no
\* minute callback is lost (main.cpp lines 160-182).
THEOREM RetryWithinHour == HSpec => []RetriedEveryHour
<1>1. WaitTyped /\ HourInv => RetriedEveryHour
  BY MinutesAssumption DEF WaitTyped, T!TypeOK, HourInv, RetriedEveryHour, SinceRetryCap
<1>2. HInit => HourInv
  BY HistoryWaits
<1> QED BY <1>1, <1>2, HistoryWaitTyped, HourStep, PTL DEF HSpec

\* While the period stays, they wait no longer than the period, positive or
\* negative, a divisor of the hour or not (main.cpp line 173).
THEOREM RetryWithinPeriod == HSpec => []RetriedOnSchedule
<1>1. WaitTyped /\ ScheduleInv => RetriedOnSchedule
  <2> SUFFICES ASSUME WaitTyped, ScheduleInv, ~missed, ~moved, RetryPeriod # 0
               PROVE  sinceRetry <= RetryPeriod
    BY DEF RetriedOnSchedule
  <2>1. cfgControlServersRetryMinutes # 0
    BY RetryMinutesAssumption DEF RetryPeriod, WaitTyped, OwnTypeOK
  <2>2. RetryPeriod \in Nat \ {0}
    BY <2>1, PeriodFact DEF WaitTyped
  <2>3. sysMinutes % RetryPeriod \in 0..(RetryPeriod - 1)
    BY <2>2, DivisionFact, MinutesAssumption DEF WaitTyped, T!TypeOK
  <2>4. sinceRetry \in Nat
    BY MinutesAssumption DEF WaitTyped, SinceRetryCap
  <2> QED BY <2>1, <2>2, <2>3, <2>4 DEF ScheduleInv
<1>2. HInit => ScheduleInv
  BY HistoryWaits
<1>3. WaitTyped => OwnTypeOK
  BY DEF WaitTyped
<1> QED BY <1>1, <1>2, <1>3, HistoryWaitTyped, ScheduleStep, PTL DEF HSpec
\* A period of 0 in config.json makes no server wait longer than a minute: the
\* device restarts instead (main.cpp line 173).
THEOREM ZeroMeansRestart == HSpec => []ZeroPeriodRestarts
<1>1. WaitTyped /\ ZeroInv => ZeroPeriodRestarts
  BY MinutesAssumption DEF WaitTyped, SinceRetryCap, ZeroInv, ZeroPeriodRestarts
<1>2. HInit => ZeroInv
  BY HistoryWaits
<1> QED BY <1>1, <1>2, HistoryWaitTyped, ZeroStep, PTL DEF HSpec
=============================================================================
