--------------------------- MODULE MainLoopProofs ---------------------------
(***************************************************************************)
(* Theorems about setup() and loop(): for any number of servers, networks, *)
(* tries, any configuration and any requests.                              *)
(***************************************************************************)
EXTENDS MainLoop, TLAPS

P == INSTANCE ControlServersProofs
Q == INSTANCE WiFiClientProofs

USE DEF C!Disabled, C!Unregistered, C!Registered
-----------------------------------------------------------------------------
(***************************************************************************)
(* The control servers seen from loop(). P is the same instance as C, with *)
(* the lemmas of ControlServersProofs.                                     *)
(***************************************************************************)
LEMMA SameServers ==
  /\ C!Init <=> P!Init
  /\ C!TypeOK <=> P!TypeOK
  /\ C!TypeOK' <=> P!TypeOK'
  /\ C!Next <=> P!Next
  /\ C!vars = P!vars /\ C!vars' = P!vars'
<1> USE DEF P!Disabled, P!Unregistered, P!Registered, C!Slots, P!Slots
<1>1. C!Init <=> P!Init
  BY DEF C!Init, P!Init
<1>2. (C!TypeOK <=> P!TypeOK) /\ (C!TypeOK' <=> P!TypeOK')
  BY DEF C!TypeOK, P!TypeOK
<1>3. C!vars = P!vars /\ C!vars' = P!vars'
  BY DEF C!vars, P!vars, C!config, P!config, C!status, P!status, C!world, P!world
<1>4. C!Next <=> P!Next
  BY Zenon DEF C!Next, P!Next, C!ControlServerRegister, P!ControlServerRegister,
     C!RegisterAccepted, P!RegisterAccepted, C!RegisterFailed, P!RegisterFailed,
     C!RegisterNobody, P!RegisterNobody, C!UnregisterAll, P!UnregisterAll,
     C!EnableAll, P!EnableAll, C!LoadConfig, P!LoadConfig, C!Boot, P!Boot,
     C!ServerComesOrGoes, P!ServerComesOrGoes, C!ServerForgets, P!ServerForgets,
     C!Chosen, P!Chosen, C!Eligible, P!Eligible, C!PassOver, P!PassOver,
     C!FailedStatus, P!FailedStatus, C!NextIndex, P!NextIndex,
     C!ScanStart, P!ScanStart, C!ScanDistance, P!ScanDistance,
     C!config, P!config, C!status, P!status, C!world, P!world
<1> QED BY <1>1, <1>2, <1>3, <1>4

LEMMA SameMonitor ==
  /\ C!Monitor!Init <=> P!Monitor!Init
  /\ C!Monitor!Next <=> P!Monitor!Next
  /\ C!Monitor!vars = P!Monitor!vars /\ C!Monitor!vars' = P!Monitor!vars'
<1> USE DEF P!Disabled, P!Unregistered, P!Registered, C!Slots, P!Slots,
            C!HealthOf, P!HealthOf, C!FailsOf, P!FailsOf, C!Eligible, P!Eligible,
            C!TryLimit, P!TryLimit
<1>1. C!Monitor!Init <=> P!Monitor!Init
  BY Zenon DEF C!Monitor!Init, P!Monitor!Init, C!Monitor!Fresh, P!Monitor!Fresh
<1>2. C!Monitor!vars = P!Monitor!vars /\ C!Monitor!vars' = P!Monitor!vars'
  BY Zenon DEF C!Monitor!vars, P!Monitor!vars
<1>3. C!Monitor!Next <=> P!Monitor!Next
  BY Zenon DEF C!Monitor!Next, P!Monitor!Next, C!Monitor!Fresh, P!Monitor!Fresh,
     C!Monitor!Accepted, P!Monitor!Accepted, C!Monitor!Rejected, P!Monitor!Rejected,
     C!Monitor!Expire, P!Monitor!Expire, C!Monitor!Enable, P!Monitor!Enable,
     C!Monitor!Reconfigure, P!Monitor!Reconfigure,
     C!Monitor!Restart, P!Monitor!Restart
<1> QED BY <1>1, <1>2, <1>3
(***************************************************************************)
(* Every step of loop() is, for the servers, a step of the Web client's    *)
(* module or none at all.                                                  *)
(***************************************************************************)
LEMMA ServersUnchanged == UNCHANGED servers => UNCHANGED C!vars
BY DEF servers, C!vars, C!config, C!status, C!world

LEMMA RegisterDrives == Register => C!Next
BY DEF Register, Accepted, Slots, C!Next, C!ControlServerRegister

LEMMA ResetDrives == Reset => C!Next
BY DEF Reset, C!Next

LEMMA StepDrivesServers == [Next]_vars => [C!Next]_(C!vars)
<1> SUFFICES ASSUME [Next]_vars PROVE C!Next \/ UNCHANGED C!vars
  OBVIOUS
<1>1. CASE EndRetryWindow
  BY <1>1 DEF EndRetryWindow, EnableServers, C!Next
<1>2. CASE Register
  BY <1>2, RegisterDrives
<1>3. CASE MinuteTick \/ RetryWindow
  BY <1>3 DEF MinuteTick, RetryWindow, UnregisterServers, C!Next
<1>4. CASE ConfigLoad
  BY <1>4 DEF ConfigLoad, C!Next
<1>5. CASE SysRestart \/ PowerCycle \/ DivideByZero
  BY <1>5, ResetDrives DEF SysRestart, PowerCycle, DivideByZero
<1>6. CASE Surroundings
  BY <1>6, ServersUnchanged DEF Surroundings, C!Next
<1>7. CASE UNCHANGED servers
  BY <1>7, ServersUnchanged
<1> QED
  BY <1>1, <1>2, <1>3, <1>4, <1>5, <1>6, <1>7
  DEF Next, Sketch, WebRequest, ConnectRound, EndSetup, FirstRun, LoopTop,
      PushAndBlink, NoMinuteTick, NoRequest, SetLED,
      FastCallback, SecondCallback, MinuteCallback, vars

\* loop() uses the Web client as its own module allows: whatever it does to
\* the statuses is an operation of ControlServers (main.cpp lines 112-193).
THEOREM DrivesControlServers == Spec => C!Spec
<1>1. Init => C!Init
  BY DEF Init
<1> QED BY <1>1, StepDrivesServers, PTL DEF Spec, C!Spec

\* What holds of the Web client's statuses on their own.
LEMMA ServersTyped == C!Init => C!TypeOK
BY CountAssumption DEF C!Init, C!TypeOK

LEMMA ServersTypeStep == C!TypeOK /\ [C!Next]_(C!vars) => C!TypeOK'
BY SameServers, P!TypeStep,
   CountAssumption, RetryCountsAssumption, ServersAssumption

LEMMA ServersMonitorInit == C!Init => C!Monitor!Init
BY SameServers, SameMonitor, P!MonitorInit,
   CountAssumption, RetryCountsAssumption, ServersAssumption

LEMMA ServersMonitorStep ==
  C!TypeOK /\ C!TypeOK' /\ [C!Next]_(C!vars) => [C!Monitor!Next]_(C!Monitor!vars)
BY SameServers, SameMonitor, P!MonitorStep,
   CountAssumption, RetryCountsAssumption, ServersAssumption

\* Composed with loop(), the timers and the station, the statuses still
\* implement the monitor: nothing loop() does to them between two requests
\* makes a server be asked more often than its tries allow.
THEOREM MonitorKept == Spec => KeepsMonitor
<1>1. C!Spec => []C!TypeOK
  BY ServersTyped, ServersTypeStep, PTL DEF C!Spec
<1>2. C!Spec => KeepsMonitor
  BY <1>1, ServersMonitorInit, ServersMonitorStep, PTL
  DEF C!Spec, KeepsMonitor, C!ImplementsMonitor, C!Monitor!Spec
<1> QED BY <1>2, DrivesControlServers

LEMMA SameTurns == C!AskedInTurn <=> P!AskedInTurn
BY DEF C!AskedInTurn, P!AskedInTurn, C!Slots, P!Slots

\* Composed with loop(), the round robin still asks every eligible server
\* within ControlServersCount calls: what the minutes, the retry windows and
\* the Web requests do to the statuses between two calls makes no server wait
\* longer (main.cpp lines 149-178, ESP-WebClient.cpp 29-74).
THEOREM TurnsKept == Spec => []C!AskedInTurn
<1>1. P!Spec => []P!AskedInTurn
  BY P!RoundRobin, CountAssumption, RetryCountsAssumption, ServersAssumption
<1>2. (C!Init => P!Init) /\ ([C!Next]_(C!vars) => [P!Next]_(P!vars))
  BY SameServers
<1>3. P!AskedInTurn => C!AskedInTurn
  BY SameTurns
<1> QED BY <1>1, <1>2, <1>3, DrivesControlServers, PTL DEF C!Spec, P!Spec
-----------------------------------------------------------------------------
(***************************************************************************)
(* Type correctness, component by component.                               *)
(***************************************************************************)
LEMMA TimersTyped == T!TypeOK /\ [Next]_vars => T!TypeOK'
<1> SUFFICES ASSUME T!TypeOK, [Next]_vars PROVE T!TypeOK'
  OBVIOUS
<1> USE SecondsAssumption, MinutesAssumption DEF T!TypeOK, T!TimerIds
<1>1. CASE EndRetryWindow \/ MinuteTick
  BY <1>1 DEF EndRetryWindow, MinuteTick, T!Lower
<1>2. CASE FirstRun
  BY <1>2 DEF FirstRun, T!AttachAll
<1>3. CASE LoopTop
  <2>1. CASE T!DetachFast
    BY <2>1 DEF T!DetachFast
  <2>2. CASE UNCHANGED timers
    BY <2>2 DEF timers
  <2> QED BY <1>3, <2>1, <2>2 DEF LoopTop, FastTick
<1>4. CASE PushAndBlink
  BY <1>4 DEF PushAndBlink, TimeBlink, T!AttachFast, SlowTickDone, T!Lower
<1>5. CASE Register
  BY <1>5 DEF Register, SlowTickDone, T!Lower
<1>6. CASE SysRestart \/ PowerCycle \/ DivideByZero
  <2>1. T!Stop
    BY <1>6 DEF SysRestart, PowerCycle, DivideByZero, Reset
  <2> QED BY <2>1 DEF T!Stop
<1>7. CASE FastCallback
  BY <1>7 DEF FastCallback, T!timer0Callback, T!Raise
<1>8. CASE SecondCallback
  BY <1>8 DEF SecondCallback, T!timer1Callback, T!Raise
<1>9. CASE MinuteCallback
  BY <1>9 DEF MinuteCallback, T!timer2Callback, T!Raise
<1>10. CASE UNCHANGED timers
  BY <1>10 DEF timers
<1> QED
  BY <1>1, <1>2, <1>3, <1>4, <1>5, <1>6, <1>7, <1>8, <1>9, <1>10
  DEF Next, Sketch, WebRequest, Surroundings, vars, ConnectRound, EndSetup,
      NoMinuteTick, RetryWindow, FlagStaysUp, NoRequest, ConfigLoad, SetLED

LEMMA RoundTyped == W!TypeOK /\ W!connectWiFiRound => W!TypeOK'
<1> SUFFICES ASSUME W!TypeOK, W!connectWiFiRound PROVE W!TypeOK'
  OBVIOUS
<1> USE TriesAssumption DEF W!TypeOK, W!Inside, W!MaybeNetwork
<1>1. CASE W!FindConnected
  BY <1>1 DEF W!FindConnected, W!Succeed, W!radio
<1>2. CASE W!AwaitScan
  BY <1>2 DEF W!AwaitScan, W!TryAgain, W!radio
<1>3. CASE W!StartScan
  BY <1>3 DEF W!StartScan, W!TryAgain, W!ClearSettings
<1>4. CASE W!FindNoKnown
  BY <1>4 DEF W!FindNoKnown, W!TryAgain, W!DropResults
<1>5. ASSUME NEW n \in Networks, W!Join(n) PROVE W!TypeOK'
  BY <1>5 DEF W!Join, W!Succeed, W!DropResults
<1>6. ASSUME NEW n \in Networks, W!FailToJoin(n) PROVE W!TypeOK'
  BY <1>6 DEF W!FailToJoin, W!TryAgain, W!DropResults
<1> QED
  BY <1>1, <1>2, <1>3, <1>4, <1>5, <1>6 DEF W!connectWiFiRound, W!JoinKnown

LEMMA RadioTyped == W!TypeOK /\ W!radioStep => W!TypeOK'
<1> SUFFICES ASSUME W!TypeOK, W!radioStep PROVE W!TypeOK'
  OBVIOUS
<1> USE DEF W!TypeOK, W!MaybeNetwork, W!device
<1>1. CASE W!ScanDone \/ W!ScanFails
  BY <1>1 DEF W!ScanDone, W!ScanFails
<1>2. CASE W!AirChanges
  BY <1>2 DEF W!AirChanges
<1>3. CASE W!AutoJoin
  BY <1>3 DEF W!AutoJoin
<1> QED BY <1>1, <1>2, <1>3 DEF W!radioStep

LEMMA StationTyped == W!TypeOK /\ [Next]_vars => W!TypeOK'
<1> SUFFICES ASSUME W!TypeOK, [Next]_vars PROVE W!TypeOK'
  OBVIOUS
<1>1. CASE ConnectRound \/ EndSetup \/ EndRetryWindow
  BY <1>1, RoundTyped DEF ConnectRound, EndSetup, EndRetryWindow
<1>2. CASE RetryWindow
  BY <1>2, TriesAssumption DEF RetryWindow, W!connectWiFi, W!TypeOK, W!radio
<1>3. CASE ConfigLoad
  BY <1>3 DEF ConfigLoad, W!LoadNetworks, W!TypeOK, W!radio
<1>4. CASE SysRestart \/ PowerCycle \/ DivideByZero
  <2>1. W!Boot
    BY <1>4 DEF SysRestart, PowerCycle, DivideByZero, Reset
  <2>2. x' \in 0..ConnectTries
    BY <2>1, TriesAssumption DEF W!Boot
  <2>3. cfgWiFiSSIDs' \in Configs /\ APlist' \in Configs /\ WiFiClientConnected' \in BOOLEAN
    BY <2>1 DEF W!Boot
  <2> QED BY <2>1, <2>2, <2>3 DEF W!Boot, W!TypeOK, W!MaybeNetwork
<1>5. CASE W!radioStep
  BY <1>5, RadioTyped
<1>6. CASE UNCHANGED wifi
  BY <1>6 DEF wifi, W!TypeOK
<1> QED
  BY <1>1, <1>2, <1>3, <1>4, <1>5, <1>6
  DEF Next, Sketch, WebRequest, Surroundings, vars, FirstRun, LoopTop,
      PushAndBlink, Register, NoMinuteTick, MinuteTick, NoRequest, SetLED,
      FastCallback, SecondCallback, MinuteCallback

(***************************************************************************)
(* The counter of slow ticks stays below its step everywhere but at the    *)
(* registration that sets it back; without this its type is not inductive. *)
(***************************************************************************)
CounterInv == pc # "register" => iteration < ControlServerStep

OwnInv == OwnTypeOK /\ CounterInv

LEMMA OwnTyped == OwnInv /\ [Next]_vars => OwnInv'
<1> SUFFICES ASSUME OwnInv, [Next]_vars PROVE OwnInv'
  OBVIOUS
<1> USE StepAssumption DEF OwnInv, OwnTypeOK, CounterInv, Points, Goto
<1>1. CASE ConnectRound \/ EndSetup \/ EndRetryWindow
  BY <1>1 DEF ConnectRound, EndSetup, EndRetryWindow, own
<1>2. CASE FirstRun
  BY <1>2 DEF FirstRun
<1>3. CASE LoopTop
  BY <1>3 DEF LoopTop, FastTick
<1>4. CASE PushAndBlink
  BY <1>4 DEF PushAndBlink, RegistrationDue
<1>5. CASE Register
  BY <1>5 DEF Register
<1>6. CASE NoMinuteTick \/ MinuteTick \/ RetryWindow \/ NoRequest
  BY <1>6 DEF NoMinuteTick, MinuteTick, RetryWindow, NoRequest, Served
<1>7. CASE ConfigLoad
  BY <1>7 DEF ConfigLoad, Served
<1>8. CASE SetLED
  BY <1>8 DEF SetLED, Served
<1>9. CASE SysRestart \/ PowerCycle \/ DivideByZero
  <2>1. Reset
    BY <1>9 DEF SysRestart, PowerCycle, DivideByZero
  <2>2. firstRun' \in BOOLEAN
    BY <2>1 DEF Reset
  <2> QED BY <2>1, <2>2 DEF Reset
<1>10. CASE UNCHANGED own
  BY <1>10 DEF own
<1> QED
  BY <1>1, <1>2, <1>3, <1>4, <1>5, <1>6, <1>7, <1>8, <1>9, <1>10
  DEF Next, Sketch, WebRequest, FastCallback, SecondCallback, MinuteCallback,
      Surroundings, vars

LoopInv == TypeOK /\ CounterInv

LEMMA LoopInvInit == Init => LoopInv
<1> SUFFICES ASSUME Init PROVE LoopInv
  OBVIOUS
<1>1. T!TypeOK
  BY SecondsAssumption, MinutesAssumption DEF Init, T!Init, T!TypeOK
<1>2. C!TypeOK
  BY ServersTyped DEF Init
<1>3. W!TypeOK
  <2>1. WiFiClientConnected \in BOOLEAN
    BY DEF Init, W!Init
  <2>2. x \in 0..ConnectTries
    BY TriesAssumption DEF Init, W!Init
  <2> QED BY <2>1, <2>2 DEF Init, W!Init, W!TypeOK, W!MaybeNetwork
<1>4. OwnTypeOK /\ CounterInv
  <2>1. firstRun \in BOOLEAN
    BY DEF Init
  <2> QED BY <2>1, StepAssumption DEF Init, OwnTypeOK, CounterInv, Points
<1> QED BY <1>1, <1>2, <1>3, <1>4 DEF LoopInv, TypeOK

LEMMA LoopInvStep == LoopInv /\ [Next]_vars => LoopInv'
BY StepDrivesServers, ServersTypeStep, TimersTyped, StationTyped, OwnTyped
DEF LoopInv, TypeOK, OwnInv

\* Every variable of the composition keeps its type; the counter of slow
\* ticks, tested for equality only, never runs past ControlServerStep
\* (main.cpp lines 149-153).
THEOREM LoopTypeCorrect == Spec => []TypeOK
<1>1. LoopInv => TypeOK
  BY DEF LoopInv
<1> QED BY <1>1, LoopInvInit, LoopInvStep, PTL DEF Spec
-----------------------------------------------------------------------------
(***************************************************************************)
(* The retry window. The invariant is inductive with the types: the window *)
(* is entered by a step that unregisters everyone, no step inside it       *)
(* registers anyone, and a reset starts with no registration.              *)
(***************************************************************************)
LEMMA WindowInit == Init => NobodyRegisteredInWindow
BY DEF Init, C!Init, NobodyRegisteredInWindow, Slots

LEMMA WindowStep ==
  NobodyRegisteredInWindow /\ [Next]_vars => NobodyRegisteredInWindow'
<1> SUFFICES ASSUME NobodyRegisteredInWindow, [Next]_vars, pc' = "connect",
                    NEW i \in Slots
             PROVE  ControlServersStatus'[i] # C!Registered
  BY DEF NobodyRegisteredInWindow, Slots, C!Slots
<1>1. CASE RetryWindow
  BY <1>1 DEF RetryWindow, UnregisterServers, C!UnregisterAll, Slots
<1>2. CASE SysRestart \/ PowerCycle \/ DivideByZero
  <2>1. C!Boot
    BY <1>2 DEF SysRestart, PowerCycle, DivideByZero, Reset
  <2> QED BY <2>1 DEF C!Boot, Slots
<1>3. CASE pc = "connect" /\ UNCHANGED ControlServersStatus
  BY <1>3 DEF NobodyRegisteredInWindow
<1>4. CASE ~(SysRestart \/ PowerCycle \/ DivideByZero \/ RetryWindow)
  <2>1. pc = "connect"
    BY <1>4 DEF Next, Sketch, WebRequest, ConnectRound, EndSetup, EndRetryWindow,
       FirstRun, LoopTop, PushAndBlink, Register, NoMinuteTick, MinuteTick,
       NoRequest, ConfigLoad, SetLED, FastCallback, SecondCallback,
       MinuteCallback, Surroundings, Goto, own, vars
  <2>2. UNCHANGED ControlServersStatus
    BY <1>4, <2>1 DEF Served, Next, Sketch, WebRequest, ConnectRound, EndSetup, EndRetryWindow,
       FirstRun, LoopTop, PushAndBlink, Register, NoMinuteTick, MinuteTick,
       NoRequest, ConfigLoad, SetLED, FastCallback, SecondCallback,
       MinuteCallback, Surroundings, Goto, own, vars, servers,
       C!ServerComesOrGoes, C!ServerForgets, C!status
  <2> QED BY <1>3, <2>1, <2>2
<1> QED BY <1>1, <1>2, <1>4

\* No server counts as registered while connectWiFi runs, in setup() and in
\* every retry window, whatever happened before it (main.cpp lines 79, 167-178).
THEOREM WindowIsClean == Spec => []NobodyRegisteredInWindow
BY WindowInit, WindowStep, PTL DEF Spec
-----------------------------------------------------------------------------
(***************************************************************************)
(* Flags. Only a handler that ends lowers its own flag, so where it yields *)
(* the flag is up; a reset stops all timers and starts with none attached. *)
(***************************************************************************)
LEMMA FlagInit == Init => HandlerHoldsFlag
BY DEF Init, T!Init, T!TimerIds, HandlerHoldsFlag

LEMMA FlagStep ==
  T!TypeOK /\ HandlerHoldsFlag /\ [Next]_vars => HandlerHoldsFlag'
<1> SUFFICES ASSUME T!TypeOK, HandlerHoldsFlag, [Next]_vars PROVE HandlerHoldsFlag'
  OBVIOUS
<1> USE DEF HandlerHoldsFlag, T!TypeOK, T!TimerIds, Goto
<1>1. CASE ConnectRound
  BY <1>1 DEF ConnectRound, timers, own
<1>2. CASE EndSetup \/ EndRetryWindow
  BY <1>2 DEF EndSetup, EndRetryWindow, timers, T!Lower
<1>3. CASE FirstRun
  BY <1>3 DEF FirstRun, T!AttachAll
<1>4. CASE LoopTop
  <2>1. CASE T!DetachFast
    BY <1>4, <2>1 DEF LoopTop, T!DetachFast
  <2>2. CASE UNCHANGED timers
    BY <1>4, <2>2 DEF LoopTop, timers
  <2> QED BY <1>4, <2>1, <2>2 DEF LoopTop, FastTick
<1>5. CASE PushAndBlink
  BY <1>5 DEF PushAndBlink, TimeBlink, T!AttachFast, SlowTickDone, T!Lower
<1>6. CASE Register
  BY <1>6 DEF Register, SlowTickDone, T!Lower
<1>7. CASE NoMinuteTick \/ MinuteTick
  BY <1>7 DEF NoMinuteTick, MinuteTick, T!Lower, timers
<1>8. CASE RetryWindow
  BY <1>8 DEF RetryWindow, FlagStaysUp, timers
<1>9. CASE NoRequest \/ ConfigLoad \/ SetLED
  BY <1>9 DEF NoRequest, ConfigLoad, SetLED, timers
<1>10. CASE SysRestart \/ PowerCycle \/ DivideByZero
  <2>1. pc' = "connect" /\ ~firstRun'
    BY <1>10 DEF SysRestart, PowerCycle, DivideByZero, Reset
  <2>2. T!Stop
    BY <1>10 DEF SysRestart, PowerCycle, DivideByZero, Reset
  <2> QED BY <2>1, <2>2 DEF T!Stop
<1>11. CASE FastCallback
  BY <1>11 DEF FastCallback, T!timer0Callback, T!Raise, own
<1>12. CASE SecondCallback
  BY <1>12 DEF SecondCallback, T!timer1Callback, T!Raise, own
<1>13. CASE MinuteCallback
  BY <1>13 DEF MinuteCallback, T!timer2Callback, T!Raise, own
<1>14. CASE Surroundings \/ UNCHANGED vars
  BY <1>14 DEF Surroundings, vars, timers, own
<1> QED
  BY <1>1, <1>2, <1>3, <1>4, <1>5, <1>6, <1>7, <1>8, <1>9, <1>10, <1>11, <1>12,
     <1>13, <1>14
  DEF Next, Sketch, WebRequest

\* A callback that comes while a handler of its timer waits for a server or
\* for the Wi-Fi finds the flag still raised, so it cannot start the handler
\* again, in it or after it (main.cpp lines 134-156 and 160-181).
THEOREM FlagsHeld == Spec => []HandlerHoldsFlag
<1>1. LoopInv => T!TypeOK
  BY DEF LoopInv, TypeOK
<1> QED BY <1>1, LoopInvInit, LoopInvStep, FlagInit, FlagStep, PTL DEF Spec
-----------------------------------------------------------------------------
(***************************************************************************)
(* The disabled servers. The minute tick keeps the status, a registration  *)
(* only reaches eligible slots, a loaded configuration leaves statuses.    *)
(***************************************************************************)
LEMMA RegisterKeepsDisabled ==
  ASSUME C!TypeOK, Register, NEW i \in Slots, ControlServersStatus[i] = C!Disabled
  PROVE  ControlServersStatus'[i] = C!Disabled
<1>1. CASE C!RegisterNobody
  BY <1>1 DEF C!RegisterNobody
<1>2. ASSUME NEW j \in Slots, C!RegisterAccepted(j) \/ C!RegisterFailed(j)
      PROVE  ControlServersStatus'[i] = C!Disabled
  <2>1. i # j
    BY <1>2 DEF C!RegisterAccepted, C!RegisterFailed, C!Chosen, C!Eligible
  <2> QED BY <1>2, <2>1 DEF C!RegisterAccepted, C!RegisterFailed, C!TypeOK, Slots
<1> QED BY <1>1, <1>2 DEF Register, Accepted

\* A server that was given up stays so until a retry window ends or the device
\* starts anew, whatever minutes, requests and configurations come before
\* (main.cpp lines 167-178, ESP-WebClient.cpp line 34).
THEOREM DisabledStay == Spec => DisabledUntilWindow
<1>1. LoopInv /\ [Next]_vars =>
        \A i \in Slots :
          ControlServersStatus[i] = C!Disabled /\ ControlServersStatus'[i] # C!Disabled
            => EndRetryWindow \/ SysRestart \/ PowerCycle \/ DivideByZero
  <2>1. SUFFICES ASSUME LoopInv, [Next]_vars, NEW i \in Slots,
                        ControlServersStatus[i] = C!Disabled,
                        ~(EndRetryWindow \/ SysRestart \/ PowerCycle \/ DivideByZero)
                 PROVE  ControlServersStatus'[i] = C!Disabled
    OBVIOUS
  <2>2. CASE Register
    BY <2>1, <2>2, RegisterKeepsDisabled DEF LoopInv, TypeOK
  <2>3. CASE MinuteTick \/ RetryWindow
    BY <2>1, <2>3 DEF MinuteTick, RetryWindow, UnregisterServers, C!UnregisterAll, Slots
  <2>4. CASE UNCHANGED ControlServersStatus
    BY <2>1, <2>4
  <2> QED
    BY <2>1, <2>2, <2>3, <2>4
    DEF Next, Sketch, WebRequest, ConnectRound, EndSetup, FirstRun, LoopTop,
        PushAndBlink, NoMinuteTick, NoRequest, ConfigLoad, C!LoadConfig, SetLED,
        FastCallback, SecondCallback, MinuteCallback, Surroundings,
        C!ServerComesOrGoes, C!ServerForgets, C!status, servers, vars
<1> QED BY <1>1, LoopInvInit, LoopInvStep, PTL DEF Spec, DisabledUntilWindow
-----------------------------------------------------------------------------
(***************************************************************************)
(* The station. loop() may enter connectWiFi, or load a configuration,     *)
(* only when no round is left over: it is at the point "connect" exactly   *)
(* as long as the loop variable of connectWiFi is below its bound.         *)
(***************************************************************************)
RoundsInv == pc = "connect" <=> W!Inside

LEMMA RoundsInit == Init => RoundsInv
BY TriesAssumption DEF Init, W!Init, RoundsInv, W!Inside

LEMMA ResetStation ==
  ASSUME SysRestart \/ PowerCycle \/ DivideByZero
  PROVE  W!Boot /\ pc' = "connect"
BY DEF SysRestart, PowerCycle, DivideByZero, Reset, Goto

LEMMA RoundsStep == RoundsInv /\ [Next]_vars => RoundsInv'
<1> SUFFICES ASSUME RoundsInv, [Next]_vars PROVE RoundsInv'
  OBVIOUS
<1> USE TriesAssumption DEF RoundsInv, W!Inside, Goto
<1>1. CASE ConnectRound \/ EndSetup \/ EndRetryWindow
  BY <1>1 DEF ConnectRound, EndSetup, EndRetryWindow, own
<1>2. CASE RetryWindow
  BY <1>2 DEF RetryWindow, W!connectWiFi
<1>3. CASE SysRestart \/ PowerCycle \/ DivideByZero
  <2>1. W!Boot /\ pc' = "connect"
    BY <1>3, ResetStation
  <2> QED BY <2>1 DEF W!Boot
<1>4. CASE FirstRun
  BY <1>4 DEF FirstRun, wifi
<1>5. CASE LoopTop \/ PushAndBlink \/ Register \/ NoMinuteTick \/ MinuteTick
  BY <1>5 DEF LoopTop, PushAndBlink, Register, NoMinuteTick, MinuteTick, wifi
<1>6. CASE NoRequest \/ ConfigLoad \/ SetLED
  BY <1>6 DEF Served, NoRequest, ConfigLoad, W!LoadNetworks, SetLED, wifi
<1>7. CASE FastCallback \/ SecondCallback \/ MinuteCallback
  BY <1>7 DEF FastCallback, SecondCallback, MinuteCallback, wifi, own
<1>8. CASE Surroundings
  BY <1>8 DEF Surroundings, W!radioStep, W!ScanDone, W!ScanFails, W!AirChanges,
     W!AutoJoin, W!device, wifi, own
<1>9. CASE UNCHANGED vars
  BY <1>9 DEF vars, wifi, own
<1> QED
  BY <1>1, <1>2, <1>3, <1>4, <1>5, <1>6, <1>7, <1>8, <1>9 DEF Next, Sketch, WebRequest

LEMMA StepDrivesStation ==
  W!TypeOK /\ RoundsInv /\ [Next]_vars => [W!Next]_(W!wifi)
<1> SUFFICES ASSUME W!TypeOK, RoundsInv, [Next]_vars PROVE W!Next \/ UNCHANGED W!wifi
  OBVIOUS
<1>1. CASE ConnectRound \/ EndSetup \/ EndRetryWindow
  BY <1>1 DEF ConnectRound, EndSetup, EndRetryWindow, W!Next
<1>2. CASE RetryWindow
  BY <1>2 DEF RetryWindow, W!Next
<1>3. CASE ConfigLoad
  <2>1. pc # "connect"
    BY <1>3 DEF ConfigLoad, Served
  <2>2. x = ConnectTries
    BY <2>1, TriesAssumption DEF RoundsInv, W!Inside, W!TypeOK
  <2> QED BY <1>3, <2>2 DEF ConfigLoad, W!Next
<1>4. CASE SysRestart \/ PowerCycle \/ DivideByZero
  BY <1>4, ResetStation DEF W!Next
<1>5. CASE W!radioStep
  BY <1>5 DEF W!Next
<1>6. CASE UNCHANGED wifi
  BY <1>6 DEF wifi, W!wifi, W!device, W!radio
<1> QED
  BY <1>1, <1>2, <1>3, <1>4, <1>5, <1>6
  DEF Next, Sketch, WebRequest, Surroundings, vars, FirstRun, LoopTop,
      PushAndBlink, Register, NoMinuteTick, MinuteTick, NoRequest, SetLED,
      FastCallback, SecondCallback, MinuteCallback

\* loop() uses the station as its own module allows: connectWiFi is not
\* entered twice, its rounds end before loop() goes on, and a configuration is
\* loaded between two windows only (main.cpp lines 79, 174, 185).
THEOREM StationDriven == Spec => KeepsStation
<1>1. Init => W!Init
  BY DEF Init
<1>2. LoopInv => W!TypeOK
  BY DEF LoopInv, TypeOK
<1> QED
  BY <1>1, <1>2, LoopInvInit, LoopInvStep, RoundsInit, RoundsStep,
     StepDrivesStation, PTL
  DEF Spec, KeepsStation, W!Spec

\* Q is the same instance as W, with the lemmas of WiFiClientProofs.
LEMMA SameStation ==
  /\ W!Init <=> Q!Init
  /\ W!Next <=> Q!Next
  /\ W!wifi = Q!wifi /\ W!wifi' = Q!wifi'
  /\ W!OldSettingsEndWithScan <=> Q!OldSettingsEndWithScan
<1>1. W!Init <=> Q!Init
  BY DEF W!Init, Q!Init, W!MaybeNetwork, Q!MaybeNetwork
<1>2. W!wifi = Q!wifi /\ W!wifi' = Q!wifi'
  BY DEF W!wifi, Q!wifi, W!device, Q!device, W!radio, Q!radio
<1>3. W!Next <=> Q!Next
  BY Zenon DEF W!Next, Q!Next, W!connectWiFiRound, Q!connectWiFiRound,
     W!FindConnected, Q!FindConnected, W!AwaitScan, Q!AwaitScan,
     W!StartScan, Q!StartScan, W!FindNoKnown, Q!FindNoKnown,
     W!JoinKnown, Q!JoinKnown, W!Join, Q!Join, W!FailToJoin, Q!FailToJoin,
     W!connectWiFi, Q!connectWiFi, W!radioStep, Q!radioStep,
     W!ScanDone, Q!ScanDone, W!ScanFails, Q!ScanFails,
     W!AirChanges, Q!AirChanges, W!AutoJoin, Q!AutoJoin,
     W!LoadNetworks, Q!LoadNetworks, W!Boot, Q!Boot, W!Inside, Q!Inside,
     W!Succeed, Q!Succeed, W!TryAgain, Q!TryAgain, W!Known, Q!Known,
     W!ClearSettings, Q!ClearSettings, W!DropResults, Q!DropResults,
     W!device, Q!device, W!radio, Q!radio
<1>4. W!OldSettingsEndWithScan <=> Q!OldSettingsEndWithScan
  BY DEF W!OldSettingsEndWithScan, Q!OldSettingsEndWithScan
<1> QED BY <1>1, <1>2, <1>3, <1>4

\* Composed with loop(), the settings of an older configuration still end with
\* the first scan, whatever is loaded between the windows
\* (ESP8266WiFiMulti::run, main.cpp lines 79, 174, 185).
THEOREM StationForgets == Spec => []W!OldSettingsEndWithScan
<1>1. Q!Spec => []Q!OldSettingsEndWithScan
  BY Q!OldSettingsGone, TriesAssumption, NetworksAssumption, ConfigsAssumption
<1>2. (W!Init => Q!Init) /\ ([W!Next]_(W!wifi) => [Q!Next]_(Q!wifi))
  BY SameStation
<1>3. Q!OldSettingsEndWithScan => W!OldSettingsEndWithScan
  BY SameStation
<1> QED
  BY <1>1, <1>2, <1>3, StationDriven, PTL DEF KeepsStation, W!Spec, Q!Spec
=============================================================================
