------------------------------ MODULE MainLoop ------------------------------
(***************************************************************************)
(* setup() and loop() of src/main.cpp over the three components they       *)
(* drive: the timers, the control servers and the Wi-Fi station.           *)
(*                                                                         *)
(* There is one thread, and the timer callbacks run only while the sketch  *)
(* yields to the SDK: inside an HTTP request, in delay(), in the Web       *)
(* server and Blynk. An action is the code between two such points, and    *)
(* Yielding says at which of them a callback can come in. The flag of a    *)
(* timer is lowered when its handler ends, so a callback that comes while  *)
(* the handler yields leaves no trace but its counter.                     *)
(***************************************************************************)
EXTENDS Integers

CONSTANTS SecondsPerMinute, MinutesPerHour,
          ControlServersCount, Servers, Forgetful, RetryCounts,
          Networks, NoNetwork, ConnectTries, Configs,
          ControlServerStep,   \* seconds per registration, 2 in the code
          RetryMinutes,        \* values of ControlServersRetryMinutes
          Requests             \* what Web clients and users do to the device

VARIABLES armed, tickTimer, sysSeconds, sysMinutes,
          cfgControlServers, cfgControlServersRetryCount,
          ControlServersStatus, ControlServersIndex, up, holds, waited,
          cfgWiFiSSIDs, APlist, WiFiClientConnected, x,
          scan, found, air, link, remembered,
          cfgControlServersRetryMinutes,
          pc,           \* the yield point the sketch is at
          firstRun,     \* loop() has attached the timers
          iteration,    \* slow ticks since the last registration
          LED1          \* level of the pin, the LED lights on LOW

T == INSTANCE Timers
C == INSTANCE ControlServers
W == INSTANCE WiFiClient

timers  == <<armed, tickTimer, sysSeconds, sysMinutes>>
servers == <<cfgControlServers, cfgControlServersRetryCount,
             ControlServersStatus, ControlServersIndex, waited, up, holds>>
wifi    == <<cfgWiFiSSIDs, APlist, WiFiClientConnected, x,
             scan, found, air, link, remembered>>
own     == <<cfgControlServersRetryMinutes, pc, firstRun, iteration, LED1>>
vars    == <<timers, servers, wifi, own>>

\* The assumptions of the components, and the two of the loop itself.
ASSUME SecondsAssumption == SecondsPerMinute \in Nat \ {0}
ASSUME MinutesAssumption == MinutesPerHour \in Nat \ {0}
ASSUME CountAssumption == ControlServersCount \in 1..255
ASSUME RetryCountsAssumption == RetryCounts \subseteq Int
ASSUME ServersAssumption == Forgetful \subseteq Servers
ASSUME TriesAssumption == ConnectTries \in Nat \ {0}
ASSUME NetworksAssumption == NoNetwork \notin Networks
ASSUME ConfigsAssumption == Configs \subseteq SUBSET Networks
ASSUME StepAssumption == ControlServerStep \in 1..255
ASSUME RetryMinutesAssumption == RetryMinutes \subseteq Int

Slots == C!Slots
Points == {"connect", "loop", "push", "register", "minute", "serve"}

OwnTypeOK ==
  /\ cfgControlServersRetryMinutes \in RetryMinutes
  /\ pc \in Points
  /\ firstRun \in BOOLEAN
  /\ iteration \in 0..ControlServerStep
  /\ LED1 \in {"LOW", "HIGH"}

TypeOK == T!TypeOK /\ C!TypeOK /\ W!TypeOK /\ OwnTypeOK

\* setup() has loaded config.json and enters connectWiFi.
Init ==
  /\ T!Init /\ C!Init /\ W!Init
  /\ cfgControlServersRetryMinutes \in RetryMinutes
  /\ pc = "connect"
  /\ firstRun = FALSE
  /\ iteration = 0
  /\ LED1 = "LOW"

Goto(point) == pc' = point
-----------------------------------------------------------------------------
(***************************************************************************)
(* connectWiFi, called from setup() and from a retry window.               *)
(***************************************************************************)
ConnectRound ==
  /\ pc = "connect"
  /\ W!connectWiFiRound
  /\ W!Inside'
  /\ UNCHANGED <<timers, servers, own>>

\* connectWiFi returns to setup(), which ends, and loop() begins.
EndSetup ==
  /\ pc = "connect" /\ ~firstRun
  /\ W!connectWiFiRound
  /\ ~W!Inside'
  /\ Goto("loop")
  /\ UNCHANGED <<timers, servers,
                 cfgControlServersRetryMinutes, firstRun, iteration, LED1>>

\* Mutant: only what is registered is set back to 0.
EnableNoDisabled == C!UnregisterAll

EnableServers == C!EnableAll

\* connectWiFi returns to the minute handler.
EndRetryWindow ==
  /\ pc = "connect" /\ firstRun
  /\ W!connectWiFiRound
  /\ ~W!Inside'
  /\ EnableServers
  /\ T!Lower(2)
  /\ Goto("serve")
  /\ UNCHANGED <<armed, sysSeconds, sysMinutes,
                 cfgControlServersRetryMinutes, firstRun, iteration, LED1>>
-----------------------------------------------------------------------------
(***************************************************************************)
(* The top of loop(): the first run, then the fast tick.                   *)
(***************************************************************************)
FirstRun ==
  /\ pc = "loop" /\ ~firstRun
  /\ firstRun' = TRUE
  /\ T!AttachAll
  /\ UNCHANGED <<servers, wifi,
                 cfgControlServersRetryMinutes, pc, iteration, LED1>>

FastTick ==
  \/ /\ tickTimer[0]
     /\ LED1' = IF WiFiClientConnected THEN "HIGH" ELSE LED1
     /\ T!DetachFast
  \/ ~tickTimer[0] /\ UNCHANGED <<timers, LED1>>

LoopTop ==
  /\ pc = "loop" /\ firstRun
  /\ FastTick
  /\ Goto(IF tickTimer[1] THEN "push" ELSE "minute")
  /\ UNCHANGED <<servers, wifi,
                 cfgControlServersRetryMinutes, firstRun, iteration>>
-----------------------------------------------------------------------------
(***************************************************************************)
(* The slow tick: push, blink, and a registration every second time.       *)
(***************************************************************************)
\* Mutant: the registration waits for one tick more.
DueLate(n) == n > ControlServerStep

RegistrationDue(n) == n = ControlServerStep

\* Mutant: the blink is not timed.
LeaveFast == UNCHANGED <<armed, sysSeconds, sysMinutes>>

TimeBlink == T!AttachFast

\* Mutant: the slow tick forgets the other flags too.
AllTicksDone == tickTimer' = [t \in T!TimerIds |-> FALSE]

SlowTickDone == T!Lower(1)

\* ControlServerPushData looks at no answer; then the LED lights and the
\* fast timer is attached to put it out.
PushAndBlink ==
  /\ pc = "push"
  /\ LED1' = IF WiFiClientConnected THEN "LOW" ELSE LED1
  /\ TimeBlink
  /\ iteration' = iteration + 1
  /\ \/ /\ RegistrationDue(iteration + 1)
        /\ Goto("register")
        /\ UNCHANGED tickTimer
     \/ /\ ~RegistrationDue(iteration + 1)
        /\ Goto("minute")
        /\ SlowTickDone
  /\ UNCHANGED <<servers, wifi,
                 cfgControlServersRetryMinutes, firstRun>>

\* Requests travel over the station's link only.
Linked == link # NoNetwork

Accepted(i) == Linked /\ C!RegisterAccepted(i)

Register ==
  /\ pc = "register"
  /\ \/ \E i \in Slots : Accepted(i)
     \/ /\ \E i \in Slots : C!RegisterFailed(i)
        /\ Linked \/ holds' = holds
     \/ C!RegisterNobody
  /\ iteration' = 0
  /\ SlowTickDone
  /\ Goto("minute")
  /\ UNCHANGED <<armed, sysSeconds, sysMinutes, wifi,
                 cfgControlServersRetryMinutes, firstRun, LED1>>
-----------------------------------------------------------------------------
(***************************************************************************)
(* The very slow tick.                                                     *)
(***************************************************************************)
\* A remainder is zero or not whatever the sign of the divisor.
RetryPeriod == IF cfgControlServersRetryMinutes < 0
               THEN -cfgControlServersRetryMinutes
               ELSE cfgControlServersRetryMinutes

\* Mutants: no window in the first minute of the hour; one minute late.
WindowNotAtZero == sysMinutes # 0 /\ sysMinutes % RetryPeriod = 0
WindowLate == sysMinutes % RetryPeriod = 1

RetryWindowNow == sysMinutes % RetryPeriod = 0

\* Mutants: registrations stay; everything is set back to 0.
NobodyUnregistered == UNCHANGED servers
EverybodyEnabled == C!EnableAll

UnregisterServers == C!UnregisterAll

NoMinuteTick ==
  /\ pc = "minute" /\ ~tickTimer[2]
  /\ Goto("serve")
  /\ UNCHANGED <<timers, servers, wifi,
                 cfgControlServersRetryMinutes, firstRun, iteration, LED1>>

\* Mutant: a period of 0 means that there are no windows.
NoWindowAtZero == IF cfgControlServersRetryMinutes = 0 THEN TRUE ELSE ~RetryWindowNow

OrdinaryMinute == cfgControlServersRetryMinutes # 0 /\ ~RetryWindowNow

MinuteTick ==
  /\ pc = "minute" /\ tickTimer[2]
  /\ OrdinaryMinute
  /\ UnregisterServers
  /\ T!Lower(2)
  /\ Goto("serve")
  /\ UNCHANGED <<armed, sysSeconds, sysMinutes, wifi,
                 cfgControlServersRetryMinutes, firstRun, iteration, LED1>>

\* Mutant: the minute's flag is lowered before connectWiFi.
LoweredFirst == T!Lower(2) /\ UNCHANGED <<armed, sysSeconds, sysMinutes>>

FlagStaysUp == UNCHANGED timers

RetryWindow ==
  /\ pc = "minute" /\ tickTimer[2]
  /\ cfgControlServersRetryMinutes # 0 /\ RetryWindowNow
  /\ UnregisterServers
  /\ W!connectWiFi
  /\ FlagStaysUp
  /\ Goto("connect")
  /\ UNCHANGED <<cfgControlServersRetryMinutes, firstRun, iteration, LED1>>
-----------------------------------------------------------------------------
(***************************************************************************)
(* The rest of loop(): the Web server handles a request or none.           *)
(***************************************************************************)
\* Mutant: requests are also handled while connectWiFi waits.
ServedAlways == pc \in {"serve", "connect"}

Served == pc = "serve"

NoRequest ==
  /\ Served
  /\ Goto("loop")
  /\ UNCHANGED <<timers, servers, wifi,
                 cfgControlServersRetryMinutes, firstRun, iteration, LED1>>

\* /configLoad: statuses, APlist and timers are not looked at again.
ConfigLoad ==
  /\ "configLoad" \in Requests
  /\ Served
  /\ C!LoadConfig
  /\ W!LoadNetworks
  /\ cfgControlServersRetryMinutes' \in RetryMinutes
  /\ Goto("loop")
  /\ UNCHANGED <<timers, firstRun, iteration, LED1>>

\* /setGPIO2/on and /off drive the pin of the LED.
SetLED ==
  /\ "setGPIO" \in Requests
  /\ Served
  /\ LED1' \in {"LOW", "HIGH"}
  /\ Goto("loop")
  /\ UNCHANGED <<timers, servers, wifi,
                 cfgControlServersRetryMinutes, firstRun, iteration>>

\* The RAM starts from its initial values, what is outside it stays.
Reset ==
  /\ T!Stop /\ C!Boot /\ W!Boot
  /\ cfgControlServersRetryMinutes' \in RetryMinutes
  /\ Goto("connect")
  /\ firstRun' = FALSE
  /\ iteration' = 0
  /\ LED1' = "LOW"

SysRestart == "sysRestart" \in Requests /\ Served /\ Reset

PowerCycle == "power" \in Requests /\ Reset

\* A remainder by zero raises an exception, and the device resets.
DivideByZero ==
  /\ pc = "minute" /\ tickTimer[2]
  /\ cfgControlServersRetryMinutes = 0
  /\ Reset
-----------------------------------------------------------------------------
(***************************************************************************)
(* The timers.                                                             *)
(***************************************************************************)
Yielding ==
  \/ pc = "serve"
  \/ pc = "connect" /\ (~Linked \/ x > 0)
  \/ pc = "push" /\ \E i \in Slots : ControlServersStatus[i] = C!Registered
  \/ pc = "register" /\ \E i \in Slots : C!Eligible(i)

FastCallback   == Yielding /\ T!timer0Callback
                  /\ UNCHANGED <<servers, wifi, own>>

SecondCallback == Yielding /\ T!timer1Callback
                  /\ UNCHANGED <<servers, wifi, own>>

MinuteCallback ==
  /\ Yielding
  /\ T!timer2Callback
  /\ UNCHANGED <<servers, wifi, own>>

Surroundings ==
  \/ /\ W!radioStep
     /\ UNCHANGED <<timers, servers, own>>
  \/ /\ C!ServerComesOrGoes \/ C!ServerForgets
     /\ UNCHANGED <<timers, wifi, own>>

Sketch == \/ ConnectRound \/ EndSetup \/ EndRetryWindow
          \/ FirstRun \/ LoopTop
          \/ PushAndBlink \/ Register
          \/ NoMinuteTick \/ MinuteTick \/ RetryWindow \/ DivideByZero
          \/ NoRequest

WebRequest == ConfigLoad \/ SetLED \/ SysRestart

Next == \/ Sketch \/ WebRequest
        \/ FastCallback \/ SecondCallback \/ MinuteCallback
        \/ PowerCycle
        \/ Surroundings

Spec == Init /\ [][Next]_vars
-----------------------------------------------------------------------------
\* No server counts as registered while a retry window rebuilds the link,
\* so none of them is pushed to or shown before it has registered anew.
NobodyRegisteredInWindow ==
  pc = "connect" => \A i \in Slots : ControlServersStatus[i] # C!Registered

\* Nothing loop() does to the statuses breaks the promise of the Web client.
KeepsMonitor == C!ImplementsMonitor

\* loop() uses the station as its module allows, whatever Web clients and
\* timers do: connectWiFi is never entered while it runs, it ends its rounds
\* before the sketch goes on, and no load of a configuration falls between
\* two of them (main.cpp lines 79, 174 and 185).
KeepsStation == W!Spec

\* A server that was given up is not asked again before a retry window has
\* ended or the device has started anew: neither a minute tick nor a loaded
\* configuration revives it (main.cpp lines 167-178, ESP-WebClient.cpp 34).
DisabledUntilWindow ==
  [][\A i \in Slots :
       ControlServersStatus[i] = C!Disabled /\ ControlServersStatus'[i] # C!Disabled
         => EndRetryWindow \/ SysRestart \/ PowerCycle \/ DivideByZero]_vars

\* Wherever a handler yields, its flag is still up: a callback of the same
\* timer cannot start it a second time, within it or after it. No timer is
\* attached before loop() begins, and nothing ever detaches the seconds and
\* the minutes after that (main.cpp lines 114-119, 134-156 and 160-181).
HandlerHoldsFlag ==
  /\ pc \in {"push", "register"} => tickTimer[1]
  /\ pc = "connect" /\ firstRun => tickTimer[2]
  /\ pc \notin {"connect", "loop"} => firstRun
  /\ \A t \in {1, 2} : armed[t] <=> firstRun
  /\ \A t \in T!TimerIds : armed[t] \/ tickTimer[t] => firstRun

(***************************************************************************)
(* Fairness: the sketch keeps running, armed timers go on firing at its    *)
(* yield points, and neither a scan, nor a join in range, nor a            *)
(* registration with a reachable server fails forever.                     *)
(***************************************************************************)
Fairness ==
  /\ WF_vars(Sketch)
  /\ SF_vars(FastCallback)
  /\ SF_vars(SecondCallback)
  /\ SF_vars(MinuteCallback)
  /\ SF_vars(Surroundings /\ W!ScanDone)
  /\ SF_vars(Sketch /\ W!JoinKnown)
  /\ \A i \in Slots : SF_vars(Register /\ Accepted(i))

FairSpec == Spec /\ Fairness

InReach(i) == /\ APlist # {} /\ APlist \subseteq air
              /\ cfgControlServers[i] \in up

\* From some time on every minute callback is handled before the next one.
MinutesKept == <>[][MinuteCallback => ~tickTimer[2]]_vars

\* "Constantly monitor health of Control Servers": a server in reach for good
\* is registered again and again, after it was disabled, after the link was
\* lost and after it has forgotten this device. It takes a loop() that keeps
\* up with its minutes: the retry window of a lost minute does not open.
ServerReturns == \A i \in Slots :
  MinutesKept /\ <>[]InReach(i)
    => []<>(/\ ControlServersStatus[i] = C!Registered
            /\ cfgControlServers[i] \in holds)

\* A server that is gone for good stops counting as registered, although
\* ControlServerPushData ignores the errors it gets.
DeadServerNoticed == \A i \in Slots :
  <>[](cfgControlServers[i] \notin up)
     => <>[](ControlServersStatus[i] # C!Registered)

\* The blink ends: whatever Web clients write to the pin, the fast timer is
\* armed by every slow tick and puts the LED out (main.cpp lines 123-146).
LedGoesOut == <>[]WiFiClientConnected => []<>(LED1 = "HIGH")
=============================================================================
