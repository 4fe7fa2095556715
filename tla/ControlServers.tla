--------------------------- MODULE ControlServers ---------------------------
(***************************************************************************)
(* The Web client (lib/ESP-WebClient) and the status of the control        *)
(* servers it shares with loop(): ControlServerRegister scans for a server *)
(* to ask, loop() unregisters all of them every minute and enables the     *)
(* disabled ones in a retry window, JSONLoad replaces addresses and retry  *)
(* count without touching the statuses.                                    *)
(***************************************************************************)
EXTENDS Integers

CONSTANTS ControlServersCount,  \* constexpr of ESP-Config.h
          Servers,              \* addresses a configuration can name
          Forgetful,            \* servers that may lose a registration
          RetryCounts           \* values of ControlServersRetryCount

\* ControlServersIndex is a char, unsigned on this processor, and has to
\* reach ControlServersCount before it starts over.
ASSUME CountAssumption == ControlServersCount \in 1..255
ASSUME RetryCountsAssumption == RetryCounts \subseteq Int
ASSUME ServersAssumption == Forgetful \subseteq Servers

VARIABLES cfgControlServers,            \* per slot, the address
          cfgControlServersRetryCount,
          ControlServersStatus,
          ControlServersIndex,
          up,       \* servers that answer
          holds,    \* servers that hold a registration of this device
          waited    \* history: calls in a row that passed an eligible slot over

config == <<cfgControlServers, cfgControlServersRetryCount>>
status == <<ControlServersStatus, ControlServersIndex, waited>>
world  == <<up, holds>>
vars   == <<config, status, world>>

Slots == 0..(ControlServersCount - 1)

\* -100=disabled; <0=error registration; 0=unregistered; 1=registered
Disabled     == -100
Unregistered == 0
Registered   == 1

TypeOK ==
  /\ cfgControlServers \in [Slots -> Servers]
  /\ cfgControlServersRetryCount \in RetryCounts
  /\ ControlServersStatus \in [Slots -> Disabled..Registered]
  /\ ControlServersIndex \in 0..ControlServersCount
  /\ up \subseteq Servers
  /\ holds \subseteq Servers
  /\ waited \in [Slots -> Nat]

Init ==
  /\ cfgControlServers \in [Slots -> Servers]
  /\ cfgControlServersRetryCount \in RetryCounts
  /\ ControlServersStatus = [i \in Slots |-> Unregistered]
  /\ ControlServersIndex = 0
  /\ waited = [i \in Slots |-> 0]
  /\ up \in SUBSET Servers
  /\ holds = {}
-----------------------------------------------------------------------------
(***************************************************************************)
(* ControlServerRegister: one scan, at most one request.                   *)
(***************************************************************************)
Eligible(i) ==
  /\ ControlServersStatus[i] <= Unregistered
  /\ ControlServersStatus[i] # Disabled

\* Mutant: the index is never set back.
IndexNeverSetBack == ControlServersIndex

\* The slot the scan starts from, and how far from it slot i lies.
ScanStart == IF ControlServersIndex >= ControlServersCount
             THEN 0 ELSE ControlServersIndex

ScanDistance(i) == IF i >= ScanStart THEN i - ScanStart
                   ELSE i - ScanStart + ControlServersCount

\* The scan breaks at the first eligible slot.
Chosen(i) ==
  /\ Eligible(i)
  /\ \A j \in Slots : Eligible(j) => ScanDistance(i) <= ScanDistance(j)

\* Mutant: the next call starts from the same slot.
IndexStays == ScanStart

NextIndex == ScanStart + 1

\* Mutant: disabled one failure too late.
DisabledLate(s) == IF s - 1 < -cfgControlServersRetryCount
                   THEN Disabled ELSE s - 1

FailedStatus(s) == IF s - 1 <= -cfgControlServersRetryCount
                   THEN Disabled ELSE s - 1

\* History of the call that asks the servers of asked, at most one.
PassOver(asked) ==
  waited' = [i \in Slots |-> IF Eligible(i) /\ i \notin asked
                             THEN waited[i] + 1 ELSE 0]

\* Status 200 and {"Result": 0} came back.
RegisterAccepted(i) ==
  /\ Chosen(i)
  /\ cfgControlServers[i] \in up
  /\ ControlServersStatus' = [ControlServersStatus EXCEPT ![i] = Registered]
  /\ ControlServersIndex' = NextIndex
  /\ holds' = holds \cup {cfgControlServers[i]}
  /\ PassOver({i})
  /\ UNCHANGED <<config, up>>

\* Anything else: no connection, a timeout, another answer. The server may
\* have taken the registration all the same when only its answer was lost.
RegisterFailed(i) ==
  /\ Chosen(i)
  /\ ControlServersStatus' = [ControlServersStatus EXCEPT ![i] = FailedStatus(@)]
  /\ ControlServersIndex' = NextIndex
  /\ \/ UNCHANGED holds
     \/ /\ cfgControlServers[i] \in up
        /\ holds' = holds \cup {cfgControlServers[i]}
  /\ PassOver({i})
  /\ UNCHANGED <<config, up>>

RegisterNobody ==
  /\ \A i \in Slots : ~Eligible(i)
  /\ ControlServersIndex' = NextIndex
  /\ PassOver({})
  /\ UNCHANGED <<config, ControlServersStatus, world>>

ControlServerRegister ==
  \/ \E i \in Slots : RegisterAccepted(i) \/ RegisterFailed(i)
  \/ RegisterNobody
-----------------------------------------------------------------------------
(***************************************************************************)
(* What loop() does to the statuses, once a minute and in a retry window.  *)
(***************************************************************************)
UnregisterAll ==
  /\ ControlServersStatus' =
       [i \in Slots |-> IF ControlServersStatus[i] = Registered
                        THEN Unregistered ELSE ControlServersStatus[i]]
  /\ UNCHANGED <<config, ControlServersIndex, waited, world>>

EnableAll ==
  /\ ControlServersStatus' = [i \in Slots |-> Unregistered]
  /\ UNCHANGED <<config, ControlServersIndex, waited, world>>

\* JSONLoad at run time (/configLoad): the statuses stay as they are.
LoadConfig ==
  /\ cfgControlServers' \in [Slots -> Servers]
  /\ cfgControlServersRetryCount' \in RetryCounts
  /\ UNCHANGED <<status, world>>

\* Any reset: the RAM is initialised again, the servers know nothing of it.
Boot ==
  /\ cfgControlServers' \in [Slots -> Servers]
  /\ cfgControlServersRetryCount' \in RetryCounts
  /\ ControlServersStatus' = [i \in Slots |-> Unregistered]
  /\ ControlServersIndex' = 0
  /\ waited' = [i \in Slots |-> 0]
  /\ UNCHANGED world

\* The servers: they come, go, and lose what they were told.
ServerComesOrGoes == \E s \in Servers :
  /\ up' = IF s \in up THEN up \ {s} ELSE up \cup {s}
  /\ UNCHANGED <<config, status, holds>>

ServerForgets == \E s \in holds \cap Forgetful :
  /\ holds' = holds \ {s}
  /\ UNCHANGED <<config, status, up>>

Next ==
  \/ ControlServerRegister
  \/ UnregisterAll
  \/ EnableAll
  \/ LoadConfig
  \/ Boot
  \/ ServerComesOrGoes
  \/ ServerForgets

Spec == Init /\ [][Next]_vars
-----------------------------------------------------------------------------
(***************************************************************************)
(* The abstract view: RetryCount is clamped by what the encoding can hold. *)
(***************************************************************************)
TryLimit ==
  CASE cfgControlServersRetryCount < 1   -> 1
    [] cfgControlServersRetryCount > 100 -> 100
    [] OTHER                             -> cfgControlServersRetryCount

HealthOf(i) == CASE ControlServersStatus[i] = Registered -> "registered"
                 [] ControlServersStatus[i] = Disabled   -> "disabled"
                 [] OTHER                                -> "unregistered"

FailsOf(i) == IF Eligible(i) THEN -ControlServersStatus[i] ELSE 0

Monitor == INSTANCE ServerHealth WITH
             MaxLimit <- 100,
             health <- [i \in Slots |-> HealthOf(i)],
             fails <- [i \in Slots |-> FailsOf(i)],
             limit <- TryLimit

\* The integer statuses implement the monitor for every retry count the
\* configuration can hold, negative and beyond the sentinel -100 included:
\* a dead server costs at most TryLimit requests in a row (ESP-WebClient.cpp
\* lines 34 and 56-64, main.cpp lines 167-178).
ImplementsMonitor == Monitor!Spec

(***************************************************************************)
(* Round robin: a call that leaves an eligible server waiting brings the   *)
(* scan one slot nearer to it, so it is asked within ControlServersCount   *)
(* calls, whatever its neighbours answer (ESP-WebClient.cpp lines 29-74).  *)
(***************************************************************************)
AskedInTurn == \A i \in Slots : waited[i] < ControlServersCount

\* A status of 1 means registered (the comment above ControlServersStatus):
\* the server at that slot has taken a registration of this device.
RegisteredMeansHeld ==
  \A i \in Slots : ControlServersStatus[i] = Registered
                     => cfgControlServers[i] \in holds
=============================================================================
