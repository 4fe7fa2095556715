------------------------ MODULE ControlServersProofs ------------------------
(***************************************************************************)
(* Theorems about the Web client, for any number of servers a char can     *)
(* index, any set of addresses and any retry counts.                       *)
(***************************************************************************)
EXTENDS ControlServers, WellFoundedInduction, TLAPS

USE DEF Disabled, Unregistered, Registered

(***************************************************************************)
(* Helpers.                                                                *)
(***************************************************************************)
LEMMA SlotsFact == Slots \subseteq Int /\ 0 \in Slots
BY CountAssumption DEF Slots

\* A status that failed once more stays above or at the sentinel.
LEMMA FailedStatusRange ==
  ASSUME TypeOK, NEW i \in Slots, Eligible(i)
  PROVE  FailedStatus(ControlServersStatus[i]) \in Disabled..(Unregistered - 1)
BY RetryCountsAssumption DEF TypeOK, Eligible, FailedStatus

\* The scan starts at a slot, and the next index is one a char can hold.
LEMMA ScanStartFact ==
  ASSUME TypeOK
  PROVE  ScanStart \in Slots /\ NextIndex \in 1..ControlServersCount
BY CountAssumption DEF TypeOK, ScanStart, NextIndex, Slots

LEMMA ScanDistanceFact ==
  ASSUME TypeOK, NEW i \in Slots
  PROVE  ScanDistance(i) \in Slots
BY CountAssumption, ScanStartFact DEF ScanDistance, Slots

\* No two slots lie at the same distance.
LEMMA ScanDistanceInjective ==
  ASSUME TypeOK, NEW i \in Slots, NEW j \in Slots,
         ScanDistance(i) = ScanDistance(j)
  PROVE  i = j
BY CountAssumption, ScanStartFact DEF ScanDistance, Slots

\* One call brings every slot but the first of the scan one slot nearer.
LEMMA NextScanDistance ==
  ASSUME TypeOK, TypeOK', NEW i \in Slots, ControlServersIndex' = NextIndex
  PROVE  /\ ScanDistance(i) # 0 => ScanDistance(i)' = ScanDistance(i) - 1
         /\ ScanDistance(i)' \in Slots
<1>1. ScanStart \in Slots /\ ScanStart' \in Slots
  BY ScanStartFact, CountAssumption DEF TypeOK, ScanStart, Slots
<1>2. ScanStart' = IF ScanStart + 1 >= ControlServersCount THEN 0 ELSE ScanStart + 1
  BY DEF ScanStart, NextIndex
<1>3. ControlServersCount \in Nat /\ i \in 0..(ControlServersCount - 1)
  BY CountAssumption DEF Slots
<1>4. ScanDistance(i)' = IF i >= ScanStart' THEN i - ScanStart'
                         ELSE i - ScanStart' + ControlServersCount
  BY DEF ScanDistance
<1> QED BY <1>1, <1>2, <1>3, <1>4 DEF ScanDistance, Slots

\* Every set of distances has a least one.
LEMMA LeastOfNaturals ==
  ASSUME NEW S, S \subseteq Nat, S # {}
  PROVE  \E m \in S : \A n \in S : m <= n
<1> DEFINE R == OpToRel(<, Nat)
<1>1. \E m \in S : \A n \in S : <<n, m>> \notin R
  BY NatLessThanWellFounded, WFMin
<1>2. \A m, n \in Nat : <<n, m>> \in R <=> n < m
  BY DEF OpToRel
<1> HIDE DEF R
<1>3. PICK m \in S : \A n \in S : <<n, m>> \notin R
  BY <1>1
<1>4. ASSUME NEW n \in S PROVE m <= n
  <2>1. m \in Nat /\ n \in Nat /\ <<n, m>> \notin R
    BY <1>3
  <2>2. ~(n < m)
    BY <1>2, <2>1
  <2> QED BY <2>1, <2>2
<1> QED BY <1>4

\* Whenever some server waits to be asked, a call of ControlServerRegister asks
\* exactly one, so no call goes by without a request (ESP-WebClient.cpp 29-45).
THEOREM OneIsChosen ==
  ASSUME TypeOK, NEW i \in Slots, Eligible(i)
  PROVE  \E j \in Slots : Chosen(j) /\ \A k \in Slots : Chosen(k) => k = j
<1> DEFINE D == {ScanDistance(j) : j \in {k \in Slots : Eligible(k)}}
<1>1. D \subseteq Nat /\ D # {}
  BY ScanDistanceFact DEF Slots
<1> HIDE DEF D
<1>2. PICK d \in D : \A e \in D : d <= e
  BY <1>1, LeastOfNaturals
<1> USE DEF D
<1>3. PICK j \in Slots : Eligible(j) /\ d = ScanDistance(j)
  OBVIOUS
<1>4. Chosen(j)
  BY <1>2, <1>3 DEF Chosen
<1>5. ASSUME NEW k \in Slots, Chosen(k) PROVE k = j
  <2>1. ScanDistance(k) <= ScanDistance(j) /\ ScanDistance(j) <= ScanDistance(k)
    BY <1>3, <1>4, <1>5 DEF Chosen
  <2>2. ScanDistance(k) = ScanDistance(j)
    BY <2>1, ScanDistanceFact DEF Slots
  <2> QED BY <2>2, ScanDistanceInjective
<1> QED BY <1>4, <1>5
-----------------------------------------------------------------------------
(***************************************************************************)
(* Type correctness. The part that is not obvious is that a status never   *)
(* goes below the sentinel: with a retry count beyond 100 the count of     *)
(* failures reaches -100 by itself and the server is disabled there.       *)
(***************************************************************************)
LEMMA TypeStep == TypeOK /\ [Next]_vars => TypeOK'
<1> SUFFICES ASSUME TypeOK, [Next]_vars PROVE TypeOK'
  OBVIOUS
<1> USE CountAssumption, ServersAssumption
<1>1. CASE ControlServerRegister
  <2>1. waited' \in [Slots -> Nat] /\ UNCHANGED config /\ ControlServersIndex' \in 0..ControlServersCount
    BY <1>1, ScanStartFact DEF ControlServerRegister, RegisterAccepted, RegisterFailed,
       RegisterNobody, PassOver, TypeOK, config, world
  <2>2. ControlServersStatus' \in [Slots -> Disabled..Registered]
    <3>1. ASSUME NEW i \in Slots, RegisterAccepted(i)
          PROVE  ControlServersStatus' \in [Slots -> Disabled..Registered]
      BY <3>1 DEF RegisterAccepted, TypeOK
    <3>2. ASSUME NEW i \in Slots, RegisterFailed(i)
          PROVE  ControlServersStatus' \in [Slots -> Disabled..Registered]
      <4>1. FailedStatus(ControlServersStatus[i]) \in Disabled..Registered
        BY <3>2, FailedStatusRange DEF RegisterFailed, Chosen
      <4> QED BY <3>2, <4>1 DEF RegisterFailed, TypeOK
    <3>3. ASSUME RegisterNobody
          PROVE  ControlServersStatus' \in [Slots -> Disabled..Registered]
      BY <3>3 DEF RegisterNobody, TypeOK
    <3> QED BY <1>1, <3>1, <3>2, <3>3 DEF ControlServerRegister
  <2>3. up' \subseteq Servers /\ holds' \subseteq Servers
    BY <1>1 DEF ControlServerRegister, RegisterAccepted, RegisterFailed,
       RegisterNobody, TypeOK, config, world
  <2> QED BY <2>1, <2>2, <2>3 DEF TypeOK, config
<1>2. CASE UnregisterAll
  BY <1>2 DEF UnregisterAll, TypeOK, config, world
<1>3. CASE EnableAll
  BY <1>3 DEF EnableAll, TypeOK, config, world
<1>4. CASE LoadConfig
  BY <1>4 DEF LoadConfig, TypeOK, status, world
<1>5. CASE Boot
  BY <1>5 DEF Boot, TypeOK, world
<1>6. CASE ServerComesOrGoes
  BY <1>6 DEF ServerComesOrGoes, TypeOK, config, status
<1>7. CASE ServerForgets
  BY <1>7 DEF ServerForgets, TypeOK, config, status
<1>8. CASE UNCHANGED vars
  BY <1>8 DEF vars, config, status, world, TypeOK
<1> QED
  BY <1>1, <1>2, <1>3, <1>4, <1>5, <1>6, <1>7, <1>8 DEF Next

\* Every variable keeps its type; in particular every status stays between
\* the sentinel -100 and 1 for every retry count (ESP-WebClient.cpp 34-65).
THEOREM TypeCorrect == Spec => []TypeOK
<1>1. Init => TypeOK
  BY CountAssumption DEF Init, TypeOK
<1> QED BY <1>1, TypeStep, PTL DEF Spec
-----------------------------------------------------------------------------
(***************************************************************************)
(* Round robin. The invariant that is inductive adds how far the scan still *)
(* is from a slot to how often the slot was passed over: a call that passes *)
(* it over takes from the one what it adds to the other.                    *)
(***************************************************************************)
TurnInv == \A i \in Slots : waited[i] + ScanDistance(i) < ControlServersCount

LEMMA TurnStep == TypeOK /\ TurnInv /\ [Next]_vars => TurnInv'
<1> SUFFICES ASSUME TypeOK, TurnInv, [Next]_vars, NEW i \in Slots
             PROVE  (waited[i] + ScanDistance(i) < ControlServersCount)'
  BY DEF TurnInv, Slots
<1> USE CountAssumption
<1>t. TypeOK'
  BY TypeStep
<1>s. waited[i] \in Nat /\ ScanDistance(i) \in Slots
  BY ScanDistanceFact DEF TypeOK
<1>1. CASE ControlServerRegister
  <2>1. ControlServersIndex' = NextIndex
    BY <1>1 DEF ControlServerRegister, RegisterAccepted, RegisterFailed, RegisterNobody
  <2>2. /\ ScanDistance(i) # 0 => ScanDistance(i)' = ScanDistance(i) - 1
        /\ ScanDistance(i)' \in Slots
    BY <2>1, <1>t, NextScanDistance
  <2>3. ASSUME NEW j \in Slots, Chosen(j), PassOver({j})
        PROVE  (waited[i] + ScanDistance(i) < ControlServersCount)'
    <3>1. CASE Eligible(i) /\ i # j
      <4>1. ScanDistance(j) <= ScanDistance(i) /\ ScanDistance(j) # ScanDistance(i)
        BY <2>3, <3>1, ScanDistanceInjective DEF Chosen
      <4>2. ScanDistance(j) \in Slots
        BY ScanDistanceFact
      <4>3. ScanDistance(i)' = ScanDistance(i) - 1
        BY <4>1, <4>2, <2>2, <1>s DEF Slots
      <4>4. waited'[i] = waited[i] + 1
        BY <2>3, <3>1 DEF PassOver
      <4> QED BY <4>3, <4>4, <1>s DEF TurnInv, Slots
    <3>2. CASE ~(Eligible(i) /\ i # j)
      <4>1. waited'[i] = 0
        BY <2>3, <3>2 DEF PassOver
      <4> QED BY <4>1, <2>2 DEF Slots
    <3> QED BY <3>1, <3>2
  <2>4. ASSUME RegisterNobody
        PROVE  (waited[i] + ScanDistance(i) < ControlServersCount)'
    <3>1. waited'[i] = 0
      BY <2>4 DEF RegisterNobody, PassOver
    <3> QED BY <3>1, <2>2 DEF Slots
  <2> QED
    BY <1>1, <2>3, <2>4 DEF ControlServerRegister, RegisterAccepted, RegisterFailed
<1>2. CASE Boot
  <2>1. waited'[i] = 0 /\ ControlServersIndex' = 0
    BY <1>2 DEF Boot
  <2>2. ScanDistance(i)' \in Slots
    BY <2>1, <1>t DEF ScanDistance, ScanStart, Slots
  <2> QED BY <2>1, <2>2 DEF Slots
<1>3. CASE UNCHANGED <<ControlServersIndex, waited>>
  <2>1. ScanDistance(i)' = ScanDistance(i)
    BY <1>3 DEF ScanDistance, ScanStart
  <2> QED BY <1>3, <2>1 DEF TurnInv
<1> QED
  BY <1>1, <1>2, <1>3 DEF Next, vars, config, status, UnregisterAll, EnableAll,
     LoadConfig, ServerComesOrGoes, ServerForgets

\* An eligible server is asked within ControlServersCount calls, for every
\* number of servers and whatever the others answer (ESP-WebClient.cpp 29-74).
THEOREM RoundRobin == Spec => []AskedInTurn
<1>1. Init => TypeOK /\ TurnInv
  BY CountAssumption DEF Init, TypeOK, TurnInv, ScanDistance, ScanStart, Slots
<1>2. TypeOK /\ TurnInv => AskedInTurn
  <2> SUFFICES ASSUME TypeOK, TurnInv, NEW i \in Slots
               PROVE  waited[i] < ControlServersCount
    BY DEF AskedInTurn
  <2> QED BY ScanDistanceFact, CountAssumption DEF TypeOK, TurnInv, Slots
<1> QED BY <1>1, <1>2, TypeStep, TurnStep, PTL DEF Spec
-----------------------------------------------------------------------------
(***************************************************************************)
(* The implementation of the monitor: one lemma per kind of step.          *)
(***************************************************************************)
LEMMA TryLimitRange == TypeOK => TryLimit \in 1..100
BY RetryCountsAssumption DEF TypeOK, TryLimit

LEMMA AcceptedStep ==
  ASSUME TypeOK, TypeOK', NEW i \in Slots, RegisterAccepted(i)
  PROVE  Monitor!Accepted(i)
<1>1. HealthOf(i) = "unregistered"
  BY DEF RegisterAccepted, Chosen, Eligible, HealthOf
<1>2. \A j \in Slots : HealthOf(j)' = IF j = i THEN "registered" ELSE HealthOf(j)
  BY DEF RegisterAccepted, HealthOf, TypeOK
<1>3. \A j \in Slots : FailsOf(j)' = IF j = i THEN 0 ELSE FailsOf(j)
  BY DEF RegisterAccepted, FailsOf, Eligible, TypeOK
<1>4. TryLimit' = TryLimit
  BY DEF RegisterAccepted, config, TryLimit
<1> QED BY <1>1, <1>2, <1>3, <1>4, Zenon DEF Monitor!Accepted

LEMMA FailedStep ==
  ASSUME TypeOK, TypeOK', NEW i \in Slots, RegisterFailed(i)
  PROVE  Monitor!Rejected(i)
<1> DEFINE s == ControlServersStatus[i]
<1>1. Eligible(i) /\ HealthOf(i) = "unregistered" /\ FailsOf(i) = -s /\ s \in Disabled..Unregistered
  BY DEF RegisterFailed, Chosen, Eligible, HealthOf, FailsOf, TypeOK
<1>2. \A j \in Slots : j # i => /\ HealthOf(j)' = HealthOf(j)
                                /\ FailsOf(j)' = FailsOf(j)
  BY DEF RegisterFailed, HealthOf, FailsOf, Eligible, TypeOK
<1>3. ControlServersStatus'[i] = FailedStatus(s) /\ s # Disabled
  BY <1>1 DEF RegisterFailed, TypeOK, Eligible
<1>4. TryLimit' = TryLimit /\ TryLimit \in 1..100
  BY TryLimitRange DEF RegisterFailed, config, TryLimit
<1>5. cfgControlServersRetryCount \in Int
  BY RetryCountsAssumption DEF TypeOK
<1>6. CASE FailsOf(i) + 1 < TryLimit
  <2>1. FailedStatus(s) = s - 1 /\ s - 1 # Disabled
    BY <1>1, <1>3, <1>5, <1>6 DEF FailedStatus, TryLimit
  <2>2. HealthOf(i)' = HealthOf(i) /\ FailsOf(i)' = FailsOf(i) + 1
    BY <1>1, <1>3, <2>1 DEF HealthOf, FailsOf, Eligible
  <2>3. \A j \in Slots : /\ HealthOf(j)' = HealthOf(j)
                         /\ FailsOf(j)' = IF j = i THEN FailsOf(i) + 1 ELSE FailsOf(j)
    BY <1>2, <2>2
  <2> QED BY <1>1, <1>4, <1>6, <2>3, Zenon DEF Monitor!Rejected
<1>7. CASE ~(FailsOf(i) + 1 < TryLimit)
  <2>1. FailedStatus(s) = Disabled
    BY <1>1, <1>3, <1>5, <1>7 DEF FailedStatus, TryLimit
  <2>2. HealthOf(i)' = "disabled" /\ FailsOf(i)' = 0
    BY <1>3, <2>1 DEF HealthOf, FailsOf, Eligible
  <2>3. \A j \in Slots : /\ HealthOf(j)' = IF j = i THEN "disabled" ELSE HealthOf(j)
                         /\ FailsOf(j)' = IF j = i THEN 0 ELSE FailsOf(j)
    BY <1>2, <2>2
  <2>4. FailsOf(i) + 1 >= TryLimit
    BY <1>1, <1>4, <1>7
  <2> QED BY <1>1, <1>4, <2>3, <2>4, Zenon DEF Monitor!Rejected
<1> QED BY <1>6, <1>7

LEMMA UnregisterStep == ASSUME TypeOK, TypeOK', UnregisterAll PROVE Monitor!Expire
<1>1. \A j \in Slots :
        /\ HealthOf(j)' = IF HealthOf(j) = "registered" THEN "unregistered" ELSE HealthOf(j)
        /\ FailsOf(j)' = FailsOf(j)
  BY DEF UnregisterAll, HealthOf, FailsOf, Eligible, TypeOK
<1>2. TryLimit' = TryLimit
  BY DEF UnregisterAll, config, TryLimit
<1> QED BY <1>1, <1>2, Zenon DEF Monitor!Expire

LEMMA EnableStep == ASSUME EnableAll PROVE Monitor!Enable
<1>1. \A j \in Slots : HealthOf(j)' = "unregistered" /\ FailsOf(j)' = 0
  <2>1. \A j \in Slots : ControlServersStatus'[j] = 0
    BY DEF EnableAll
  <2> QED BY <2>1 DEF HealthOf, FailsOf, Eligible
<1>2. TryLimit' = TryLimit
  BY DEF EnableAll, config, TryLimit
<1> QED BY <1>1, <1>2, Zenon DEF Monitor!Enable

LEMMA LoadConfigStep == ASSUME TypeOK', LoadConfig PROVE Monitor!Reconfigure
<1>1. \A j \in Slots : HealthOf(j)' = HealthOf(j) /\ FailsOf(j)' = FailsOf(j)
  BY DEF LoadConfig, status, HealthOf, FailsOf, Eligible
<1>2. TryLimit' \in 1..100
  BY RetryCountsAssumption DEF TypeOK, TryLimit
<1> QED BY <1>1, <1>2, Zenon DEF Monitor!Reconfigure

LEMMA BootStep == ASSUME TypeOK', Boot PROVE Monitor!Restart
<1>1. \A j \in Slots : HealthOf(j)' = "unregistered" /\ FailsOf(j)' = 0
  <2>1. \A j \in Slots : ControlServersStatus'[j] = 0
    BY DEF Boot
  <2> QED BY <2>1 DEF HealthOf, FailsOf, Eligible
<1>2. TryLimit' \in 1..100
  BY RetryCountsAssumption DEF TypeOK, TryLimit
<1> QED BY <1>1, <1>2, Zenon DEF Monitor!Restart, Monitor!Fresh

LEMMA StutterStep ==
  ASSUME UNCHANGED <<ControlServersStatus, cfgControlServersRetryCount>>
  PROVE  UNCHANGED Monitor!vars
<1>1. \A j \in Slots : HealthOf(j)' = HealthOf(j) /\ FailsOf(j)' = FailsOf(j)
  BY DEF HealthOf, FailsOf, Eligible
<1>2. TryLimit' = TryLimit
  BY DEF TryLimit
<1> QED BY <1>1, <1>2, Zenon DEF Monitor!vars

LEMMA MonitorInit == Init => Monitor!Init
<1> SUFFICES ASSUME Init PROVE Monitor!Init
  OBVIOUS
<1>1. \A j \in Slots : HealthOf(j) = "unregistered" /\ FailsOf(j) = 0
  <2>1. \A j \in Slots : ControlServersStatus[j] = 0
    BY DEF Init
  <2> QED BY <2>1 DEF HealthOf, FailsOf, Eligible
<1>2. TryLimit \in 1..100
  BY RetryCountsAssumption DEF Init, TryLimit
<1> QED BY <1>1, <1>2, Zenon DEF Monitor!Init, Monitor!Fresh

LEMMA MonitorStep ==
  TypeOK /\ TypeOK' /\ [Next]_vars => [Monitor!Next]_(Monitor!vars)
<1> SUFFICES ASSUME TypeOK, TypeOK', [Next]_vars
             PROVE  Monitor!Next \/ UNCHANGED Monitor!vars
  OBVIOUS
<1>1. CASE ControlServerRegister
  <2>1. CASE RegisterNobody
    BY <2>1, StutterStep DEF RegisterNobody, config
  <2>2. CASE \E i \in Slots : RegisterAccepted(i) \/ RegisterFailed(i)
    BY <2>2, AcceptedStep, FailedStep DEF Monitor!Next
  <2> QED BY <1>1, <2>1, <2>2 DEF ControlServerRegister
<1>2. CASE UnregisterAll
  BY <1>2, UnregisterStep DEF Monitor!Next
<1>3. CASE EnableAll
  BY <1>3, EnableStep DEF Monitor!Next
<1>4. CASE LoadConfig
  BY <1>4, LoadConfigStep DEF Monitor!Next
<1>5. CASE Boot
  BY <1>5, BootStep DEF Monitor!Next
<1>6. CASE UNCHANGED <<ControlServersStatus, cfgControlServersRetryCount>>
  BY <1>6, StutterStep
<1> QED
  BY <1>1, <1>2, <1>3, <1>4, <1>5, <1>6 DEF Next, vars, config, status,
     ServerComesOrGoes, ServerForgets

\* The statuses implement the monitor: a dead server is asked at most TryLimit
\* times between two retry windows, for every retry count that can be loaded.
THEOREM MonitorRefinement == Spec => ImplementsMonitor
BY MonitorInit, MonitorStep, TypeCorrect, PTL
DEF Spec, ImplementsMonitor, Monitor!Spec
=============================================================================
