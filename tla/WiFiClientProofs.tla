-------------------------- MODULE WiFiClientProofs --------------------------
(***************************************************************************)
(* Proofs about WiFiClient: types, and the end of old station settings.    *)
(***************************************************************************)
EXTENDS WiFiClient, TLAPS

\* From the first scan on, what the SDK would join is a network of APlist.
OldForgotten == scan # "none" => {link, remembered} \subseteq APlist \cup {NoNetwork}

IInv == TypeOK /\ OldForgotten
-----------------------------------------------------------------------------
\* A round of connectWiFi that goes on stays within its loop.
LEMMA RoundCounts ==
  ASSUME TypeOK, Inside, Succeed \/ TryAgain
  PROVE  /\ x' \in 0..ConnectTries /\ WiFiClientConnected' \in BOOLEAN
         /\ cfgWiFiSSIDs' \in Configs /\ APlist' \in Configs /\ APlist' = APlist
<1>1. x \in 0..ConnectTries /\ x < ConnectTries /\ ConnectTries \in Nat
      BY TriesAssumption DEF TypeOK, Inside
<1>2. x + 1 \in 0..ConnectTries /\ ConnectTries \in 0..ConnectTries
      BY <1>1
<1>3. CASE Succeed
      BY <1>2, <1>3 DEF Succeed, TypeOK
<1>4. CASE TryAgain
      BY <1>2, <1>4 DEF TryAgain, TypeOK
<1> QED BY <1>3, <1>4

\* The device starts with no link and no scan.
LEMMA InitInv == Init => IInv
<1>1. 0 \in 0..ConnectTries
      BY TriesAssumption
<1> QED BY <1>1 DEF Init, IInv, TypeOK, OldForgotten, MaybeNetwork

\* Every round of connectWiFi keeps the invariant: only run() starts a scan,
\* and it clears the settings when it does.
LEMMA RoundInv == ASSUME IInv, connectWiFiRound PROVE IInv'
<1> USE DEF IInv
<1>1. CASE FindConnected
  <2>1. UNCHANGED radio /\ APlist' = APlist /\ TypeOK'
        BY <1>1, RoundCounts DEF FindConnected, TypeOK, radio
  <2> QED BY <2>1 DEF OldForgotten, radio
<1>2. CASE AwaitScan
  <2>1. UNCHANGED radio /\ APlist' = APlist /\ TypeOK'
        BY <1>2, RoundCounts DEF AwaitScan, TypeOK, radio
  <2> QED BY <2>1 DEF OldForgotten, radio
<1>3. CASE StartScan
  <2>1. TypeOK'
        BY <1>3, RoundCounts DEF StartScan, ClearSettings, TypeOK, MaybeNetwork
  <2>2. link' = NoNetwork /\ remembered' = NoNetwork
        BY <1>3 DEF StartScan, ClearSettings
  <2> QED BY <2>1, <2>2 DEF OldForgotten
<1>4. CASE FindNoKnown
  <2>1. TypeOK'
        BY <1>4, RoundCounts DEF FindNoKnown, DropResults, TypeOK, MaybeNetwork
  <2>2. scan' = "none"
        BY <1>4 DEF FindNoKnown, DropResults
  <2> QED BY <2>1, <2>2 DEF OldForgotten
<1>5. ASSUME NEW n \in Networks, Join(n) \/ FailToJoin(n)
      PROVE  IInv'
  <2>1. Inside /\ (Succeed \/ TryAgain)
        BY <1>5 DEF Join, FailToJoin
  <2>2. /\ scan' = "none" /\ found' = {} /\ remembered' = n /\ air' = air
        /\ link' \in {n, link}
        BY <1>5 DEF Join, FailToJoin, DropResults
  <2>3. TypeOK'
        BY <2>1, <2>2, RoundCounts DEF TypeOK, MaybeNetwork
  <2> QED BY <2>2, <2>3 DEF OldForgotten
<1> QED BY <1>1, <1>2, <1>3, <1>4, <1>5 DEF connectWiFiRound, JoinKnown

\* Every step keeps the invariant.
LEMMA StepInv == IInv /\ [Next]_wifi => IInv'
<1> SUFFICES ASSUME IInv, [Next]_wifi PROVE IInv'
    OBVIOUS
<1> USE DEF IInv
<1>1. CASE connectWiFi
  <2>1. 0 \in 0..ConnectTries
        BY TriesAssumption
  <2> QED BY <1>1, <2>1 DEF connectWiFi, TypeOK, OldForgotten, radio
<1>2. CASE ScanDone \/ ScanFails
      BY <1>2 DEF ScanDone, ScanFails, device, TypeOK, OldForgotten
<1>3. CASE AirChanges
  <2>1. PICK n \in Networks :
          /\ air' = IF n \in air THEN air \ {n} ELSE air \cup {n}
          /\ link' = IF link = n THEN NoNetwork ELSE link
          /\ UNCHANGED <<device, scan, found, remembered>>
        BY <1>3 DEF AirChanges
  <2>2. air' \subseteq Networks
        BY <2>1 DEF TypeOK
  <2> QED BY <2>1, <2>2 DEF device, TypeOK, OldForgotten, MaybeNetwork
<1>4. CASE AutoJoin
      BY <1>4 DEF AutoJoin, device, TypeOK, OldForgotten
<1>5. CASE LoadNetworks
      BY <1>5 DEF LoadNetworks, radio, TypeOK, OldForgotten
<1>6. CASE Boot
  <2>1. 0 \in 0..ConnectTries
        BY TriesAssumption
  <2> QED BY <1>6, <2>1 DEF Boot, TypeOK, OldForgotten, MaybeNetwork
<1>7. CASE UNCHANGED wifi
      BY <1>7 DEF wifi, device, radio, TypeOK, OldForgotten
<1> QED BY <1>1, <1>2, <1>3, <1>4, <1>5, <1>6, <1>7, RoundInv DEF Next, radioStep

\* What the SDK remembers is known to wifiMulti from the first scan on.
THEOREM WiFiClientInvariant == Spec => []IInv
<1> QED BY InitInv, StepInv, PTL DEF Spec

\* The variables keep their types; connectWiFi stays within its tries.
THEOREM WiFiClientTypeCorrect == Spec => []TypeOK
<1>1. IInv => TypeOK
      BY DEF IInv
<1> QED BY <1>1, WiFiClientInvariant, PTL

\* The settings of an older configuration end with the first scan, for any
\* networks and configurations (ESP8266WiFiMulti::run, WiFi.disconnect).
THEOREM OldSettingsGone == Spec => []OldSettingsEndWithScan
<1>1. IInv => OldSettingsEndWithScan
      BY DEF IInv, OldForgotten, OldSettingsEndWithScan
<1> QED BY <1>1, WiFiClientInvariant, PTL
=============================================================================
