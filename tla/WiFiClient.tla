----------------------------- MODULE WiFiClient -----------------------------
(***************************************************************************)
(* The Wi-Fi station: initWiFi and connectWiFi (lib/ESP-WiFiClient) over   *)
(* ESP8266WiFiMulti::run, its asynchronous scan and the station settings   *)
(* the SDK keeps in flash. connectWiFi runs once in setup() and then only  *)
(* in a retry window of loop(); between two windows a scan it has started  *)
(* may end, and its result is looked at in the next window.                *)
(***************************************************************************)
EXTENDS Integers

CONSTANTS Networks,      \* networks the device may know or meet
          NoNetwork,
          ConnectTries,  \* 10 in the code
          Configs        \* sets of networks config.json may list

ASSUME TriesAssumption == ConnectTries \in Nat \ {0}
ASSUME NetworksAssumption == NoNetwork \notin Networks
ASSUME ConfigsAssumption == Configs \subseteq SUBSET Networks

VARIABLES cfgWiFiSSIDs,         \* configured now
          APlist,               \* what initWiFi gave to wifiMulti
          WiFiClientConnected,
          x,                    \* loop variable of connectWiFi, ConnectTries outside
          scan,                 \* state of the asynchronous scan
          found,                \* its result
          air,                  \* networks in range
          link,                 \* the network the station has joined
          remembered            \* station settings, kept by the SDK in flash

device == <<cfgWiFiSSIDs, APlist, WiFiClientConnected, x>>
radio  == <<scan, found, air, link, remembered>>
wifi   == <<device, radio>>

MaybeNetwork == Networks \cup {NoNetwork}

TypeOK ==
  /\ cfgWiFiSSIDs \in Configs
  /\ APlist \in Configs
  /\ WiFiClientConnected \in BOOLEAN
  /\ x \in 0..ConnectTries
  /\ scan \in {"none", "running", "done"}
  /\ found \subseteq Networks
  /\ air \subseteq Networks
  /\ link \in MaybeNetwork
  /\ remembered \in MaybeNetwork

\* setup() has loaded the configuration and calls connectWiFi.
Init ==
  /\ cfgWiFiSSIDs \in Configs
  /\ APlist = cfgWiFiSSIDs
  /\ WiFiClientConnected = FALSE
  /\ x = 0
  /\ scan = "none"
  /\ found = {}
  /\ air \in SUBSET Networks
  /\ link = NoNetwork
  /\ remembered \in MaybeNetwork

\* Mutant: one round too many.
InsideTooLong == x <= ConnectTries

Inside == x < ConnectTries
-----------------------------------------------------------------------------
(***************************************************************************)
(* One round of connectWiFi: wifiMulti.run(), then a look at the status.   *)
(***************************************************************************)
Known == found \cap APlist

\* The status is WL_CONNECTED: leave the loop.
Succeed == /\ WiFiClientConnected' = TRUE
           /\ x' = ConnectTries
           /\ UNCHANGED <<cfgWiFiSSIDs, APlist>>

\* It is not: another round after a second, or give up.
TryAgain == x' = x + 1 /\ UNCHANGED <<cfgWiFiSSIDs, APlist, WiFiClientConnected>>

FindConnected == Inside /\ link # NoNetwork /\ Succeed /\ UNCHANGED radio

\* run() returns at once while the scan goes on.
AwaitScan == /\ Inside /\ link = NoNetwork /\ scan = "running"
             /\ TryAgain
             /\ UNCHANGED radio

\* Mutant: the settings survive the scan.
KeepSettings == remembered' = remembered

ClearSettings == remembered' = NoNetwork

\* Without results run() clears the station settings and starts a scan.
StartScan == /\ Inside /\ link = NoNetwork
             /\ \/ scan = "none"
                \/ scan = "done" /\ found = {}
             /\ scan' = "running"
             /\ ClearSettings
             /\ found' = {}
             /\ TryAgain
             /\ UNCHANGED <<air, link>>

\* Mutant: old results are looked at again.
KeepResults == UNCHANGED <<scan, found>>

DropResults == scan' = "none" /\ found' = {}

FindNoKnown == /\ Inside /\ link = NoNetwork
               /\ scan = "done" /\ found # {} /\ Known = {}
               /\ DropResults
               /\ TryAgain
               /\ UNCHANGED <<air, link, remembered>>

\* run() waits for the network with the best signal, as scanned.
Join(n) == /\ Inside /\ link = NoNetwork
           /\ scan = "done" /\ n \in Known /\ n \in air
           /\ DropResults
           /\ link' = n
           /\ remembered' = n
           /\ Succeed
           /\ UNCHANGED air

FailToJoin(n) == /\ Inside /\ link = NoNetwork
                 /\ scan = "done" /\ n \in Known
                 /\ DropResults
                 /\ remembered' = n
                 /\ TryAgain
                 /\ UNCHANGED <<air, link>>

JoinKnown == \E n \in Networks : Join(n)

connectWiFiRound ==
  \/ FindConnected
  \/ AwaitScan
  \/ StartScan
  \/ FindNoKnown
  \/ JoinKnown
  \/ \E n \in Networks : FailToJoin(n)

connectWiFi == x = ConnectTries /\ x' = 0
               /\ UNCHANGED <<cfgWiFiSSIDs, APlist, WiFiClientConnected, radio>>
-----------------------------------------------------------------------------
(***************************************************************************)
(* The radio and the SDK.                                                  *)
(***************************************************************************)
ScanDone == /\ scan = "running"
            /\ scan' = "done"
            /\ found' = air
            /\ UNCHANGED <<device, air, link, remembered>>

\* A scan that ends without success has found nothing.
ScanFails == /\ scan = "running"
             /\ scan' = "done"
             /\ found' = {}
             /\ UNCHANGED <<device, air, link, remembered>>

\* A network appears or goes out of range, and the link with it.
AirChanges == \E n \in Networks :
  /\ air' = IF n \in air THEN air \ {n} ELSE air \cup {n}
  /\ link' = IF link = n THEN NoNetwork ELSE link
  /\ UNCHANGED <<device, scan, found, remembered>>

\* The SDK joins the remembered network by itself.
AutoJoin == /\ link = NoNetwork
            /\ remembered \in air
            /\ link' = remembered
            /\ UNCHANGED <<device, scan, found, air, remembered>>

radioStep == ScanDone \/ ScanFails \/ AirChanges \/ AutoJoin

(***************************************************************************)
(* The configuration: JSONLoad at run time, and a reset.                   *)
(***************************************************************************)
LoadNetworks == /\ cfgWiFiSSIDs' \in Configs
                /\ UNCHANGED <<APlist, WiFiClientConnected, x, radio>>

Boot == /\ cfgWiFiSSIDs' \in Configs
        /\ APlist' = cfgWiFiSSIDs'
        /\ WiFiClientConnected' = FALSE
        /\ x' = 0
        /\ scan' = "none"
        /\ found' = {}
        /\ link' = NoNetwork
        /\ UNCHANGED <<air, remembered>>

Next == \/ connectWiFiRound
        \/ connectWiFi
        \/ radioStep
        \/ x = ConnectTries /\ LoadNetworks
        \/ Boot

Spec == Init /\ [][Next]_wifi
-----------------------------------------------------------------------------
(***************************************************************************)
(* Fairness: the sketch runs, retry windows recur, and neither a scan nor  *)
(* a join of a network in range fails forever.                             *)
(***************************************************************************)
Fairness == /\ WF_wifi(connectWiFiRound)
            /\ WF_wifi(connectWiFi)
            /\ SF_wifi(ScanDone)
            /\ SF_wifi(JoinKnown)

FairSpec == Spec /\ Fairness
-----------------------------------------------------------------------------
(***************************************************************************)
(* Properties.                                                             *)
(***************************************************************************)
Settled == <>[][~Boot /\ UNCHANGED <<air, cfgWiFiSSIDs>>]_wifi

\* README feature 2, as far as the code goes: when the radio environment
\* settles with a network of APlist in range, retry windows bring the link
\* back for good, although a window looks at scan results that may be as old
\* as the previous window (ESP-WiFiClient.cpp lines 25-45).
Reconnects ==
  Settled /\ <>[](APlist \cap air # {}) => <>[](link # NoNetwork)

\* The same for the configured networks, as README feature 1 says. JSONLoad
\* does not pass new networks on to wifiMulti, so this needs a restart.
ConnectsConfigured ==
  Settled /\ <>[](cfgWiFiSSIDs \cap air # {}) => <>[](link # NoNetwork)

\* Once a scan has been started, the station is on a network of APlist: the
\* settings of an older configuration, which the SDK joins by itself after a
\* reset, went with the scan (ESP8266WiFiMulti::run, WiFi.disconnect).
OldSettingsEndWithScan ==
  scan # "none" /\ link # NoNetwork => link \in APlist
=============================================================================
