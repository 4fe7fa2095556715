---------------------------- MODULE MCWiFiClient ----------------------------
(* Two networks; the configuration lists either, none or both. Two rounds  *)
(* per window, so that a scan of one window is read in the next one.       *)
EXTENDS WiFiClient

MCConfigs == SUBSET Networks
=============================================================================
