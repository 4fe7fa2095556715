----------------------------- MODULE MCLoopLive -----------------------------
(* One server, one network, one failed try disables: small enough for the  *)
(* temporal properties, with the windows, ticks and timers all there.      *)
EXTENDS MainLoop

MCConfigs == {Networks}
MCRetryCounts == {1}
MCRetryMinutes == {2}
=============================================================================
