----------------------------- MODULE MCMainLoop -----------------------------
(* One slot with two tries, a network that a configuration lists or not, a *)
(* retry period that may be 0, and requests that load or reset.            *)
EXTENDS MainLoop

MCConfigs == {{}, Networks}
MCRetryCounts == {2}
MCRetryMinutes == {0, 2}
=============================================================================
