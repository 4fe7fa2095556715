-------------------------- MODULE MCControlServers --------------------------
(* Two slots, so that the scan wraps and one slot can hold up the other.   *)
EXTENDS ControlServers

\* Below, within and beyond what a status can count before its sentinel.
MCRetryCounts == {-3, 2, 101}
=============================================================================
