--------------------------- MODULE MCLoopHistory ----------------------------
EXTENDS LoopHistory

MCConfigs == {Networks}
MCRetryCounts == {1}
\* Zero, a negative period, one beyond the hour; none divides it.
MCRetryMinutes == {0, -2, 5}
=============================================================================
