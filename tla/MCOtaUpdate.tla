---------------------------- MODULE MCOtaUpdate -----------------------------
(* Five sectors for sketch and update: from the small sketch to the middle *)
(* one both areas of the copy overlap, the large one never fits beside     *)
(* another, and one sector of file system.                                 *)
EXTENDS OtaUpdate

CONSTANTS small, middle, large

MCImages == {small, middle, large}
MCSizeOf == [m \in MCImages |-> CASE m = small -> 2 [] m = middle -> 3 [] m = large -> 4]
=============================================================================
