------------------------------ MODULE MCDevice ------------------------------
(* The FLASH pin, a serial pin and GPIO16; modes that are restricted,      *)
(* shown, and beyond a byte, which GPIO16 does not know; a text that fits, *)
(* and one that is cut and leaves room for a single mode.                  *)
EXTENDS Device

CONSTANTS short, long

MCTexts   == {short, long}
MCModes   == {-1, 0, 1, 258}
MCDefault == [p \in Pins |-> IF p = 3 THEN 1 ELSE -1]
MCKept    == [t \in MCTexts |-> short]
MCRoom    == [t \in MCTexts |-> IF t = short THEN 3 ELSE 1]
=============================================================================
