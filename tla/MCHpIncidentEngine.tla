------------------------- MODULE MCHpIncidentEngine -------------------------
(* HpIncidentEngine for TLC.  The catalog entries present are one that locks the   *)
(* unit until a power cycle and one that does not.                          *)
EXTENDS HpIncidentEngine, TLC

CONSTANTS i1, i2

LockKinds  == i1 :> "locked" @@ i2 :> "hard"
TwoBanks   == i1 :> "R2120" @@ i2 :> "R2119"
=============================================================================
