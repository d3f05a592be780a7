------------------------- MODULE MCManualResetLatch -------------------------
(* ManualResetLatch for TLC: the hardware of a Duo, configured as one heat *)
(* pump or as two.                                                         *)
EXTENDS ManualResetLatch
CONSTANTS hp1, hp2
Duo      == {hp1, hp2}
Single   == {hp1}
=============================================================================
