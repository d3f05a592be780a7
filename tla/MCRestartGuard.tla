--------------------------- MODULE MCRestartGuard ---------------------------
(* RestartGuard for TLC: a clock of 11 ticks, so that wraps, stale         *)
(* observations and a full rest all happen within a few steps.             *)
EXTENDS RestartGuard
=============================================================================
