-------------------------- MODULE MCRestartHandoff --------------------------
(* RestartHandoff for TLC: one heat pump, two images whose configurations  *)
(* differ, a rest of two ticks, and transfers that outlast their limit.    *)
EXTENDS RestartHandoff, TLC
MCConfig == [i \in Image |-> i]
ImageSymmetry == Permutations(Images)
=============================================================================
