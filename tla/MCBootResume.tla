---------------------------- MODULE MCBootResume ----------------------------
(* BootResume for TLC: the constants have their values in the .cfg files.    *)
EXTENDS BootResume
=============================================================================
