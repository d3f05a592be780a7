-------------------------- MODULE MCBoilerTransport -------------------------
(* BoilerTransport for TLC.                                                *)
EXTENDS BoilerTransport
=============================================================================
