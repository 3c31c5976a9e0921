------------------------------ MODULE MCCalls ------------------------------
(* Calls on small instances.                                               *)
EXTENDS Calls, TLC
=============================================================================
