---------------------------- MODULE MCReferrals ----------------------------
(* Referrals on small instances.                                           *)
EXTENDS Referrals, TLC
=============================================================================
