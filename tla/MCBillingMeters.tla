-------------------------- MODULE MCBillingMeters ---------------------------
(***************************************************************************)
(* Instances of BillingMeters for TLC.                                     *)
(***************************************************************************)
EXTENDS BillingMeters
=============================================================================
