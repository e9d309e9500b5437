-------------------------- MODULE MCTenantBilling ---------------------------
(***************************************************************************)
(* Instances of TenantBilling for TLC.                                     *)
(***************************************************************************)
EXTENDS TenantBilling
=============================================================================
