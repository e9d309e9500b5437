--------------------------- MODULE MCSendReceipts ---------------------------
(***************************************************************************)
(* Instances of SendReceipts for TLC.                                      *)
(***************************************************************************)
EXTENDS SendReceipts
=============================================================================
