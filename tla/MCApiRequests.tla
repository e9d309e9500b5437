--------------------------- MODULE MCApiRequests ----------------------------
(***************************************************************************)
(* Instances of ApiRequests for TLC.                                       *)
(***************************************************************************)
EXTENDS ApiRequests
=============================================================================
