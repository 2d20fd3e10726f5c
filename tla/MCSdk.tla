-------------------------------- MODULE MCSdk --------------------------------
(* Two transactions of one account.                                         *)
EXTENDS Sdk
=============================================================================
