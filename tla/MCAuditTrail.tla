---------------------------- MODULE MCAuditTrail ----------------------------
(***************************************************************************)
(* A small instance of AuditTrail for TLC.                                 *)
(***************************************************************************)
EXTENDS AuditProperties

MCHotkeys == {1, 2}

=============================================================================
