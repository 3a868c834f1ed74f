---------------------------- MODULE MCHubIntake ----------------------------
(***************************************************************************)
(* A small instance of HubIntake for TLC: 1 is a plaintext bundle that     *)
(* cannot be fetched, 2 a sealed one.                                      *)
(***************************************************************************)
EXTENDS HubIntake

=============================================================================
