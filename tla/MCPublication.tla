---------------------------- MODULE MCPublication ----------------------------
(***************************************************************************)
(* A small instance of Publication for TLC: two bundles of one miner and   *)
(* one of another, which touches the same lines as the first.              *)
(***************************************************************************)
EXTENDS PublicationProperties

MCBundles == {"a", "b", "c"}
MCOwner == [b \in MCBundles |-> IF b = "c" THEN "n" ELSE "m"]
MCConflicts == {{"a", "c"}}

=============================================================================
