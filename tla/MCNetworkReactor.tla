-------------------------- MODULE MCNetworkReactor --------------------------
(* Instances of NetworkReactor for TLC. *)
EXTENDS NetworkReactor

MCSlots == 0..1
=============================================================================
