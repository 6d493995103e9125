---------------------------- MODULE MCShipScript ----------------------------
(* Instances of ShipScript for TLC. *)
EXTENDS ShipScript
=============================================================================
