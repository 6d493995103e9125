----------------------------- MODULE MCPiloting -----------------------------
(* Instances of Piloting for TLC. *)
EXTENDS Piloting
=============================================================================
