----------------------------- MODULE MCTimeSync -----------------------------
(* Instances of TimeSync for TLC. *)
EXTENDS TimeSync

\* The client is the older, the younger, or about as old as a packet is slow.
MCOffsets == -5..5
=============================================================================
