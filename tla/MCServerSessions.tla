-------------------------- MODULE MCServerSessions --------------------------
(* Instances of ServerSessions for TLC. *)
EXTENDS ServerSessions

CONSTANTS p1, p2, a1, a2

MCPeers == {p1, p2}
MCAccounts == {a1, a2}
=============================================================================
