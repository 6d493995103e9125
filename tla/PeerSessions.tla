---------------------------- MODULE PeerSessions ----------------------------
(***************************************************************************)
(* What a server's network reactor promises to the application that polls  *)
(* it, and what the server's session ids promise to the callbacks that     *)
(* capture them: a peer has one session at a time, a session has one peer  *)
(* for as long as it lasts, and a session that ended never comes back,     *)
(* although peer ids are reused at once.  HandlePeerConnection relies on   *)
(* the first, it overwrites the entry of its peer without looking;         *)
(* GetPlayerBySession relies on the others.                                *)
(***************************************************************************)
CONSTANTS Peers, Ids, None

VARIABLES
  held,    \* per peer: its session, or None
  ended    \* the sessions that ended

vars == <<held, ended>>

Init == held = [p \in Peers |-> None] /\ ended = {}

Open(p, id) ==
  /\ held[p] = None
  /\ id \notin ended /\ \A q \in Peers : held[q] # id
  /\ held' = [held EXCEPT ![p] = id]
  /\ UNCHANGED ended

Close(p) ==
  /\ held[p] # None
  /\ held' = [held EXCEPT ![p] = None]
  /\ ended' = ended \cup {held[p]}

Next == \E p \in Peers : Close(p) \/ \E id \in Ids : Open(p, id)

Spec == Init /\ [][Next]_vars
=============================================================================
