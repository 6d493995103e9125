----------------------------- MODULE Replication -----------------------------
(***************************************************************************)
(* How a client comes to hold the entities of an arena.  On the server the *)
(* world of the arena creates and kills entities, whose small identifiers  *)
(* it reuses; its BroadcastSystem notes in two bitsets which identifiers   *)
(* appeared and disappeared, and at most thirty times a second sends the   *)
(* difference, then a snapshot, to the players of the arena.  A player who *)
(* joins is sent every entity of the system at once.  On the client,       *)
(* ServerMatchEntities applies creations and deletions as they come and    *)
(* keeps snapshots in a ring until their time has come.                    *)
(*                                                                         *)
(* Creations and deletions use a reliable channel, snapshots another one,  *)
(* which loses packets.  One player and one arena are modelled: players do *)
(* not interact here, and an arena left and joined again is as good as two.*)
(* Positions are left out; every entity moves and fits in a snapshot.      *)
(*                                                                         *)
(* External: the world of the engine (Kill takes effect at the next        *)
(* Refresh, the lowest free identifier is given first), ENet.              *)
(***************************************************************************)
EXTENDS Naturals, Sequences, FiniteSets, SequencesExt

CONSTANTS
  Ids,            \* bound: entity identifiers of the world (0 is reserved)
  MaxEntities,    \* bound: entities ever created, numbered from 1
  FirstEntities,  \* how many entities the script's OnReset creates
  Capacity,       \* of the ring of snapshots (5 in the code)
  MaxVisits,      \* bound: times the player enters the arena
  MaxSnapshots,   \* bound: snapshots sent
  MaxInFlight     \* bound: packets on a channel

ASSUME IdsAssumption == Ids \subseteq Nat \ {0} /\ IsFiniteSet(Ids)
ASSUME BoundsAssumption ==
  /\ MaxEntities \in Nat /\ MaxVisits \in Nat /\ MaxSnapshots \in Nat
  /\ MaxInFlight \in Nat \ {0} /\ Capacity \in Nat \ {0}
  /\ FirstEntities \in 0..Cardinality(Ids)

VARIABLES
  \* the server
  entity,     \* which entity has an identifier (m_world), or None
  fresh,      \* identifiers the world has not validated yet
  killed,     \* identifiers killed and not destroyed yet
  listed,     \* m_entities of the BroadcastSystem
  created,    \* m_createdEntities
  deleted,    \* m_deletedEntities
  lastEntity, \* how many entities there were
  playing,    \* whether the player is in m_players
  joins,      \* how many times it joined
  window,     \* history: it joined between a change and its broadcast
  sent,       \* snapshotId
  \* the network
  requests,   \* JoinArena and LeaveArena on their way to the server
  commands,   \* CreateEntities and DeleteEntities on their way to the client
  snapshots,  \* ArenaState on their way to the client
  \* the client
  visits,     \* how many times it entered the ArenaState
  inArena,    \* whether it is in it, m_matchEntities existing
  match,      \* m_serverEntities: what it shows under an identifier, or None
  fault,      \* the assertion that failed and stopped it, or "none"
  stale,      \* history: it was given a command of an earlier visit
  ring,       \* m_jitterBuffer
  shown       \* stateId of the last snapshot applied

world == <<entity, fresh, killed, listed, created, deleted, lastEntity>>
server == <<world, playing, joins, window, sent>>
network == <<requests, commands, snapshots>>
client == <<visits, inArena, match, fault, stale, ring, shown>>
vars == <<server, network, client>>

None == 0
Free == {i \in Ids : entity[i] = None}
Occupied == Ids \ Free
Empty == [i \in Ids |-> None]

Init ==
  /\ entity = Empty /\ fresh = {} /\ killed = {} /\ listed = {}
  /\ created = {} /\ deleted = {} /\ lastEntity = 0
  /\ playing = FALSE /\ joins = 0 /\ window = FALSE /\ sent = 0
  /\ requests = <<>> /\ commands = <<>> /\ snapshots = <<>>
  /\ visits = 0 /\ inArena = FALSE /\ match = Empty
  /\ fault = "none" /\ stale = FALSE /\ ring = <<>> /\ shown = 0

-----------------------------------------------------------------------------
(* The world of the arena *)

\* Arena::CreateEntity, CreateSpaceship, the projectiles: the lowest free id.
CreateEntity ==
  /\ lastEntity < MaxEntities
  /\ lastEntity' = lastEntity + 1
  /\ \E id \in Free :
       /\ \A other \in Free : id <= other
       /\ entity' = [entity EXCEPT ![id] = lastEntity']
       /\ fresh' = fresh \cup {id}
  /\ UNCHANGED <<killed, listed, created, deleted, playing, joins, window, sent,
                 network, client>>

\* Death, end of life, a hit, a script: destruction is not immediate.
Kill(id) ==
  /\ id \in Occupied \ killed
  /\ killed' = killed \cup {id}
  /\ UNCHANGED <<entity, fresh, listed, created, deleted, lastEntity, playing,
                 joins, window, sent, network, client>>

\* OnEntityRemoved for each of ids: what m_createdEntities and
\* m_deletedEntities become.
CreatedWithout(ids) == created \ ids
\* Mutant: an entity never broadcast is reported as deleted.
DeletedWith_Always(ids) == deleted \cup ids
DeletedWith(ids) == deleted \cup (ids \ created)

\* World::Refresh destroys the killed, then validates the fresh, which
\* OnEntityValidation notes as created.
Validated == fresh \ killed
Surviving == [i \in Ids |-> IF i \in killed THEN None ELSE entity[i]]
\* Mutant: a second validation forgets the first.
CreatedNow_LastOnly == Validated
CreatedNow == CreatedWithout(killed \cap listed) \cup Validated
DeletedNow == DeletedWith(killed \cap listed)

\* Mutant: the killed are not forgotten.
Refresh_KilledKept ==
  /\ entity' = Surviving
  /\ listed' = (listed \ killed) \cup Validated
  /\ fresh' = {}
  /\ UNCHANGED <<killed, lastEntity, playing, joins, window>>
Refresh ==
  /\ entity' = Surviving
  /\ listed' = (listed \ killed) \cup Validated
  /\ fresh' = {} /\ killed' = {}
  /\ UNCHANGED <<lastEntity, playing, joins, window>>

\* Mutant: an update without a broadcast forgets what was killed.
Update_ForgetsKilled ==
  /\ fresh \cup killed # {}
  /\ Refresh
  /\ created' = CreatedNow
  /\ UNCHANGED <<deleted, sent, network, client>>

\* An update of the arena that comes too early for the BroadcastSystem.
Update ==
  /\ fresh \cup killed # {}
  /\ Refresh
  /\ created' = CreatedNow /\ deleted' = DeletedNow
  /\ UNCHANGED <<sent, network, client>>

\* A packet says what the world holds when it is written.
Create(ids, now) == [kind |-> "create", shows |-> [i \in ids |-> now[i]], visit |-> joins]
Delete(ids) == [kind |-> "delete", shows |-> [i \in ids |-> None], visit |-> joins]
Unless(empty, packet) == IF empty THEN <<>> ELSE <<packet>>

\* An update with BroadcastSystem::OnUpdate in it: deletions first, then
\* creations, then a snapshot.
Broadcast ==
  /\ Len(commands) + 2 <= MaxInFlight
  /\ Refresh
  /\ created' = {} /\ deleted' = {}
  /\ sent' = IF sent < MaxSnapshots THEN sent + 1 ELSE sent
  /\ IF playing
       THEN /\ commands' = commands \o Unless(DeletedNow = {}, Delete(DeletedNow))
                                    \o Unless(CreatedNow = {}, Create(CreatedNow, Surviving))
            /\ snapshots' = IF sent = sent' \/ Len(snapshots) = MaxInFlight THEN snapshots
                            ELSE Append(snapshots, sent')
       ELSE UNCHANGED <<commands, snapshots>>
  /\ UNCHANGED <<requests, client>>

\* Arena::Reset: World::Clear destroys everything at once and frees the
\* identifiers, then OnReset creates the first entities.
Reset ==
  /\ lastEntity + FirstEntities <= MaxEntities
  /\ LET first == {i \in Ids : Cardinality({j \in Ids : j < i}) < FirstEntities} IN
       /\ entity' = [i \in Ids |-> IF i \in first
                       THEN lastEntity + 1 + Cardinality({j \in Ids : j < i}) ELSE None]
       /\ fresh' = first
  /\ lastEntity' = lastEntity + FirstEntities
  /\ killed' = {} /\ listed' = {}
  /\ created' = CreatedWithout(listed) /\ deleted' = DeletedWith(listed)
  /\ UNCHANGED <<playing, joins, window, sent, network, client>>

-----------------------------------------------------------------------------
(* The player on the server *)

\* HandleJoinArena, MoveToArena, HandlePlayerJoin: CreateAllEntities sends the
\* entities of the system, broadcast or not.
HandleJoinArena ==
  /\ requests # <<>> /\ Head(requests) = "join"
  /\ Len(commands) < MaxInFlight
  /\ requests' = Tail(requests)
  /\ IF playing THEN UNCHANGED <<playing, joins, window, commands>>
     ELSE /\ playing' = TRUE
          /\ joins' = joins + 1
          /\ window' = (created \cup deleted # {})
          /\ commands' = Append(commands,
               [Create(listed, entity) EXCEPT !.visit = joins'])
  /\ UNCHANGED <<world, sent, snapshots, client>>

HandleLeaveArena ==
  /\ requests # <<>> /\ Head(requests) = "leave"
  /\ requests' = Tail(requests)
  /\ playing' = FALSE
  /\ UNCHANGED <<world, joins, window, sent, commands, snapshots, client>>

-----------------------------------------------------------------------------
(* The client *)

\* ArenaState::Enter: a new ServerMatchEntities, then the request.
Enter ==
  /\ fault = "none" /\ ~inArena /\ visits < MaxVisits
  /\ inArena' = TRUE /\ visits' = visits + 1
  /\ match' = Empty /\ ring' = <<>> /\ shown' = 0 /\ stale' = FALSE
  /\ requests' = Append(requests, "join")
  /\ UNCHANGED <<server, commands, snapshots, fault>>

\* ArenaState::Leave
Leave ==
  /\ fault = "none" /\ inArena
  /\ inArena' = FALSE
  /\ match' = Empty /\ ring' = <<>>
  /\ requests' = Append(requests, "leave")
  /\ UNCHANGED <<server, commands, snapshots, visits, fault, stale, shown>>

\* CreateServerEntity asserts that the slot is not valid, GetServerEntity that
\* it is.
FaultOf(command) ==
  CASE command.kind = "create" /\ \E i \in DOMAIN command.shows : match[i] # None
         -> "created twice"
    [] command.kind = "delete" /\ \E i \in DOMAIN command.shows : match[i] = None
         -> "unknown deleted"
    [] OTHER -> "none"

\* OnCreateEntities, OnDeleteEntities; without a ServerMatchEntities nobody
\* listens.
ApplyCommand(shows, to) == [i \in Ids |-> IF i \in DOMAIN shows THEN shows[i] ELSE to[i]]
OnCommand ==
  /\ fault = "none" /\ commands # <<>>
  /\ commands' = Tail(commands)
  /\ IF inArena
       THEN /\ fault' = FaultOf(Head(commands))
            /\ match' = ApplyCommand(Head(commands).shows, match)
            /\ stale' = (stale \/ Head(commands).visit < visits)
       ELSE UNCHANGED <<fault, match, stale>>
  /\ UNCHANGED <<server, requests, snapshots, visits, inArena, ring, shown>>

\* OnArenaState: a full ring overwrites its oldest.
OnArenaState ==
  /\ fault = "none" /\ snapshots # <<>>
  /\ snapshots' = Tail(snapshots)
  /\ ring' = IF ~inArena THEN ring
             ELSE Append(IF Len(ring) = Capacity THEN Tail(ring) ELSE ring, Head(snapshots))
  /\ UNCHANGED <<server, requests, commands, visits, inArena, match, fault, stale, shown>>

LoseSnapshot ==
  /\ snapshots # <<>>
  /\ snapshots' = Tail(snapshots)
  /\ UNCHANGED <<server, requests, commands, client>>

\* Mutant: the last of the ring is the one applied.
ApplySnapshot_Last ==
  /\ fault = "none" /\ inArena /\ ring # <<>>
  /\ shown' = Last(ring)
  /\ ring' = Front(ring)
  /\ UNCHANGED <<server, network, visits, inArena, match, fault, stale>>

\* ServerMatchEntities::Update once the first of the ring is due: it is
\* applied and the last one is popped.
ApplySnapshot ==
  /\ fault = "none" /\ inArena /\ ring # <<>>
  /\ shown' = Head(ring)
  /\ ring' = Front(ring)
  /\ UNCHANGED <<server, network, visits, inArena, match, fault, stale>>

-----------------------------------------------------------------------------
Next ==
  \/ CreateEntity
  \/ \E id \in Ids : Kill(id)
  \/ Update
  \/ Broadcast
  \/ Reset
  \/ HandleJoinArena
  \/ HandleLeaveArena
  \/ Enter
  \/ Leave
  \/ OnCommand
  \/ OnArenaState
  \/ LoseSnapshot
  \/ ApplySnapshot

Spec == Init /\ [][Next]_vars

\* The server's loop and the client's run for ever; the reliable channel
\* delivers.
Fairness ==
  /\ WF_vars(Broadcast)
  /\ WF_vars(HandleJoinArena \/ HandleLeaveArena)
  /\ WF_vars(OnCommand)
FairSpec == Spec /\ Fairness

-----------------------------------------------------------------------------
(* Properties *)

\* The variables have their types.
TypeOK ==
  /\ entity \in [Ids -> 0..MaxEntities] /\ match \in [Ids -> 0..MaxEntities]
  /\ fresh \subseteq Occupied /\ killed \subseteq Occupied /\ listed \subseteq Occupied
  /\ created \subseteq Ids /\ deleted \subseteq Ids
  /\ lastEntity \in 0..MaxEntities /\ sent \in 0..MaxSnapshots /\ shown \in 0..MaxSnapshots
  /\ playing \in BOOLEAN /\ inArena \in BOOLEAN /\ window \in BOOLEAN /\ stale \in BOOLEAN
  /\ visits \in 0..MaxVisits /\ joins \in 0..MaxVisits
  /\ fault \in {"none", "created twice", "unknown deleted"}
  /\ \A k \in DOMAIN requests : requests[k] \in {"join", "leave"}
  /\ Len(commands) <= MaxInFlight /\ Len(snapshots) <= MaxInFlight /\ Len(ring) <= Capacity

\* What ServerMatchEntities.inl asserts: a creation names a slot that is free
\* (l.20), a deletion one that is in use (l.30).
AssertionsHold == fault = "none"

\* The player is where its client is, nothing of an earlier visit is under way
\* or was applied, and it joined when the bitsets were empty.
JoinedCleanly ==
  /\ fault = "none" /\ inArena /\ playing /\ requests = <<>>
  /\ ~stale /\ ~window
  /\ \A k \in DOMAIN commands : commands[k].visit = visits

\* The two assertions fail in two cases only: the player joined between a
\* change of the world and its broadcast, or its client is given what was sent
\* to it before it left.
FaultsComeFromJoining == fault # "none" => window \/ stale

\* What a client that shows "from" shows under i after the first n of the packets
\* it was sent: what the last of them to tell of i said.
Tells(packets, k, i) == i \in DOMAIN packets[k].shows
Shows(from, packets, n, i, what) ==
  \/ what = from[i] /\ \A k \in 1..n : ~Tells(packets, k, i)
  \/ \E k \in 1..n : /\ Tells(packets, k, i) /\ what = packets[k].shows[i]
                     /\ \A j \in k + 1..n : ~Tells(packets, j, i)
WillShow(i, what) == Shows(match, commands, Len(commands), i, what)

\* Once the client has read what was sent to it, it shows the entities the
\* system holds, under the right identifiers, but for the changes the bitsets
\* have yet to broadcast: whatever was created, killed and given the same
\* identifier in between.
ClientFollows ==
  JoinedCleanly =>
    \A i \in Ids :
      /\ i \in listed \ created => WillShow(i, entity[i])
      /\ i \in deleted => \E old \in 1..MaxEntities : WillShow(i, old)
      /\ i \notin (listed \ created) \cup deleted => WillShow(i, None)

\* During a visit the client never applies a snapshot older than one it has
\* applied, though it pops the wrong end of the ring.
SnapshotsNeverGoBack == [][visits' = visits => shown' >= shown]_vars

\* Under fairness, once the world is left alone (it is: MaxEntities bounds it)
\* a client that joined cleanly and stays ends up showing it exactly.
ClientConverges == <>[]JoinedCleanly => <>[](match = entity)
=============================================================================
