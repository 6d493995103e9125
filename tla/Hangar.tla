------------------------------- MODULE Hangar -------------------------------
(***************************************************************************)
(* The hangar: the spaceships and fleets an account owns, which live in    *)
(* the database only, and the requests of a client that read or change     *)
(* them.  A handler submits a first statement or transaction; its callback *)
(* answers the client or submits the next one, with the row ids it just    *)
(* read.  Requests of one client or of several overlap, because the pool   *)
(* has several workers and a client does not have to wait for an answer.   *)
(*                                                                         *)
(* External: PostgreSQL (a name is unique per owner, a fleet's ships exist *)
(* and removing one is refused or takes it out of its fleets; the writes   *)
(* of a transaction happen at its COMMIT), the pool (RequestService), the  *)
(* clients.  Positions, scripts, hulls and modules of ships are left out.  *)
(***************************************************************************)
EXTENDS Naturals, Sequences, FiniteSets

CONSTANTS
  Clients, Accounts,
  AccountOf,      \* the account a client's session is authenticated as, for good
                  \* (IdentityIsOne of ServerSessions)
  Names,          \* names of spaceships and of fleets
  Default,        \* the name of the default spaceship
  NoClient, NoName,
  Crews,          \* the sets of spaceships, by name, a fleet is asked to hold
  Changes,        \* what an update asks for: a new name, "code", "nothing"
  FirstTables,    \* the tables at the start: [ship, fleet] records
  MaxRequests     \* bound: requests, numbered from 1

ASSUME NamesAssumption == Default \in Names /\ NoName \notin Names
ASSUME ClientsAssumption ==
  NoClient \notin Clients /\ AccountOf \in [Clients -> Accounts]
ASSUME InputsAssumption ==
  Crews \subseteq SUBSET Names \ {{}} /\ Changes \subseteq Names \cup {"code", "nothing"}
ASSUME BoundAssumption == MaxRequests \in Nat

\* A row that was deleted, and one of a spaceship or a fleet.
Gone == [owner |-> "nobody", name |-> NoName, ships |-> {}]
Row(owner, name, ships) == [owner |-> owner, name |-> name, ships |-> ships]
ShipRows == [owner : Accounts, name : Names, ships : {{}}]
FleetRows(ids) == [owner : Accounts, name : Names, ships : SUBSET ids]

ASSUME OwnersAssumption == "nobody" \notin Accounts
\* What earlier runs of the server left in the tables.
ASSUME FirstTablesAssumption ==
  \A first \in FirstTables :
    /\ first.ship \in Seq({Gone} \cup ShipRows)
    /\ first.fleet \in Seq({Gone} \cup FleetRows(DOMAIN first.ship))
    /\ \A f \in DOMAIN first.fleet : \A i \in first.fleet[f].ships :
         first.ship[i].owner = first.fleet[f].owner

VARIABLES
  online,         \* the clients whose session exists
  ship, fleet,    \* tables spaceships and fleets (with fleet_spaceships), by id
  request, asked, \* the requests, and how many there are
  replies,        \* per request: the outcomes its client was told
  effect,         \* per request: what it did to the tables
  silent,         \* requests whose path through the code ends without a reply
  crashed         \* a callback used a player or a row that does not exist

vars == <<online, ship, fleet, request, asked, replies, effect,
          silent, crashed>>
tables == <<ship, fleet>>

Requests == 1..MaxRequests
NoRequest == [kind |-> "none", stage |-> "done", result |-> "none",
              client |-> NoClient, name |-> NoName, change |-> "nothing",
              names |-> {}, ids |-> {}]

\* SELECT id ... WHERE owner_id = owner AND name = name.
IdsOf(table, owner, names) ==
  {i \in DOMAIN table : table[i].owner = owner /\ table[i].name \in names}
Owned(table, owner) == IdsOf(table, owner, Names)

Init ==
  /\ online = Clients
  /\ \E first \in FirstTables : ship = first.ship /\ fleet = first.fleet
  /\ request = [r \in Requests |-> NoRequest] /\ asked = 0
  /\ replies = [r \in Requests |-> <<>>]
  /\ effect = [r \in Requests |-> "none"]
  /\ silent = {} /\ crashed = FALSE

-----------------------------------------------------------------------------
(* Handlers of ClientSession: each submits its first database request *)

Ask(c, new) ==
  /\ ~crashed /\ c \in online /\ asked < MaxRequests
  /\ asked' = asked + 1
  /\ request' = [request EXCEPT ![asked'] = [new EXCEPT !.client = c, !.result = "pending"]]
  /\ UNCHANGED <<online, tables, replies, effect, silent, crashed>>

Asks(kind, stage) == [NoRequest EXCEPT !.kind = kind, !.stage = stage]

HandleCreateSpaceship(c, name) ==
  Ask(c, [Asks("createShip", "insert") EXCEPT !.name = name])
HandleDeleteSpaceship(c, name) ==
  Ask(c, [Asks("deleteShip", "count") EXCEPT !.name = name])
\* change: the new name, new code or modules, or nothing.
HandleUpdateSpaceship(c, name, change) ==
  Ask(c, [Asks("updateShip", "find") EXCEPT !.name = name, !.change = change])
HandleQuerySpaceshipInfo(c, name) ==
  Ask(c, [Asks("shipInfo", "find") EXCEPT !.name = name])
HandleQuerySpaceshipList(c) == Ask(c, Asks("shipList", "list"))
HandleCreateFleet(c, name, names) ==
  Ask(c, [Asks("createFleet", "names") EXCEPT !.name = name, !.names = names])
HandleUpdateFleet(c, name, names, change) ==
  Ask(c, [Asks("updateFleet", "names") EXCEPT !.name = name, !.names = names,
                                              !.change = change])
HandleDeleteFleet(c, name) == Ask(c, [Asks("deleteFleet", "remove") EXCEPT !.name = name])
HandleQueryFleetList(c) == Ask(c, Asks("fleetList", "list"))
HandleQueryFleetInfo(c, name) == Ask(c, [Asks("fleetInfo", "fleet") EXCEPT !.name = name])

\* HandlePeerDisconnection; a session id never finds another player.
Leave(c) ==
  /\ ~crashed /\ c \in online
  /\ online' = online \ {c}
  /\ UNCHANGED <<tables, request, asked, replies, effect, silent, crashed>>

-----------------------------------------------------------------------------
(* Database *)

Owner(r) == AccountOf[request[r].client]
Runs(r, kinds, stage) ==
  /\ ~crashed
  /\ request[r].kind \in kinds /\ request[r].stage = stage
  /\ request[r].result = "pending"
  /\ UNCHANGED <<online, asked, silent, crashed>>

Result(r, result) == request' = [request EXCEPT ![r].result = result]
ResultIds(r, found) ==
  request' = [request EXCEPT ![r].ids = found,
                             ![r].result = IF found = {} THEN "empty" ELSE "row"]

\* A statement that only reads finds some ids, or fails.
Reads(r, found) ==
  /\ ResultIds(r, found) \/ Result(r, "failed")
  /\ UNCHANGED <<tables, replies, effect>>

\* A statement or transaction that writes takes effect, has a statement
\* refused, or loses its connection while it commits.
Writes(r, allowed, ships, fleets, done) ==
  /\ \/ /\ allowed
        /\ ship' = ships /\ fleet' = fleets
        /\ effect' = [effect EXCEPT ![r] = done]
        /\ Result(r, IF done = "nothing" THEN "empty" ELSE "row")
     \/ Result(r, "failed") /\ UNCHANGED <<tables, effect>>
     \/ /\ allowed
        /\ UNCHANGED tables \/ (ship' = ships /\ fleet' = fleets)
        /\ effect' = [effect EXCEPT ![r] = "cut"]
        /\ Result(r, "uncommitted")
  /\ UNCHANGED replies

\* CreateSpaceship, with the modules its operator appends.
Insert(r, kinds, stage, name) ==
  /\ Runs(r, kinds, stage)
  /\ Writes(r, IdsOf(ship, Owner(r), {name}) = {},
            Append(ship, Row(Owner(r), name, {})), fleet, "done")

\* Mutant: the last spaceship's refusal is left to the callback, which is silent.
CountOthers_NoReply(r) ==
  /\ Runs(r, {"deleteShip"}, "count")
  /\ \/ /\ IdsOf(ship, Owner(r), Names \ {request[r].name}) # {}
        /\ request' = [request EXCEPT ![r].stage = "remove"]
     \/ /\ IdsOf(ship, Owner(r), Names \ {request[r].name}) = {}
        /\ Result(r, "refused")
     \/ Result(r, "failed")
  /\ UNCHANGED <<tables, effect, replies>>

\* CountSpaceshipByOwnerIdExceptName; its operator, on the pool's thread,
\* appends the deletion, or answers and makes the transaction fail.
CountOthers(r) ==
  /\ Runs(r, {"deleteShip"}, "count")
  /\ \/ /\ IdsOf(ship, Owner(r), Names \ {request[r].name}) # {}
        /\ request' = [request EXCEPT ![r].stage = "remove"]
        /\ UNCHANGED replies
     \/ /\ IdsOf(ship, Owner(r), Names \ {request[r].name}) = {}
        /\ Result(r, "refused")
        /\ replies' = IF request[r].client \in online
                        THEN [replies EXCEPT ![r] = Append(@, "refused")] ELSE replies
     \/ Result(r, "failed") /\ UNCHANGED replies
  /\ UNCHANGED <<tables, effect>>

\* The appended DeleteSpaceship, and COMMIT.
RemoveShip(r) ==
  /\ Runs(r, {"deleteShip"}, "remove")
  /\ LET gone == IdsOf(ship, Owner(r), {request[r].name})
     IN  Writes(r, TRUE,
                [i \in DOMAIN ship |-> IF i \in gone THEN Gone ELSE ship[i]],
                [f \in DOMAIN fleet |-> [fleet[f] EXCEPT !.ships = @ \ gone]],
                IF gone = {} THEN "nothing" ELSE "done")

\* Mutant: FindSpaceshipByOwnerIdAndName without the owner.
Find_AnyOwner(r) ==
  /\ Runs(r, {"updateShip", "shipInfo"}, "find")
  /\ Reads(r, UNION {IdsOf(ship, a, {request[r].name}) : a \in Accounts})

Find(r) ==
  /\ Runs(r, {"updateShip", "shipInfo"}, "find")
  /\ Reads(r, IdsOf(ship, Owner(r), {request[r].name}))

\* The updates WHERE id = the id found, which may have been deleted since.
Update(r) ==
  /\ Runs(r, {"updateShip"}, "update")
  /\ LET found == {i \in request[r].ids : ship[i] # Gone}
         name == request[r].change
         taken == name \in Names /\ IdsOf(ship, Owner(r), {name}) \ found # {}
     IN  Writes(r, ~taken \/ found = {},
                [i \in DOMAIN ship |-> IF i \in found /\ name \in Names
                   THEN [ship[i] EXCEPT !.name = name] ELSE ship[i]],
                fleet, IF found = {} THEN "late" ELSE "done")

\* FindSpaceshipModulesBySpaceshipId: a ship may have no module left.
Modules(r) ==
  /\ Runs(r, {"shipInfo"}, "modules")
  /\ Result(r, "row") \/ Result(r, "failed")
  /\ UNCHANGED <<tables, replies, effect>>

\* Of a list only matters whether it is empty.
Lists(r, found) ==
  /\ Result(r, IF found = {} THEN "empty" ELSE "row") \/ Result(r, "failed")
  /\ UNCHANGED <<tables, replies, effect>>
List(r) ==
  \/ Runs(r, {"shipList"}, "list") /\ Lists(r, Owned(ship, Owner(r)))
  \/ Runs(r, {"fleetList"}, "list") /\ Lists(r, Owned(fleet, Owner(r)))

\* Mutant: FindSpaceshipIdByOwnerIdAndName without the owner.
FindNames_AnyOwner(r) ==
  /\ Runs(r, {"createFleet", "updateFleet"}, "names")
  /\ LET found == UNION {IdsOf(ship, a, request[r].names) : a \in Accounts}
     IN  Reads(r, IF {ship[i].name : i \in found} = request[r].names THEN found ELSE {})

\* One lookup per name; the callback wants a row for each of them.
FindNames(r) ==
  /\ Runs(r, {"createFleet", "updateFleet"}, "names")
  /\ LET found == IdsOf(ship, Owner(r), request[r].names)
     IN  Reads(r, IF Cardinality(found) = Cardinality(request[r].names)
                    THEN found ELSE {})

ShipsExist(r) == \A i \in request[r].ids : ship[i] # Gone

InsertFleet(r) ==
  /\ Runs(r, {"createFleet"}, "insert")
  /\ Writes(r, ShipsExist(r) /\ IdsOf(fleet, Owner(r), {request[r].name}) = {},
            ship, Append(fleet, Row(Owner(r), request[r].name, request[r].ids)), "done")

\* FindFleetByOwnerIdAndName, whose operator renames the fleet and replaces its
\* ships.
ReplaceFleet(r) ==
  /\ Runs(r, {"updateFleet"}, "insert")
  /\ LET found == IdsOf(fleet, Owner(r), {request[r].name})
         name == IF request[r].change \in Names THEN request[r].change
                                               ELSE request[r].name
         taken == IdsOf(fleet, Owner(r), {name}) \ found # {}
     IN  Writes(r, found # {} /\ ~taken /\ ShipsExist(r), ship,
                [f \in DOMAIN fleet |-> IF f \in found
                   THEN Row(Owner(r), name, request[r].ids) ELSE fleet[f]],
                "done")

RemoveFleet(r) ==
  /\ Runs(r, {"deleteFleet"}, "remove")
  /\ LET gone == IdsOf(fleet, Owner(r), {request[r].name})
     IN  Writes(r, TRUE, ship,
                [f \in DOMAIN fleet |-> IF f \in gone THEN Gone ELSE fleet[f]],
                IF gone = {} THEN "nothing" ELSE "done")

\* GetFleetData: the fleet's id, its ships' ids, then each ship.
FindFleet(r) ==
  /\ Runs(r, {"fleetInfo"}, "fleet")
  /\ Reads(r, IdsOf(fleet, Owner(r), {request[r].name}))
FindMembers(r) ==
  /\ Runs(r, {"fleetInfo"}, "members")
  /\ Reads(r, UNION {fleet[f].ships : f \in request[r].ids})
FindShips(r) ==
  /\ Runs(r, {"fleetInfo"}, "ships")
  /\ \/ Result(r, IF ShipsExist(r) THEN "row" ELSE "missing")
     \/ Result(r, "failed")
  /\ UNCHANGED <<tables, replies, effect>>

DatabaseStep(r) ==
  \/ Insert(r, {"createShip"}, "insert", request[r].name)
  \/ Insert(r, {"shipList"}, "default", Default)
  \/ CountOthers(r) \/ RemoveShip(r) \/ Find(r) \/ Update(r) \/ Modules(r)
  \/ List(r) \/ FindNames(r) \/ InsertFleet(r) \/ ReplaceFleet(r) \/ RemoveFleet(r)
  \/ FindFleet(r) \/ FindMembers(r) \/ FindShips(r)

-----------------------------------------------------------------------------
(* Callbacks, on the main thread *)

Calls(r, kinds, stage, results) ==
  /\ ~crashed
  /\ request[r].kind \in kinds /\ request[r].stage = stage
  /\ request[r].result \in results
  /\ UNCHANGED <<online, tables, asked, effect>>

Failures == {"failed", "uncommitted"}
Found(r) == request[r].client \in online

\* Mutant: what the callbacks captured outlives the request.
Ends_Kept(r) == request' = [request EXCEPT ![r].stage = "done", ![r].result = "none"]

\* The request is over; what it was is remembered.
Ends(r) ==
  request' = [request EXCEPT ![r] = [NoRequest EXCEPT !.kind = request[r].kind,
                                                      !.client = request[r].client]]
Goes(r, stage) ==
  /\ request' = [request EXCEPT ![r].stage = stage, ![r].result = "pending"]
  /\ UNCHANGED <<replies, silent, crashed>>

\* Answers its client, unless GetPlayerBySession finds none.
Tells(r, outcome) ==
  /\ Ends(r)
  /\ replies' = IF Found(r) THEN [replies EXCEPT ![r] = Append(@, outcome)] ELSE replies
  /\ UNCHANGED <<silent, crashed>>

Drops(r) == Ends(r) /\ UNCHANGED <<replies, silent, crashed>>

IsSilent(r) ==
  /\ Ends(r)
  /\ silent' = silent \cup {r}
  /\ UNCHANGED <<replies, crashed>>

\* The last callback of a request that writes.
Finished(r, kinds, stage) ==
  \/ Calls(r, kinds, stage, {"row"}) /\ Tells(r, "ok")
  \/ Calls(r, kinds, stage, Failures) /\ Tells(r, "failed")

\* The callback of HandleDeleteFleet: a statement that failed affected no row.
FleetDeleted(r) ==
  \/ Calls(r, {"deleteFleet"}, "remove", {"row"}) /\ Tells(r, "ok")
  \/ Calls(r, {"deleteFleet"}, "remove", {"empty"} \cup Failures)
     /\ Tells(r, "notFound")

\* Mutant: every failed deletion is answered, the refused one too.
DeletionFinished_AlwaysTells(r) ==
  \/ Calls(r, {"deleteShip"}, "remove", {"row"}) /\ Tells(r, "ok")
  \/ Calls(r, {"deleteShip"}, "remove", {"empty"}) /\ Tells(r, "notFound")
  \/ Calls(r, {"deleteShip"}, "remove", Failures) /\ Tells(r, "failed")
  \/ Calls(r, {"deleteShip"}, "count", {"refused", "failed"}) /\ Tells(r, "failed")

\* Mutant: the affected rows are read from the result of COMMIT.
DeletionFinished_CommitRead(r) ==
  \/ Calls(r, {"deleteShip"}, "remove", {"row", "empty"}) /\ Tells(r, "notFound")
  \/ Calls(r, {"deleteShip"}, "remove", {"uncommitted"}) /\ Tells(r, "failed")
  \/ Calls(r, {"deleteShip"}, "remove", {"failed"}) /\ IsSilent(r)
  \/ Calls(r, {"deleteShip"}, "count", {"failed"}) /\ IsSilent(r)
  \/ Calls(r, {"deleteShip"}, "count", {"refused"}) /\ Drops(r)

\* Fewer than four results: no reply.
DeletionFinished(r) ==
  \/ Calls(r, {"deleteShip"}, "remove", {"row"}) /\ Tells(r, "ok")
  \/ Calls(r, {"deleteShip"}, "remove", {"empty"}) /\ Tells(r, "notFound")
  \/ Calls(r, {"deleteShip"}, "remove", {"uncommitted"}) /\ Tells(r, "failed")
  \/ Calls(r, {"deleteShip"}, "remove", {"failed"}) /\ IsSilent(r)
  \/ Calls(r, {"deleteShip"}, "count", {"failed"}) /\ IsSilent(r)
  \/ Calls(r, {"deleteShip"}, "count", {"refused"}) /\ Drops(r)

\* The transaction is submitted whether or not the player is still there; one
\* without a statement is not submitted.
ShipFound(r) ==
  \/ Calls(r, {"updateShip"}, "find", {"empty"}) /\ Tells(r, "notFound")
  \/ Calls(r, {"updateShip"}, "find", {"failed"}) /\ Tells(r, "failed")
  \/ /\ Calls(r, {"updateShip"}, "find", {"row"})
     /\ IF request[r].change = "nothing" THEN IsSilent(r) ELSE Goes(r, "update")

\* The reply to a query is the information or an empty packet.
ShipInfoFound(r) ==
  \/ /\ Calls(r, {"shipInfo"}, "find", {"row"}) /\ Found(r)
     /\ Goes(r, "modules") \/ Tells(r, "ok")
  \/ Calls(r, {"shipInfo"}, "find", {"row"}) /\ ~Found(r) /\ Drops(r)
  \/ Calls(r, {"shipInfo"}, "find", {"empty", "failed"}) /\ Tells(r, "failed")
  \/ Calls(r, {"shipInfo"}, "modules", {"row"}) /\ Tells(r, "ok")
  \/ Calls(r, {"shipInfo"}, "modules", {"failed"}) /\ Tells(r, "failed")

\* An account without a spaceship gets the default one.
Listed(r) ==
  \/ Calls(r, {"shipList", "fleetList"}, "list", {"row"}) /\ Tells(r, "ok")
  \/ Calls(r, {"shipList", "fleetList"}, "list", {"failed"}) /\ Tells(r, "failed")
  \/ Calls(r, {"fleetList"}, "list", {"empty"}) /\ Tells(r, "ok")
  \/ /\ Calls(r, {"shipList"}, "list", {"empty"})
     /\ IF Found(r) THEN Goes(r, "default") ELSE Drops(r)

NamesFound(r) ==
  \/ Calls(r, {"createFleet", "updateFleet"}, "names", {"empty", "failed"})
     /\ Tells(r, "failed")
  \/ /\ Calls(r, {"createFleet", "updateFleet"}, "names", {"row"})
     /\ IF Found(r) THEN Goes(r, "insert") ELSE Drops(r)

\* The callback of HandleQueryFleetInfo uses the player unchecked.
TellsFleet(r, outcome) ==
  IF Found(r) THEN Tells(r, outcome)
  ELSE crashed' = TRUE /\ UNCHANGED <<request, replies, silent>>

\* Each of the first two callbacks of GetFleetData looks for the player, but
\* only after the statement's failure was handled; the last one does not, and
\* takes the row of every ship for granted.
FleetQueried(r, stage, next) ==
  \/ Calls(r, {"fleetInfo"}, stage, {"failed"}) /\ TellsFleet(r, "failed")
  \/ Calls(r, {"fleetInfo"}, stage, {"empty"}) /\ Tells(r, "failed")
  \/ /\ Calls(r, {"fleetInfo"}, stage, {"row"})
     /\ IF Found(r) THEN Goes(r, next) ELSE Drops(r)

FleetLoaded(r) ==
  \/ Calls(r, {"fleetInfo"}, "ships", {"row"}) /\ TellsFleet(r, "ok")
  \/ Calls(r, {"fleetInfo"}, "ships", {"failed"}) /\ TellsFleet(r, "failed")
  \/ /\ Calls(r, {"fleetInfo"}, "ships", {"missing"})
     /\ crashed' = TRUE /\ UNCHANGED <<request, replies, silent>>

MainStep(r) ==
  \/ Finished(r, {"createShip", "createFleet", "updateFleet"}, "insert")
  \/ Finished(r, {"updateShip"}, "update")
  \/ Finished(r, {"shipList"}, "default")
  \/ FleetDeleted(r) \/ DeletionFinished(r) \/ ShipFound(r) \/ ShipInfoFound(r) \/ Listed(r)
  \/ NamesFound(r) \/ FleetQueried(r, "fleet", "members")
  \/ FleetQueried(r, "members", "ships") \/ FleetLoaded(r)

-----------------------------------------------------------------------------

Handle(c) ==
  \/ HandleQuerySpaceshipList(c) \/ HandleQueryFleetList(c)
  \/ \E name \in Names :
       \/ HandleCreateSpaceship(c, name) \/ HandleDeleteSpaceship(c, name)
       \/ HandleQuerySpaceshipInfo(c, name)
       \/ HandleDeleteFleet(c, name) \/ HandleQueryFleetInfo(c, name)
       \/ \E change \in Changes : HandleUpdateSpaceship(c, name, change)
       \/ \E names \in Crews :
            \/ HandleCreateFleet(c, name, names)
            \/ \E change \in Changes \ {"code"} :
                 HandleUpdateFleet(c, name, names, change)

Next ==
  \/ \E c \in Clients : Handle(c) \/ Leave(c)
  \/ \E r \in Requests : DatabaseStep(r) \/ MainStep(r)

Spec == Init /\ [][Next]_vars

\* A submitted request is executed and its callback called: what the pool
\* promises (RequestService) and DatabasePool is checked to keep.
Fairness == \A r \in Requests : WF_vars(DatabaseStep(r)) /\ WF_vars(MainStep(r))

FairSpec == Spec /\ Fairness

-----------------------------------------------------------------------------
(* Properties *)

Kinds == {"none", "createShip", "deleteShip", "updateShip", "shipInfo", "shipList",
          "createFleet", "updateFleet", "deleteFleet", "fleetInfo", "fleetList"}
Stages == {"done", "insert", "count", "remove", "find", "update", "modules", "list",
           "default", "names", "fleet", "members", "ships"}
Outcomes == {"ok", "notFound", "refused", "failed"}

\* The type of every variable; a finished request holds no row id.
TypeOK ==
  /\ online \subseteq Clients
  /\ ship \in Seq({Gone} \cup ShipRows)
  /\ fleet \in Seq({Gone} \cup FleetRows(DOMAIN ship))
  /\ asked \in 0..MaxRequests /\ silent \subseteq 1..asked /\ crashed \in BOOLEAN
  /\ \A r \in Requests :
       /\ request[r].kind \in Kinds /\ request[r].stage \in Stages
       /\ request[r].ids \subseteq DOMAIN ship \cup DOMAIN fleet
       /\ request[r].stage = "done" => request[r].ids = {}
       /\ replies[r] \in Seq(Outcomes)
       /\ effect[r] \in {"none", "done", "nothing", "late", "cut"}

\* A request is answered once at most, although a deletion is answered by the
\* pool's thread or by the callback, which tell by the number of results which
\* of them is to speak (HandleDeleteSpaceship).
RepliesOnce == \A r \in Requests : Len(replies[r]) <= 1

Writing == {"createShip", "deleteShip", "updateShip", "createFleet", "updateFleet",
            "deleteFleet"}

\* A client that hears of a success had its change made, or its ship deleted
\* before the update reached it; one that hears of a failure had not, unless
\* the connection broke on the commit; and it hears of one of them only.
AnswersAreTrue ==
  /\ RepliesOnce
  /\ \A r \in Requests : \A i \in DOMAIN replies[r] :
       request[r].kind \in Writing =>
         /\ replies[r][i] = "ok" => effect[r] \in {"done", "late"}
         /\ replies[r][i] # "ok" => effect[r] # "done"

\* Whatever is created, deleted and replaced between the look-up of the names
\* and the insertion of the ids, a fleet holds ships of its own owner only.
FleetsHoldOwnShips ==
  \A f \in DOMAIN fleet : \A i \in fleet[f].ships : ship[i].owner = fleet[f].owner

Acts(owner) == \E r \in Requests : effect'[r] # effect[r] /\ Owner(r) = owner

\* A row that changes does so for a request of its owner, though an update
\* names its row by an id that was read one request earlier.
OnlyOwnersChange ==
  [][/\ \A i \in DOMAIN ship : ship'[i] # ship[i] => Acts(ship[i].owner)
     /\ \A f \in DOMAIN fleet : fleet'[f] # fleet[f] => Acts(fleet[f].owner)]_vars

\* The callbacks of HandleQueryFleetInfo use a player who may have left, and the
\* row of a ship that may have been deleted.
FleetQueryCrashed ==
  /\ crashed
  /\ \E r \in Requests :
       /\ request[r].kind = "fleetInfo"
       /\ request[r].client \notin online \/ \E i \in DOMAIN ship : ship[i] = Gone

\* A request is answered, unless its client leaves, a fleet query stopped the
\* server (and nothing else stops it) or the code gives the request no reply:
\* an update that asks for nothing, a deletion whose statements fail.
EveryRequestAnswered ==
  \A r \in Requests :
    r <= asked ~> \/ replies[r] # <<>> \/ request[r].client \notin online
                  \/ r \in silent \/ FleetQueryCrashed

\* "you cannot delete your last spaceship", as the client words the refusal.
LastShipStays ==
  [][\A a \in Accounts : Owned(ship, a) # {} => Owned(ship', a) # {}]_vars

=============================================================================
