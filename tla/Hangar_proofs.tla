---------------------------- MODULE Hangar_proofs ----------------------------
(***************************************************************************)
(* Theorems of Hangar, for any number of clients, accounts, names and      *)
(* requests: the types, how often and how truly a request is answered, and *)
(* whose rows it may change.                                               *)
(*                                                                         *)
(* The inductive invariant says, of each request, what its stage tells     *)
(* about its input (InputFits), whose rows the ids are that it read        *)
(* earlier, whatever became of them since (IdsFit), and how its answer and *)
(* what it did to the tables follow its result (AnswerFits).               *)
(***************************************************************************)
EXTENDS Hangar, TLAPS

Effects == {"none", "done", "nothing", "late", "cut"}
Results == {"none", "pending", "failed", "uncommitted", "empty", "row", "refused",
            "missing"}
WriteStages == {"insert", "update", "remove", "default"}
RequestRecords ==
  [kind : Kinds, stage : Stages, result : Results, client : Clients \cup {NoClient},
   name : Names \cup {NoName}, change : Names \cup {"code", "nothing"},
   names : SUBSET Names, ids : SUBSET Nat]

\* The tables ships and fleets satisfy the constraints of the database, and a
\* fleet holds ships of its owner only.
TablesFit(ships, fleets) ==
  /\ ships \in Seq({Gone} \cup ShipRows)
  /\ fleets \in Seq({Gone} \cup FleetRows(DOMAIN ships))
  /\ \A f \in DOMAIN fleets : \A i \in fleets[f].ships :
       ships[i].owner = fleets[f].owner

\* A request under way has a client, and a name if it is about one.
InputFits(q) ==
  /\ q.stage = "done" => q.ids = {}
  /\ q.stage # "done" =>
       /\ q.client \in Clients
       /\ q.kind \notin {"shipList", "fleetList"} => q.name \in Names

\* The ids a request read are of ships of its owner, or of ships deleted since;
\* those of a query of a fleet are of the fleet first and of its ships later.
IdsFit(q, ships, fleets) ==
  /\ q.ids \subseteq DOMAIN ships \cup DOMAIN fleets
  /\ q.kind \in {"updateShip", "createFleet", "updateFleet"} =>
       \A i \in q.ids : /\ i \in DOMAIN ships
                        /\ ships[i].owner \in {AccountOf[q.client], "nobody"}
  /\ \/ q.stage = "fleet"
     \/ q.stage = "members" /\ q.result = "pending"
     => q.ids \subseteq DOMAIN fleets

\* A request is not answered while it is under way, but for a deletion that was
\* refused; it has had no effect before its statements that write succeed.
AnswerFits(q, told, done) ==
  /\ told = <<>> \/ \E outcome \in Outcomes : told = <<outcome>>
  /\ q.stage # "done" =>
       /\ told = <<>> \/ (q.stage = "count" /\ q.result = "refused")
       /\ q.stage \notin WriteStages \/ q.result \in {"pending", "failed"} => done = "none"
       /\ q.result = "row" /\ q.stage \in WriteStages => done \in {"done", "late"}
       /\ q.result # "row" => done # "done"
  /\ q.kind \in Writing /\ told # <<>> =>
       /\ told[1] = "ok" => done \in {"done", "late"}
       /\ told[1] # "ok" => done # "done"

RequestsFit ==
  \A r \in Requests :
    /\ InputFits(request[r])
    /\ IdsFit(request[r], ship, fleet)
    /\ AnswerFits(request[r], replies[r], effect[r])
    /\ r > asked => request[r].stage = "done" /\ replies[r] = <<>> /\ effect[r] = "none"

IInv ==
  /\ online \subseteq Clients
  /\ TablesFit(ship, fleet)
  /\ request \in [Requests -> RequestRecords]
  /\ asked \in 0..MaxRequests /\ silent \subseteq 1..asked /\ crashed \in BOOLEAN
  /\ replies \in [Requests -> Seq(Outcomes)]
  /\ effect \in [Requests -> Effects]
  /\ RequestsFit

\* What OnlyOwnersChange says of a step.
OwnersAct ==
  /\ \A i \in DOMAIN ship : ship'[i] # ship[i] => Acts(ship[i].owner)
  /\ \A f \in DOMAIN fleet : fleet'[f] # fleet[f] => Acts(fleet[f].owner)

-----------------------------------------------------------------------------
(* The tables *)

\* A function of a sequence's domain is a sequence.
LEMMA MapsToSeq ==
  ASSUME NEW S, NEW T, NEW s \in Seq(S), NEW map \in [DOMAIN s -> T]
  PROVE  map \in Seq(T) /\ DOMAIN map = DOMAIN s
  BY DOMAIN s = 1..Len(s), Len(s) \in Nat

\* What a table grows by.
LEMMA AppendToSeq ==
  ASSUME NEW S, NEW s \in Seq(S), NEW row \in S
  PROVE  /\ Append(s, row) \in Seq(S)
         /\ DOMAIN s \subseteq DOMAIN Append(s, row)
         /\ \A i \in DOMAIN s : Append(s, row)[i] = s[i]
         /\ \A i \in DOMAIN Append(s, row) : i \in DOMAIN s \/ Append(s, row)[i] = row
  OBVIOUS

LEMMA RowsOfTables ==
  ASSUME NEW ships, NEW fleets, TablesFit(ships, fleets)
  PROVE  /\ \A i \in DOMAIN ships :
              /\ ships[i] \in {Gone} \cup ShipRows
              /\ ships[i] = Gone <=> ships[i].owner = "nobody"
         /\ \A f \in DOMAIN fleets :
              /\ fleets[f] \in {Gone} \cup FleetRows(DOMAIN ships)
              /\ fleets[f] = Gone <=> fleets[f].owner = "nobody"
              /\ fleets[f].ships \subseteq DOMAIN ships
         /\ DOMAIN ships \subseteq Nat /\ DOMAIN fleets \subseteq Nat
  <1>1. /\ \A i \in DOMAIN ships : ships[i] \in {Gone} \cup ShipRows
        /\ \A f \in DOMAIN fleets : fleets[f] \in {Gone} \cup FleetRows(DOMAIN ships)
        /\ DOMAIN ships = 1..Len(ships) /\ Len(ships) \in Nat
        /\ DOMAIN fleets = 1..Len(fleets) /\ Len(fleets) \in Nat
    BY DEF TablesFit
  <1>2. Gone.owner = "nobody" /\ Gone.ships = {}
    BY DEF Gone
  <1>3. \A row \in ShipRows \cup FleetRows(DOMAIN ships) :
          row.owner \in Accounts /\ row.ships \subseteq DOMAIN ships
    BY DEF ShipRows, FleetRows
  <1>4. ASSUME NEW row \in {Gone} \cup ShipRows \cup FleetRows(DOMAIN ships)
        PROVE  /\ row = Gone <=> row.owner = "nobody"
               /\ row.ships \subseteq DOMAIN ships
    BY <1>2, <1>3, OwnersAssumption
  <1>5. 1..Len(ships) \subseteq Nat /\ 1..Len(fleets) \subseteq Nat
    OBVIOUS
  <1> QED BY <1>1, <1>4, <1>5

\* The rows a look-up finds are of the owner it names.
LEMMA IdsOfOwner ==
  ASSUME NEW table, NEW owner, NEW names
  PROVE  /\ IdsOf(table, owner, names) \subseteq DOMAIN table
         /\ \A i \in IdsOf(table, owner, names) : table[i].owner = owner
  BY DEF IdsOf

\* Rows are never moved, and never get another owner.
Grow(ships, fleets) ==
  /\ DOMAIN ship \subseteq DOMAIN ships /\ DOMAIN fleet \subseteq DOMAIN fleets
  /\ \A i \in DOMAIN ship : ships[i].owner \in {ship[i].owner, "nobody"}

\* What a request may do to the tables.
OwnChanges(r, ships, fleets) ==
  /\ TablesFit(ships, fleets) /\ Grow(ships, fleets)
  /\ \A i \in DOMAIN ship : ships[i] # ship[i] => ship[i].owner = Owner(r)
  /\ \A f \in DOMAIN fleet : fleets[f] # fleet[f] => fleet[f].owner = Owner(r)

\* The ids a request read keep their meaning while the tables grow.
LEMMA IdsStillFit ==
  ASSUME NEW q, NEW ships, NEW fleets, Grow(ships, fleets), IdsFit(q, ship, fleet)
  PROVE  IdsFit(q, ships, fleets)
  BY DEF Grow, IdsFit

-----------------------------------------------------------------------------
(* A step of one request *)

\* The parts of the invariant that one request's step may disturb are those of
\* that request, and the tables.
LEMMA StepKeeps ==
  ASSUME IInv, NEW r \in Requests, NEW new,
         request[r].stage # "done",
         request' = [request EXCEPT ![r] = new],
         new \in RequestRecords, InputFits(new), IdsFit(new, ship', fleet'),
         AnswerFits(new, replies'[r], effect'[r]),
         replies' \in [Requests -> Seq(Outcomes)], effect' \in [Requests -> Effects],
         \A q \in Requests \ {r} : replies'[q] = replies[q] /\ effect'[q] = effect[q],
         TablesFit(ship', fleet'), Grow(ship', fleet'),
         silent' \in {silent, silent \cup {r}}, crashed' \in BOOLEAN,
         UNCHANGED <<online, asked>>
  PROVE  IInv'
  <1>1. r <= asked
    <2>1. r \in Nat /\ asked \in Nat
      BY BoundAssumption DEF IInv, Requests
    <2>2. ~(r > asked)
      BY DEF IInv, RequestsFit
    <2> QED BY <2>1, <2>2
  <1>2. silent' \subseteq 1..asked
    BY <1>1, BoundAssumption DEF IInv, Requests
  <1>3. request' \in [Requests -> RequestRecords] /\ request'[r] = new
    BY DEF IInv
  <1>4. ASSUME NEW q \in Requests
        PROVE  /\ InputFits(request'[q])
               /\ IdsFit(request'[q], ship', fleet')
               /\ AnswerFits(request'[q], replies'[q], effect'[q])
               /\ q > asked => /\ request'[q].stage = "done" /\ replies'[q] = <<>>
                               /\ effect'[q] = "none"
    <2>1. CASE q = r
      BY <1>1, <1>3, <2>1, BoundAssumption DEF IInv, Requests
    <2>2. CASE q # r
      <3>1. request'[q] = request[q] /\ replies'[q] = replies[q] /\ effect'[q] = effect[q]
        BY <2>2 DEF IInv
      <3>2. IdsFit(request[q], ship', fleet')
        BY IdsStillFit DEF IInv, RequestsFit
      <3> QED BY <3>1, <3>2 DEF IInv, RequestsFit
    <2> QED BY <2>1, <2>2
  <1>5. RequestsFit'
    BY <1>4 DEF RequestsFit
  <1> QED BY <1>2, <1>3, <1>5 DEF IInv

\* A step that leaves the tables alone acts on nobody's rows.
LEMMA TablesUnchanged ==
  ASSUME IInv, UNCHANGED tables
  PROVE  TablesFit(ship', fleet') /\ Grow(ship', fleet') /\ OwnersAct
  BY DEF IInv, tables, Grow, OwnersAct

\* The step of a request on the main thread or of a statement that only reads.
LEMMA QuietKeeps ==
  ASSUME IInv, NEW r \in Requests, NEW new,
         request[r].stage # "done",
         request' = [request EXCEPT ![r] = new],
         new \in RequestRecords, InputFits(new), IdsFit(new, ship, fleet),
         \/ AnswerFits(new, replies[r], effect[r]) /\ replies' = replies
         \/ \E outcome \in Outcomes :
              /\ AnswerFits(new, <<outcome>>, effect[r]) /\ replies[r] = <<>>
              /\ replies' = [replies EXCEPT ![r] = Append(@, outcome)],
         silent' \in {silent, silent \cup {r}}, crashed' \in BOOLEAN,
         UNCHANGED <<online, asked, tables, effect>>
  PROVE  IInv' /\ OwnersAct
  <1>1. TablesFit(ship', fleet') /\ Grow(ship', fleet') /\ OwnersAct
    BY TablesUnchanged
  <1>2. IdsFit(new, ship', fleet')
    BY DEF tables
  <1>3. /\ replies' \in [Requests -> Seq(Outcomes)]
        /\ \A q \in Requests \ {r} : replies'[q] = replies[q] /\ effect'[q] = effect[q]
        /\ AnswerFits(new, replies'[r], effect'[r])
    <2>1. CASE AnswerFits(new, replies[r], effect[r]) /\ replies' = replies
      BY <2>1 DEF IInv
    <2>2. ASSUME NEW outcome \in Outcomes,
                 AnswerFits(new, <<outcome>>, effect[r]), replies[r] = <<>>,
                 replies' = [replies EXCEPT ![r] = Append(@, outcome)]
          PROVE  <1>3
      <3>1. Append(replies[r], outcome) = <<outcome>> /\ <<outcome>> \in Seq(Outcomes)
        BY <2>2
      <3>2. replies' = [replies EXCEPT ![r] = <<outcome>>]
        BY <2>2, <3>1
      <3> QED BY <2>2, <3>1, <3>2 DEF IInv
    <2> QED BY <2>1, <2>2
  <1>4. effect' \in [Requests -> Effects]
    BY DEF IInv
  <1> QED BY <1>1, <1>2, <1>3, <1>4, StepKeeps

\* A request that was not made yet, and one that ended.
LEMMA NoRequestRecord == NoRequest \in RequestRecords
  BY DEF NoRequest, RequestRecords, Kinds, Stages, Results

\* What is known of a request under way.
LEMMA UnderWay ==
  ASSUME IInv, NEW r \in Requests, request[r].stage # "done"
  PROVE  /\ request[r] \in RequestRecords
         /\ request[r].client \in Clients /\ request[r].kind \in Kinds
         /\ InputFits(request[r]) /\ IdsFit(request[r], ship, fleet)
         /\ AnswerFits(request[r], replies[r], effect[r])
  BY DEF IInv, RequestsFit, InputFits, RequestRecords

\* What Ends leaves of a request.
EndedOf(r) == [NoRequest EXCEPT !.kind = request[r].kind, !.client = request[r].client]

LEMMA EndedRecord ==
  ASSUME IInv, NEW r \in Requests, request[r].stage # "done"
  PROVE  /\ EndedOf(r) \in RequestRecords /\ InputFits(EndedOf(r))
         /\ IdsFit(EndedOf(r), ship, fleet)
         /\ EndedOf(r).stage = "done" /\ EndedOf(r).kind = request[r].kind
  <1>1. request[r].kind \in Kinds /\ request[r].client \in Clients
    BY UnderWay
  <1>2. EndedOf(r) \in RequestRecords
    BY <1>1, NoRequestRecord DEF RequestRecords, EndedOf
  <1>3. /\ EndedOf(r).stage = "done" /\ EndedOf(r).kind = request[r].kind
        /\ EndedOf(r).ids = {}
    BY DEF NoRequest, EndedOf
  <1> QED BY <1>2, <1>3 DEF InputFits, IdsFit

\* A callback that answers.
LEMMA TellsKeeps ==
  ASSUME IInv, NEW r \in Requests, NEW outcome \in Outcomes,
         NEW kinds, NEW stage, NEW results,
         Calls(r, kinds, stage, results), stage # "done",
         "refused" \notin results, Tells(r, outcome),
         request[r].kind \in Writing =>
           /\ outcome = "ok" => effect[r] \in {"done", "late"}
           /\ outcome # "ok" => effect[r] # "done"
  PROVE  IInv' /\ OwnersAct
  <1>1. request[r].stage # "done" /\ request[r].result # "refused"
    BY DEF Calls
  <1> DEFINE ended == EndedOf(r)
  <1>2. /\ ended \in RequestRecords /\ InputFits(ended) /\ IdsFit(ended, ship, fleet)
        /\ ended.stage = "done" /\ ended.kind = request[r].kind
    BY <1>1, EndedRecord
  <1>3. request' = [request EXCEPT ![r] = ended]
    BY DEF Tells, Ends, EndedOf
  <1>4. replies[r] = <<>>
    BY <1>1, UnderWay DEF AnswerFits
  <1>5. AnswerFits(ended, <<outcome>>, effect[r]) /\ AnswerFits(ended, <<>>, effect[r])
    BY <1>2 DEF AnswerFits
  <1>6. /\ UNCHANGED <<online, asked, tables, effect, silent, crashed>>
        /\ crashed' \in BOOLEAN
    BY DEF Calls, Tells, IInv
  <1>7. \/ replies' = replies
        \/ replies' = [replies EXCEPT ![r] = Append(@, outcome)]
    BY DEF Tells
  <1> HIDE DEF ended
  <1> QED BY <1>1, <1>2, <1>3, <1>4, <1>5, <1>6, <1>7, QuietKeeps

\* A callback that ends its request without an answer.
LEMMA EndsKeeps ==
  ASSUME IInv, NEW r \in Requests,
         NEW kinds, NEW stage, NEW results,
         Calls(r, kinds, stage, results), stage # "done",
         Drops(r) \/ IsSilent(r)
  PROVE  IInv' /\ OwnersAct
  <1>1. request[r].stage # "done"
    BY DEF Calls
  <1> DEFINE ended == EndedOf(r)
  <1>2. /\ ended \in RequestRecords /\ InputFits(ended) /\ IdsFit(ended, ship, fleet)
        /\ ended.stage = "done" /\ ended.kind = request[r].kind
    BY <1>1, EndedRecord
  <1>3. request' = [request EXCEPT ![r] = ended]
    BY DEF Drops, IsSilent, Ends, EndedOf
  <1>4. AnswerFits(ended, replies[r], effect[r])
    BY <1>1, <1>2, UnderWay DEF AnswerFits, Outcomes
  <1>5. /\ UNCHANGED <<online, asked, tables, effect, replies>>
        /\ crashed' \in BOOLEAN /\ silent' \in {silent, silent \cup {r}}
    BY DEF Calls, Drops, IsSilent, IInv
  <1> HIDE DEF ended
  <1> QED BY <1>1, <1>2, <1>3, <1>4, <1>5, QuietKeeps

\* A callback that submits the next statement.
LEMMA GoesKeeps ==
  ASSUME IInv, NEW r \in Requests,
         NEW kinds, NEW stage, NEW results, NEW next \in Stages \ {"done"},
         Calls(r, kinds, stage, results), stage \notin WriteStages \cup {"done"},
         "refused" \notin results, Goes(r, next),
         next # "fleet", next = "members" => request[r].ids \subseteq DOMAIN fleet
  PROVE  IInv' /\ OwnersAct
  <1> DEFINE new == [request[r] EXCEPT !.stage = next, !.result = "pending"]
  <1>1. request[r].stage # "done" /\ request[r].result # "refused"
    BY DEF Calls
  <1>2. request' = [request EXCEPT ![r] = new]
    BY DEF Goes
  <1>3. request[r] \in RequestRecords
    BY <1>1, UnderWay
  <1>4. new \in RequestRecords
    BY <1>3 DEF RequestRecords, Results
  <1>5. /\ new.stage = next /\ new.result = "pending" /\ new.kind = request[r].kind
        /\ new.client = request[r].client /\ new.name = request[r].name
        /\ new.ids = request[r].ids
    BY <1>3 DEF RequestRecords
  <1> HIDE DEF new
  <1>6. InputFits(new) /\ IdsFit(new, ship, fleet)
    BY <1>1, <1>5, UnderWay DEF InputFits, IdsFit
  <1>7. replies[r] = <<>> /\ effect[r] = "none"
    BY <1>1, UnderWay DEF AnswerFits, Calls
  <1>8. AnswerFits(new, replies[r], effect[r])
    BY <1>5, <1>7 DEF AnswerFits, WriteStages
  <1>9. /\ UNCHANGED <<online, asked, tables, effect, replies, silent, crashed>>
        /\ crashed' \in BOOLEAN
    BY DEF Calls, Goes, IInv
  <1> QED BY <1>1, <1>2, <1>4, <1>6, <1>8, <1>9, QuietKeeps

\* A callback that crashes the server.
LEMMA CrashKeeps ==
  ASSUME IInv, crashed' = TRUE,
         UNCHANGED <<online, tables, request, asked, replies, effect, silent>>
  PROVE  IInv' /\ OwnersAct
  BY TablesUnchanged DEF IInv, RequestsFit, tables

-----------------------------------------------------------------------------
(* Statements that read *)

\* A request whose statement is run has no answer and no effect yet.
LEMMA Running ==
  ASSUME IInv, NEW r \in Requests, NEW kinds, NEW stage, Runs(r, kinds, stage),
         stage # "done"
  PROVE  /\ request[r].stage = stage /\ request[r].kind \in kinds
         /\ request[r].result = "pending"
         /\ request[r] \in RequestRecords
         /\ Owner(r) \in Accounts
         /\ InputFits(request[r]) /\ IdsFit(request[r], ship, fleet)
         /\ replies[r] = <<>> /\ effect[r] = "none"
         /\ UNCHANGED <<online, asked, silent, crashed>> /\ crashed' \in BOOLEAN
  <1>1. /\ request[r].stage = stage /\ request[r].kind \in kinds
        /\ request[r].result = "pending"
        /\ UNCHANGED <<online, asked, silent, crashed>> /\ crashed' \in BOOLEAN
    BY DEF Runs, IInv
  <1>2. /\ request[r] \in RequestRecords /\ request[r].client \in Clients
        /\ InputFits(request[r]) /\ IdsFit(request[r], ship, fleet)
        /\ AnswerFits(request[r], replies[r], effect[r])
    BY <1>1, UnderWay
  <1>3. Owner(r) \in Accounts
    BY <1>2, ClientsAssumption DEF Owner
  <1> QED BY <1>1, <1>2, <1>3 DEF AnswerFits

\* A statement's result, with the ids it found or without.
LEMMA ResultKeeps ==
  ASSUME IInv, NEW r \in Requests, NEW kinds, NEW stage, Runs(r, kinds, stage),
         stage # "done", NEW result \in {"failed", "empty", "row", "missing"},
         stage \in WriteStages => result = "failed",
         Result(r, result), UNCHANGED <<tables, replies, effect>>
  PROVE  IInv' /\ OwnersAct
  <1> DEFINE new == [request[r] EXCEPT !.result = result]
  <1>1. request' = [request EXCEPT ![r] = new]
    BY DEF Result
  <1>2. new \in RequestRecords
    BY Running DEF RequestRecords, Results
  <1>3. /\ new.stage = request[r].stage /\ new.result = result
        /\ new.kind = request[r].kind /\ new.client = request[r].client
        /\ new.name = request[r].name /\ new.ids = request[r].ids
    BY Running DEF RequestRecords
  <1> HIDE DEF new
  <1>4. InputFits(new) /\ IdsFit(new, ship, fleet)
    BY <1>3, Running DEF InputFits, IdsFit
  <1>5. AnswerFits(new, replies[r], effect[r])
    BY <1>3, Running DEF AnswerFits
  <1>6. /\ request[r].stage # "done" /\ replies' = replies
        /\ UNCHANGED <<online, asked, tables, effect, silent, crashed>>
        /\ crashed' \in BOOLEAN
    BY Running
  <1> QED BY <1>1, <1>2, <1>4, <1>5, <1>6, QuietKeeps

LEMMA ResultIdsKeeps ==
  ASSUME IInv, NEW r \in Requests, NEW kinds, NEW stage, Runs(r, kinds, stage),
         stage \notin WriteStages \cup {"done"},
         NEW found, ResultIds(r, found), UNCHANGED <<tables, replies, effect>>,
         found \subseteq DOMAIN ship \cup DOMAIN fleet,
         request[r].kind \in {"updateShip", "createFleet", "updateFleet"} =>
           \A i \in found : i \in DOMAIN ship /\ ship[i].owner = Owner(r),
         stage = "fleet" => found \subseteq DOMAIN fleet
  PROVE  IInv' /\ OwnersAct
  <1> DEFINE result == IF found = {} THEN "empty" ELSE "row"
             new == [request[r] EXCEPT !.ids = found, !.result = result]
  <1>1. request' = [request EXCEPT ![r] = new]
    BY DEF ResultIds
  <1>2. found \subseteq Nat
    BY RowsOfTables DEF IInv
  <1>3. result \in {"empty", "row"}
    OBVIOUS
  <1> HIDE DEF result
  <1>4. new \in RequestRecords
    <2>1. request[r] \in RequestRecords /\ result \in Results /\ found \in SUBSET Nat
      BY <1>2, <1>3, Running DEF Results
    <2> QED BY <2>1 DEF RequestRecords
  <1>5. /\ new.stage = request[r].stage /\ new.result = result
        /\ new.kind = request[r].kind /\ new.client = request[r].client
        /\ new.name = request[r].name /\ new.ids = found
    BY Running DEF RequestRecords
  <1> HIDE DEF new
  <1>6. InputFits(new) /\ IdsFit(new, ship, fleet)
    BY <1>3, <1>5, Running DEF InputFits, IdsFit, Owner
  <1>7. AnswerFits(new, replies[r], effect[r])
    BY <1>3, <1>5, Running DEF AnswerFits
  <1>8. /\ request[r].stage # "done" /\ replies' = replies
        /\ UNCHANGED <<online, asked, tables, effect, silent, crashed>>
        /\ crashed' \in BOOLEAN
    BY Running
  <1> QED BY <1>1, <1>4, <1>6, <1>7, <1>8, QuietKeeps

LEMMA ReadsKeeps ==
  ASSUME IInv, NEW r \in Requests, NEW kinds, NEW stage, Runs(r, kinds, stage),
         stage \notin WriteStages \cup {"done"}, NEW found, Reads(r, found),
         found \subseteq DOMAIN ship \cup DOMAIN fleet,
         request[r].kind \in {"updateShip", "createFleet", "updateFleet"} =>
           \A i \in found : i \in DOMAIN ship /\ ship[i].owner = Owner(r),
         stage = "fleet" => found \subseteq DOMAIN fleet
  PROVE  IInv' /\ OwnersAct
  <1>1. CASE Result(r, "failed")
    BY <1>1, ResultKeeps DEF Reads
  <1>2. CASE ResultIds(r, found)
    BY <1>2, ResultIdsKeeps DEF Reads
  <1> QED BY <1>1, <1>2 DEF Reads

LEMMA FindKeeps ==
  ASSUME IInv, NEW r \in Requests, Find(r) \/ FindNames(r)
  PROVE  IInv' /\ OwnersAct
  <1>1. CASE Find(r)
    BY <1>1, IdsOfOwner, ReadsKeeps DEF Find, WriteStages
  <1>2. CASE FindNames(r)
    <2> DEFINE ids == IdsOf(ship, Owner(r), request[r].names)
               found == IF Cardinality(ids) = Cardinality(request[r].names)
                          THEN ids ELSE {}
    <2>1. Runs(r, {"createFleet", "updateFleet"}, "names") /\ Reads(r, found)
      BY <1>2 DEF FindNames
    <2>2. found \subseteq ids
      OBVIOUS
    <2> HIDE DEF found
    <2> QED BY <2>1, <2>2, IdsOfOwner, ReadsKeeps DEF WriteStages
  <1> QED BY <1>1, <1>2

LEMMA FindFleetKeeps ==
  ASSUME IInv, NEW r \in Requests, FindFleet(r) \/ FindMembers(r)
  PROVE  IInv' /\ OwnersAct
  <1>1. CASE FindFleet(r)
    <2>1. Runs(r, {"fleetInfo"}, "fleet")
      BY <1>1 DEF FindFleet
    <2>2. request[r].kind = "fleetInfo"
      BY <2>1 DEF Runs
    <2> QED BY <1>1, <2>1, <2>2, IdsOfOwner, ReadsKeeps DEF FindFleet, WriteStages
  <1>2. CASE FindMembers(r)
    <2> DEFINE found == UNION {fleet[f].ships : f \in request[r].ids}
    <2>1. Runs(r, {"fleetInfo"}, "members") /\ Reads(r, found)
      BY <1>2 DEF FindMembers
    <2>2. request[r].kind = "fleetInfo" /\ request[r].ids \subseteq DOMAIN fleet
      BY <2>1, Running DEF IdsFit
    <2>3. found \subseteq DOMAIN ship
      BY <2>2, RowsOfTables DEF IInv
    <2> HIDE DEF found
    <2> QED BY <2>1, <2>2, <2>3, ReadsKeeps DEF WriteStages
  <1> QED BY <1>1, <1>2

LEMMA ListKeeps ==
  ASSUME IInv, NEW r \in Requests, Modules(r) \/ List(r) \/ FindShips(r)
  PROVE  IInv' /\ OwnersAct
  <1>1. CASE Modules(r)
    BY <1>1, ResultKeeps DEF Modules, WriteStages
  <1>2. CASE FindShips(r)
    BY <1>2, ResultKeeps DEF FindShips, WriteStages
  <1>3. ASSUME NEW found, NEW kinds, Runs(r, kinds, "list"), Lists(r, found)
        PROVE  IInv' /\ OwnersAct
    BY <1>3, ResultKeeps DEF Lists, WriteStages
  <1> QED BY <1>1, <1>2, <1>3 DEF List

-----------------------------------------------------------------------------
(* Statements that write *)

\* Whatever becomes of a statement that writes, it changes rows of its owner or
\* none, and its result tells its effect but for a commit that was cut.
LEMMA WritesKeeps ==
  ASSUME IInv, NEW r \in Requests, NEW kinds, NEW stage, Runs(r, kinds, stage),
         stage \in WriteStages,
         NEW allowed, NEW ships, NEW fleets, NEW done \in {"done", "nothing", "late"},
         Writes(r, allowed, ships, fleets, done),
         allowed => OwnChanges(r, ships, fleets)
  PROVE  IInv' /\ OwnersAct
  <1>1. /\ request[r].stage = stage /\ stage \notin {"done", "count", "fleet", "members"}
        /\ request[r] \in RequestRecords
        /\ InputFits(request[r]) /\ IdsFit(request[r], ship, fleet)
        /\ replies[r] = <<>> /\ effect[r] = "none" /\ replies' = replies
        /\ UNCHANGED <<online, asked, silent, crashed>> /\ crashed' \in BOOLEAN
    BY Running DEF WriteStages, Writes
  <1>2. CASE Result(r, "failed") /\ UNCHANGED <<tables, effect>>
    <2>1. UNCHANGED <<tables, replies, effect>>
      BY <1>1, <1>2
    <2> QED BY <1>1, <1>2, <2>1, ResultKeeps
  <1>3. ASSUME NEW result \in {"row", "empty", "uncommitted"}, NEW told \in Effects,
               Result(r, result), effect' = [effect EXCEPT ![r] = told],
               OwnChanges(r, ship', fleet'), told # "none",
               result = "row" => told \in {"done", "late"},
               result # "row" => told # "done"
        PROVE  IInv' /\ OwnersAct
    <2> DEFINE new == [request[r] EXCEPT !.result = result]
    <2>1. request' = [request EXCEPT ![r] = new]
      BY <1>3 DEF Result
    <2>2. new \in RequestRecords
      BY <1>1 DEF RequestRecords, Results
    <2>3. /\ new.stage = request[r].stage /\ new.result = result
          /\ new.kind = request[r].kind /\ new.client = request[r].client
          /\ new.name = request[r].name /\ new.ids = request[r].ids
      BY <1>1 DEF RequestRecords
    <2> HIDE DEF new
    <2>4. TablesFit(ship', fleet') /\ Grow(ship', fleet')
      BY <1>3 DEF OwnChanges
    <2>5. InputFits(new) /\ IdsFit(new, ship', fleet')
      <3>1. IdsFit(new, ship, fleet)
        BY <1>1, <2>3 DEF IdsFit
      <3> QED BY <1>1, <2>3, <2>4, <3>1, IdsStillFit DEF InputFits
    <2>6. /\ effect' \in [Requests -> Effects] /\ effect'[r] = told
          /\ replies' \in [Requests -> Seq(Outcomes)]
          /\ \A q \in Requests \ {r} : replies'[q] = replies[q] /\ effect'[q] = effect[q]
      BY <1>1, <1>3 DEF IInv
    <2>7. AnswerFits(new, replies'[r], effect'[r])
      BY <1>1, <1>3, <2>3, <2>6 DEF AnswerFits
    <2>8. IInv'
      BY <1>1, <2>1, <2>2, <2>4, <2>5, <2>6, <2>7, StepKeeps
    <2>9. Acts(Owner(r))
      BY <1>1, <1>3, <2>6 DEF Acts
    <2> QED BY <1>3, <2>8, <2>9 DEF OwnersAct, OwnChanges
  <1>4. OwnChanges(r, ship, fleet)
    BY DEF OwnChanges, Grow, IInv
  <1>5. CASE /\ allowed
             /\ ship' = ships /\ fleet' = fleets
             /\ effect' = [effect EXCEPT ![r] = done]
             /\ Result(r, IF done = "nothing" THEN "empty" ELSE "row")
    BY <1>3, <1>5 DEF Effects
  <1>6. CASE /\ allowed
             /\ UNCHANGED tables \/ (ship' = ships /\ fleet' = fleets)
             /\ effect' = [effect EXCEPT ![r] = "cut"]
             /\ Result(r, "uncommitted")
    <2>1. OwnChanges(r, ship', fleet')
      BY <1>4, <1>6 DEF tables
    <2> QED BY <1>3, <1>6, <2>1 DEF Effects
  <1> QED BY <1>2, <1>5, <1>6 DEF Writes

\* Adding a row.
LEMMA InsertKeeps ==
  ASSUME IInv, NEW r \in Requests, NEW kinds, NEW stage \in {"insert", "default"},
         NEW name \in Names, Insert(r, kinds, stage, name)
  PROVE  IInv' /\ OwnersAct
  <1> DEFINE row == Row(Owner(r), name, {})
             ships == Append(ship, row)
  <1>1. Runs(r, kinds, stage)
    BY DEF Insert
  <1>2. row \in ShipRows
    BY <1>1, Running DEF Row, ShipRows
  <1>3. TablesFit(ship, fleet)
    BY DEF IInv
  <1> HIDE DEF row
  <1>4. /\ ships \in Seq({Gone} \cup ShipRows)
        /\ DOMAIN ship \subseteq DOMAIN ships
        /\ \A i \in DOMAIN ship : ships[i] = ship[i]
    BY <1>2, <1>3, AppendToSeq DEF TablesFit
  <1> HIDE DEF ships
  <1>5. TablesFit(ships, fleet)
    <2>1. FleetRows(DOMAIN ship) \subseteq FleetRows(DOMAIN ships)
      BY <1>4 DEF FleetRows
    <2>2. fleet \in Seq({Gone} \cup FleetRows(DOMAIN ships))
      BY <1>3, <2>1 DEF TablesFit
    <2> QED BY <1>3, <1>4, <2>2, RowsOfTables DEF TablesFit
  <1>6. OwnChanges(r, ships, fleet)
    BY <1>4, <1>5 DEF OwnChanges, Grow
  <1>7. \E allowed : Writes(r, allowed, ships, fleet, "done")
    BY DEF Insert, ships, row
  <1> QED BY <1>1, <1>6, <1>7, WritesKeeps DEF WriteStages

LEMMA InsertFleetKeeps ==
  ASSUME IInv, NEW r \in Requests, InsertFleet(r)
  PROVE  IInv' /\ OwnersAct
  <1> DEFINE row == Row(Owner(r), request[r].name, request[r].ids)
             fleets == Append(fleet, row)
  <1>1. Runs(r, {"createFleet"}, "insert")
    BY DEF InsertFleet
  <1>2. /\ Owner(r) \in Accounts /\ request[r].name \in Names
        /\ \A i \in request[r].ids :
             i \in DOMAIN ship /\ ship[i].owner \in {Owner(r), "nobody"}
    BY <1>1, Running DEF InputFits, IdsFit, Owner
  <1>3. TablesFit(ship, fleet)
    BY DEF IInv
  <1>4. ASSUME ShipsExist(r)
        PROVE  OwnChanges(r, ship, fleets)
    <2>1. \A i \in request[r].ids : ship[i].owner = Owner(r)
      BY <1>2, <1>3, <1>4, RowsOfTables DEF ShipsExist
    <2>2. row \in FleetRows(DOMAIN ship) /\ row.owner = Owner(r) /\ row.ships = request[r].ids
      BY <1>2 DEF Row, FleetRows
    <2> HIDE DEF row
    <2>3. /\ fleets \in Seq({Gone} \cup FleetRows(DOMAIN ship))
          /\ DOMAIN fleet \subseteq DOMAIN fleets
          /\ \A f \in DOMAIN fleet : fleets[f] = fleet[f]
          /\ \A f \in DOMAIN fleets : f \in DOMAIN fleet \/ fleets[f] = row
      BY <1>3, <2>2, AppendToSeq DEF TablesFit
    <2> HIDE DEF fleets
    <2>4. TablesFit(ship, fleets)
      BY <1>3, <2>1, <2>2, <2>3 DEF TablesFit
    <2> QED BY <2>3, <2>4 DEF OwnChanges, Grow
  <1>5. Writes(r, ShipsExist(r) /\ IdsOf(fleet, Owner(r), {request[r].name}) = {},
               ship, fleets, "done")
    BY DEF InsertFleet
  <1> QED BY <1>1, <1>4, <1>5, WritesKeeps DEF WriteStages

\* Removing ships takes them out of the fleets, which are their owner's.
LEMMA RemoveShipKeeps ==
  ASSUME IInv, NEW r \in Requests, RemoveShip(r)
  PROVE  IInv' /\ OwnersAct
  <1> DEFINE gone == IdsOf(ship, Owner(r), {request[r].name})
             ships == [i \in DOMAIN ship |-> IF i \in gone THEN Gone ELSE ship[i]]
             fleets == [f \in DOMAIN fleet |-> [fleet[f] EXCEPT !.ships = @ \ gone]]
             done == IF gone = {} THEN "nothing" ELSE "done"
  <1>1. Runs(r, {"deleteShip"}, "remove") /\ Writes(r, TRUE, ships, fleets, done)
    BY DEF RemoveShip
  <1>2. done \in {"done", "nothing", "late"}
    OBVIOUS
  <1>3. gone \subseteq DOMAIN ship /\ \A i \in gone : ship[i].owner = Owner(r)
    BY IdsOfOwner
  <1> HIDE DEF gone
  <1>4. TablesFit(ship, fleet) /\ Owner(r) \in Accounts /\ Gone.owner = "nobody"
    BY <1>1, Running DEF IInv, Gone
  <1>5. ships \in Seq({Gone} \cup ShipRows) /\ DOMAIN ships = DOMAIN ship
    <2>1. ships \in [DOMAIN ship -> {Gone} \cup ShipRows]
      BY <1>4, RowsOfTables
    <2> QED BY <1>4, <2>1, MapsToSeq DEF TablesFit
  <1>6. \A f \in DOMAIN fleet :
          /\ fleets[f] \in {Gone} \cup FleetRows(DOMAIN ship)
          /\ fleets[f].owner = fleet[f].owner /\ fleets[f].ships = fleet[f].ships \ gone
    <2> SUFFICES ASSUME NEW f \in DOMAIN fleet
                 PROVE  /\ fleets[f] \in {Gone} \cup FleetRows(DOMAIN ship)
                        /\ fleets[f].owner = fleet[f].owner
                        /\ fleets[f].ships = fleet[f].ships \ gone
      OBVIOUS
    <2>1. fleets[f] = [fleet[f] EXCEPT !.ships = fleet[f].ships \ gone]
      OBVIOUS
    <2>2. CASE fleet[f] = Gone
      BY <2>1, <2>2 DEF Gone
    <2>3. CASE fleet[f] \in FleetRows(DOMAIN ship)
      BY <2>1, <2>3 DEF FleetRows
    <2> QED BY <1>4, <2>2, <2>3, RowsOfTables
  <1>7. fleets \in Seq({Gone} \cup FleetRows(DOMAIN ships)) /\ DOMAIN fleets = DOMAIN fleet
    <2>1. fleets \in [DOMAIN fleet -> {Gone} \cup FleetRows(DOMAIN ship)]
      BY <1>6
    <2> HIDE DEF fleets, ships
    <2> QED BY <1>4, <1>5, <2>1, MapsToSeq DEF TablesFit
  <1>8. TablesFit(ships, fleets)
    <2>1. \A i \in DOMAIN ship : i \notin gone => ships[i] = ship[i]
      OBVIOUS
    <2>2. ASSUME NEW f \in DOMAIN fleet, NEW i \in fleets[f].ships
          PROVE  ships[i].owner = fleets[f].owner
      <3> HIDE DEF ships, fleets
      <3>1. i \in fleet[f].ships /\ i \notin gone /\ i \in DOMAIN ship
        BY <1>4, <1>6, <2>2, RowsOfTables
      <3>2. ship[i].owner = fleet[f].owner
        BY <1>4, <3>1 DEF TablesFit
      <3> QED BY <1>6, <2>1, <3>1, <3>2
    <2> HIDE DEF ships, fleets
    <2> QED BY <1>5, <1>7, <2>2 DEF TablesFit
  <1>9. OwnChanges(r, ships, fleets)
    <2>1. Grow(ships, fleets)
      BY <1>4, <1>5, <1>7 DEF Grow
    <2>2. \A i \in DOMAIN ship : ships[i] # ship[i] => ship[i].owner = Owner(r)
      BY <1>3
    <2>3. ASSUME NEW f \in DOMAIN fleet, fleets[f] # fleet[f]
          PROVE  fleet[f].owner = Owner(r)
      <3>1. PICK i \in gone : i \in fleet[f].ships
        <4>1. SUFFICES ASSUME fleet[f].ships \cap gone = {} PROVE FALSE
          OBVIOUS
        <4>2. fleet[f].ships \ gone = fleet[f].ships
          BY <4>1
        <4>3. fleets[f] = [fleet[f] EXCEPT !.ships = fleet[f].ships]
          BY <4>2
        <4>4. fleets[f] = fleet[f]
          BY <1>4, <4>3, RowsOfTables DEF Gone, FleetRows
        <4> QED BY <2>3, <4>4
      <3> QED BY <1>3, <1>4, <3>1 DEF TablesFit
    <2> QED BY <1>8, <2>1, <2>2, <2>3 DEF OwnChanges
  <1> HIDE DEF ships, fleets, done
  <1> QED BY <1>1, <1>2, <1>9, WritesKeeps DEF WriteStages

\* An update names its ship by an id that was read one request earlier: the row
\* is of the owner still, or gone.
LEMMA UpdateKeeps ==
  ASSUME IInv, NEW r \in Requests, Update(r)
  PROVE  IInv' /\ OwnersAct
  <1> DEFINE found == {i \in request[r].ids : ship[i] # Gone}
             name == request[r].change
             ships == [i \in DOMAIN ship |-> IF i \in found /\ name \in Names
                         THEN [ship[i] EXCEPT !.name = name] ELSE ship[i]]
             done == IF found = {} THEN "late" ELSE "done"
  <1>1. /\ Runs(r, {"updateShip"}, "update")
        /\ \E allowed : Writes(r, allowed, ships, fleet, done)
    BY DEF Update
  <1>2. done \in {"done", "nothing", "late"}
    OBVIOUS
  <1>3. TablesFit(ship, fleet)
    BY DEF IInv
  <1>4. found \subseteq DOMAIN ship /\ \A i \in found : ship[i].owner = Owner(r)
    <2>1. \A i \in request[r].ids :
            i \in DOMAIN ship /\ ship[i].owner \in {Owner(r), "nobody"}
      BY <1>1, Running DEF IdsFit, Owner
    <2> QED BY <1>3, <2>1, RowsOfTables
  <1> HIDE DEF found
  <1>5. \A i \in DOMAIN ship :
          ships[i] \in {Gone} \cup ShipRows /\ ships[i].owner = ship[i].owner
    <2> SUFFICES ASSUME NEW i \in DOMAIN ship
                 PROVE  ships[i] \in {Gone} \cup ShipRows /\ ships[i].owner = ship[i].owner
      OBVIOUS
    <2>1. CASE i \in found /\ name \in Names
      <3>1. ship[i] \in ShipRows
        BY <1>1, <1>3, <1>4, <2>1, RowsOfTables, Running, OwnersAssumption
      <3>2. ships[i] = [ship[i] EXCEPT !.name = name]
        BY <2>1
      <3> QED BY <2>1, <3>1, <3>2 DEF ShipRows
    <2> QED BY <1>3, <2>1, RowsOfTables
  <1>6. ships \in Seq({Gone} \cup ShipRows) /\ DOMAIN ships = DOMAIN ship
    <2>1. ships \in [DOMAIN ship -> {Gone} \cup ShipRows]
      BY <1>5
    <2> HIDE DEF ships
    <2> QED BY <1>3, <2>1, MapsToSeq DEF TablesFit
  <1>7. TablesFit(ships, fleet)
    <2> HIDE DEF ships
    <2> QED BY <1>3, <1>5, <1>6, RowsOfTables DEF TablesFit
  <1>8. OwnChanges(r, ships, fleet)
    BY <1>4, <1>5, <1>6, <1>7 DEF OwnChanges, Grow
  <1> HIDE DEF ships, done
  <1> QED BY <1>1, <1>2, <1>8, WritesKeeps DEF WriteStages

LEMMA ReplaceFleetKeeps ==
  ASSUME IInv, NEW r \in Requests, ReplaceFleet(r)
  PROVE  IInv' /\ OwnersAct
  <1> DEFINE found == IdsOf(fleet, Owner(r), {request[r].name})
             name == IF request[r].change \in Names THEN request[r].change
                                                     ELSE request[r].name
             taken == IdsOf(fleet, Owner(r), {name}) \ found # {}
             row == Row(Owner(r), name, request[r].ids)
             fleets == [f \in DOMAIN fleet |-> IF f \in found THEN row ELSE fleet[f]]
  <1>1. /\ Runs(r, {"updateFleet"}, "insert")
        /\ Writes(r, found # {} /\ ~taken /\ ShipsExist(r), ship, fleets, "done")
    BY DEF ReplaceFleet
  <1>2. /\ Owner(r) \in Accounts /\ name \in Names
        /\ \A i \in request[r].ids :
             i \in DOMAIN ship /\ ship[i].owner \in {Owner(r), "nobody"}
    BY <1>1, Running DEF InputFits, IdsFit, Owner
  <1>3. TablesFit(ship, fleet)
    BY DEF IInv
  <1>4. \A f \in found : fleet[f].owner = Owner(r)
    BY IdsOfOwner
  <1> HIDE DEF found, name
  <1>5. ASSUME ShipsExist(r)
        PROVE  OwnChanges(r, ship, fleets)
    <2>1. \A i \in request[r].ids : ship[i].owner = Owner(r)
      BY <1>2, <1>3, <1>5, RowsOfTables DEF ShipsExist
    <2>2. row \in FleetRows(DOMAIN ship) /\ row.owner = Owner(r) /\ row.ships = request[r].ids
      BY <1>2 DEF Row, FleetRows
    <2> HIDE DEF row
    <2>3. fleets \in [DOMAIN fleet -> {Gone} \cup FleetRows(DOMAIN ship)]
      BY <1>3, <2>2, RowsOfTables
    <2>4. /\ fleets \in Seq({Gone} \cup FleetRows(DOMAIN ship))
          /\ DOMAIN fleets = DOMAIN fleet
      <3> HIDE DEF fleets
      <3> QED BY <1>3, <2>3, MapsToSeq DEF TablesFit
    <2>5. TablesFit(ship, fleets)
      BY <1>3, <2>1, <2>2, <2>4 DEF TablesFit
    <2> QED BY <1>4, <2>4, <2>5 DEF OwnChanges, Grow
  <1> HIDE DEF taken, row, fleets
  <1> QED BY <1>1, <1>5, WritesKeeps DEF WriteStages

LEMMA RemoveFleetKeeps ==
  ASSUME IInv, NEW r \in Requests, RemoveFleet(r)
  PROVE  IInv' /\ OwnersAct
  <1> DEFINE gone == IdsOf(fleet, Owner(r), {request[r].name})
             fleets == [f \in DOMAIN fleet |-> IF f \in gone THEN Gone ELSE fleet[f]]
             done == IF gone = {} THEN "nothing" ELSE "done"
  <1>1. Runs(r, {"deleteFleet"}, "remove") /\ Writes(r, TRUE, ship, fleets, done)
    BY DEF RemoveFleet
  <1>2. done \in {"done", "nothing", "late"}
    OBVIOUS
  <1>3. TablesFit(ship, fleet) /\ \A f \in gone : fleet[f].owner = Owner(r)
    BY IdsOfOwner DEF IInv
  <1> HIDE DEF gone
  <1>4. fleets \in [DOMAIN fleet -> {Gone} \cup FleetRows(DOMAIN ship)]
    BY <1>3, RowsOfTables
  <1>5. /\ fleets \in Seq({Gone} \cup FleetRows(DOMAIN ship))
        /\ DOMAIN fleets = DOMAIN fleet
    <2> HIDE DEF fleets
    <2> QED BY <1>3, <1>4, MapsToSeq DEF TablesFit
  <1>6. TablesFit(ship, fleets)
    BY <1>3, <1>5 DEF TablesFit, Gone
  <1>7. OwnChanges(r, ship, fleets)
    BY <1>3, <1>5, <1>6 DEF OwnChanges, Grow
  <1> HIDE DEF fleets, done
  <1> QED BY <1>1, <1>2, <1>7, WritesKeeps DEF WriteStages

\* The operator of the count answers the refusal itself.
LEMMA CountOthersKeeps ==
  ASSUME IInv, NEW r \in Requests, CountOthers(r)
  PROVE  IInv' /\ OwnersAct
  <1>1. /\ Runs(r, {"deleteShip"}, "count")
        /\ UNCHANGED <<tables, effect>>
    BY DEF CountOthers
  <1>2. /\ request[r].stage = "count" /\ request[r].kind = "deleteShip"
        /\ request[r] \in RequestRecords
        /\ InputFits(request[r]) /\ IdsFit(request[r], ship, fleet)
        /\ replies[r] = <<>> /\ effect[r] = "none" /\ request[r].result = "pending"
        /\ UNCHANGED <<online, asked, tables, effect, silent, crashed>> /\ crashed' \in BOOLEAN
    BY <1>1, Running
  <1>3. CASE Result(r, "failed") /\ UNCHANGED replies
    BY <1>1, <1>3, ResultKeeps DEF WriteStages
  <1>4. CASE request' = [request EXCEPT ![r].stage = "remove"] /\ UNCHANGED replies
    <2> DEFINE new == [request[r] EXCEPT !.stage = "remove"]
    <2>1. request' = [request EXCEPT ![r] = new]
      BY <1>4
    <2>2. new \in RequestRecords
      BY <1>2 DEF RequestRecords, Stages
    <2>3. /\ new.stage = "remove" /\ new.result = request[r].result
          /\ new.kind = request[r].kind /\ new.client = request[r].client
          /\ new.name = request[r].name /\ new.ids = request[r].ids
      BY <1>2 DEF RequestRecords
    <2> HIDE DEF new
    <2>4. InputFits(new) /\ IdsFit(new, ship, fleet) /\ AnswerFits(new, replies[r], effect[r])
      BY <1>2, <2>3 DEF InputFits, IdsFit, AnswerFits
    <2> QED BY <1>2, <1>4, <2>1, <2>2, <2>4, QuietKeeps
  <1>5. CASE /\ Result(r, "refused")
             /\ \/ replies' = replies
                \/ replies' = [replies EXCEPT ![r] = Append(@, "refused")]
    <2> DEFINE new == [request[r] EXCEPT !.result = "refused"]
    <2>1. request' = [request EXCEPT ![r] = new]
      BY <1>5 DEF Result
    <2>2. new \in RequestRecords
      BY <1>2 DEF RequestRecords, Results
    <2>3. /\ new.stage = request[r].stage /\ new.result = "refused"
          /\ new.kind = request[r].kind /\ new.client = request[r].client
          /\ new.name = request[r].name /\ new.ids = request[r].ids
      BY <1>2 DEF RequestRecords
    <2> HIDE DEF new
    <2>4. InputFits(new) /\ IdsFit(new, ship, fleet)
      BY <1>2, <2>3 DEF InputFits, IdsFit
    <2>5. /\ AnswerFits(new, <<>>, effect[r]) /\ "refused" \in Outcomes
          /\ AnswerFits(new, <<"refused">>, effect[r])
      BY <1>2, <2>3 DEF AnswerFits, WriteStages, Outcomes
    <2> QED BY <1>2, <1>5, <2>1, <2>2, <2>4, <2>5, QuietKeeps
  <1> QED BY <1>3, <1>4, <1>5 DEF CountOthers

LEMMA DatabaseStepKeeps ==
  ASSUME IInv, NEW r \in Requests, DatabaseStep(r)
  PROVE  IInv' /\ OwnersAct
  <1>1. CASE Insert(r, {"createShip"}, "insert", request[r].name)
    <2>1. Runs(r, {"createShip"}, "insert")
      BY <1>1 DEF Insert
    <2>2. request[r].name \in Names
      BY <2>1, Running DEF InputFits
    <2> QED BY <1>1, <2>2, InsertKeeps
  <1>2. CASE Insert(r, {"shipList"}, "default", Default)
    BY <1>2, NamesAssumption, InsertKeeps
  <1> QED
    BY <1>1, <1>2, CountOthersKeeps, RemoveShipKeeps, FindKeeps, UpdateKeeps, ListKeeps,
       InsertFleetKeeps, ReplaceFleetKeeps, RemoveFleetKeeps, FindFleetKeeps
    DEF DatabaseStep

-----------------------------------------------------------------------------
(* Handlers *)

Inputs ==
  {new \in RequestRecords :
     /\ new.stage # "done" /\ new.ids = {}
     /\ new.kind \notin {"shipList", "fleetList"} => new.name \in Names}

LEMMA AskKeeps ==
  ASSUME IInv, NEW c \in Clients, NEW new \in Inputs, Ask(c, new)
  PROVE  IInv' /\ OwnersAct
  <1> DEFINE asks == [new EXCEPT !.client = c, !.result = "pending"]
  <1>1. /\ asked < MaxRequests /\ asked' = asked + 1 /\ asked' \in Requests
        /\ asked' \in 0..MaxRequests /\ asked \in Nat
    BY BoundAssumption DEF Ask, IInv, Requests
  <1>2. /\ request' = [request EXCEPT ![asked'] = asks]
        /\ UNCHANGED <<online, tables, replies, effect, silent, crashed>>
    BY DEF Ask
  <1>3. asks \in RequestRecords
    BY DEF Inputs, RequestRecords, Results
  <1>4. /\ asks.client = c /\ asks.result = "pending" /\ asks.kind = new.kind
        /\ asks.stage = new.stage /\ asks.name = new.name /\ asks.ids = {}
    BY DEF Inputs, RequestRecords
  <1> HIDE DEF asks
  <1>5. replies[asked'] = <<>> /\ effect[asked'] = "none"
    BY <1>1 DEF IInv, RequestsFit
  <1>6. /\ InputFits(asks) /\ IdsFit(asks, ship, fleet)
        /\ AnswerFits(asks, replies[asked'], effect[asked'])
    BY <1>4, <1>5 DEF Inputs, InputFits, IdsFit, AnswerFits
  <1>7. request' \in [Requests -> RequestRecords]
    BY <1>2, <1>3 DEF IInv
  <1>8. RequestsFit'
    <2> SUFFICES ASSUME NEW q \in Requests
                 PROVE  /\ InputFits(request'[q]) /\ IdsFit(request'[q], ship, fleet)
                        /\ AnswerFits(request'[q], replies[q], effect[q])
                        /\ q > asked' => /\ request'[q].stage = "done"
                                         /\ replies[q] = <<>> /\ effect[q] = "none"
      BY <1>2 DEF RequestsFit, tables
    <2>1. CASE q = asked'
      BY <1>1, <1>2, <1>6, <2>1 DEF IInv
    <2>2. CASE q # asked'
      <3>1. request'[q] = request[q]
        BY <1>2, <2>2 DEF IInv
      <3>2. q \in Nat /\ (q > asked' => q > asked)
        BY <1>1, BoundAssumption DEF Requests
      <3> QED BY <3>1, <3>2 DEF IInv, RequestsFit
    <2> QED BY <2>1, <2>2
  <1>9. silent' \subseteq 1..asked'
    BY <1>1, <1>2 DEF IInv
  <1>10. TablesFit(ship, fleet)' /\ OwnersAct
    BY <1>2, TablesUnchanged
  <1> QED BY <1>1, <1>2, <1>7, <1>8, <1>9, <1>10 DEF IInv, tables

\* What a handler asks for is an input of its kind.
LEMMA AsksRecord ==
  ASSUME NEW kind \in Kinds, NEW stage \in Stages
  PROVE  /\ Asks(kind, stage) \in RequestRecords
         /\ Asks(kind, stage).kind = kind /\ Asks(kind, stage).stage = stage
         /\ Asks(kind, stage).ids = {}
  <1>1. Asks(kind, stage) \in RequestRecords
    BY NoRequestRecord DEF Asks, RequestRecords
  <1> QED BY <1>1 DEF Asks, NoRequest

LEMMA Requested ==
  ASSUME NEW kind \in Kinds, NEW stage \in Stages \ {"done"}, NEW name \in Names,
         NEW change \in Names \cup {"code", "nothing"}, NEW names \in SUBSET Names
  PROVE  /\ [Asks(kind, stage) EXCEPT !.name = name] \in Inputs
         /\ [Asks(kind, stage) EXCEPT !.name = name, !.change = change] \in Inputs
         /\ [Asks(kind, stage) EXCEPT !.name = name, !.names = names] \in Inputs
         /\ [Asks(kind, stage) EXCEPT !.name = name, !.names = names,
                                      !.change = change] \in Inputs
  <1>1. Asks(kind, stage) \in RequestRecords
    BY AsksRecord
  <1>2. /\ Asks(kind, stage).kind = kind /\ Asks(kind, stage).stage = stage
        /\ Asks(kind, stage).ids = {}
    BY AsksRecord
  <1> QED BY <1>1, <1>2 DEF RequestRecords, Inputs

LEMMA HandleKeeps ==
  ASSUME IInv, NEW c \in Clients, Handle(c)
  PROVE  IInv' /\ OwnersAct
  <1> USE DEF Kinds, Stages
  <1>1. Changes \subseteq Names \cup {"code", "nothing"} /\ Crews \subseteq SUBSET Names
    BY InputsAssumption
  <1>2. CASE HandleQuerySpaceshipList(c) \/ HandleQueryFleetList(c)
    BY <1>2, AsksRecord, AskKeeps
    DEF HandleQuerySpaceshipList, HandleQueryFleetList, Inputs
  <1>3. ASSUME NEW name \in Names,
               HandleCreateSpaceship(c, name) \/ HandleDeleteSpaceship(c, name)
        PROVE  IInv' /\ OwnersAct
    BY <1>3, Requested, AskKeeps DEF HandleCreateSpaceship, HandleDeleteSpaceship
  <1>4. ASSUME NEW name \in Names,
               \/ HandleQuerySpaceshipInfo(c, name)
               \/ HandleDeleteFleet(c, name) \/ HandleQueryFleetInfo(c, name)
        PROVE  IInv' /\ OwnersAct
    BY <1>4, Requested, AskKeeps
    DEF HandleQuerySpaceshipInfo, HandleDeleteFleet, HandleQueryFleetInfo
  <1>5. ASSUME NEW name \in Names, NEW change \in Changes,
               HandleUpdateSpaceship(c, name, change)
        PROVE  IInv' /\ OwnersAct
    BY <1>1, <1>5, Requested, AskKeeps DEF HandleUpdateSpaceship
  <1>6. ASSUME NEW name \in Names, NEW names \in Crews, HandleCreateFleet(c, name, names)
        PROVE  IInv' /\ OwnersAct
    BY <1>1, <1>6, Requested, AskKeeps DEF HandleCreateFleet
  <1>7. ASSUME NEW name \in Names, NEW names \in Crews, NEW change \in Changes,
               HandleUpdateFleet(c, name, names, change)
        PROVE  IInv' /\ OwnersAct
    BY <1>1, <1>7, Requested, AskKeeps DEF HandleUpdateFleet
  <1> QED BY <1>2, <1>3, <1>4, <1>5, <1>6, <1>7 DEF Handle

LEMMA LeaveKeeps ==
  ASSUME IInv, NEW c \in Clients, Leave(c)
  PROVE  IInv' /\ OwnersAct
  BY TablesUnchanged DEF Leave, IInv, RequestsFit, tables

-----------------------------------------------------------------------------
(* Callbacks *)

\* What the result of a statement that writes says of its effect.
LEMMA ResultTells ==
  ASSUME IInv, NEW r \in Requests, NEW kinds, NEW stage, NEW results,
         Calls(r, kinds, stage, results), stage # "done"
  PROVE  /\ request[r].kind \in kinds
         /\ stage \in WriteStages /\ results = {"row"} => effect[r] \in {"done", "late"}
         /\ "row" \notin results => effect[r] # "done"
         /\ stage \notin WriteStages => effect[r] # "done"
         /\ stage # "count" => replies[r] = <<>>
  <1>1. /\ request[r].stage = stage /\ request[r].result \in results
        /\ request[r].kind \in kinds
    BY DEF Calls
  <1>2. AnswerFits(request[r], replies[r], effect[r])
    BY <1>1, UnderWay
  <1> QED BY <1>1, <1>2 DEF AnswerFits

LEMMA FinishedKeeps ==
  ASSUME IInv, NEW r \in Requests, NEW kinds, NEW stage \in WriteStages,
         Finished(r, kinds, stage)
  PROVE  IInv' /\ OwnersAct
  <1>1. CASE Calls(r, kinds, stage, {"row"}) /\ Tells(r, "ok")
    BY <1>1, ResultTells, TellsKeeps DEF WriteStages, Outcomes
  <1>2. CASE Calls(r, kinds, stage, Failures) /\ Tells(r, "failed")
    BY <1>2, ResultTells, TellsKeeps DEF WriteStages, Outcomes, Failures
  <1> QED BY <1>1, <1>2 DEF Finished

LEMMA FleetDeletedKeeps ==
  ASSUME IInv, NEW r \in Requests, FleetDeleted(r)
  PROVE  IInv' /\ OwnersAct
  <1>1. CASE Calls(r, {"deleteFleet"}, "remove", {"row"}) /\ Tells(r, "ok")
    BY <1>1, ResultTells, TellsKeeps DEF WriteStages, Outcomes
  <1>2. CASE Calls(r, {"deleteFleet"}, "remove", {"empty"} \cup Failures) /\ Tells(r, "notFound")
    BY <1>2, ResultTells, TellsKeeps DEF WriteStages, Outcomes, Failures
  <1> QED BY <1>1, <1>2 DEF FleetDeleted

LEMMA DeletionFinishedKeeps ==
  ASSUME IInv, NEW r \in Requests, DeletionFinished(r)
  PROVE  IInv' /\ OwnersAct
  <1>1. CASE Calls(r, {"deleteShip"}, "remove", {"row"}) /\ Tells(r, "ok")
    BY <1>1, ResultTells, TellsKeeps DEF WriteStages, Outcomes
  <1>2. CASE Calls(r, {"deleteShip"}, "remove", {"empty"}) /\ Tells(r, "notFound")
    BY <1>2, ResultTells, TellsKeeps DEF WriteStages, Outcomes
  <1>3. CASE Calls(r, {"deleteShip"}, "remove", {"uncommitted"}) /\ Tells(r, "failed")
    BY <1>3, ResultTells, TellsKeeps DEF WriteStages, Outcomes
  <1>4. ASSUME NEW stage \in {"remove", "count"}, NEW results,
               Calls(r, {"deleteShip"}, stage, results), Drops(r) \/ IsSilent(r)
        PROVE  IInv' /\ OwnersAct
    BY <1>4, EndsKeeps
  <1> QED BY <1>1, <1>2, <1>3, <1>4 DEF DeletionFinished

\* A callback of a request that only read so far, and may go on.
LEMMA LookedUpKeeps ==
  ASSUME IInv, NEW r \in Requests, NEW kinds, NEW stage, NEW results,
         Calls(r, kinds, stage, results), stage \notin WriteStages \cup {"done", "count"},
         "refused" \notin results,
         \/ \E outcome \in {"notFound", "failed"} : Tells(r, outcome)
         \/ Tells(r, "ok") /\ kinds \cap Writing = {}
         \/ Drops(r) \/ IsSilent(r)
         \/ \E next \in Stages \ {"done", "fleet", "members"} : Goes(r, next)
  PROVE  IInv' /\ OwnersAct
  <1>1. effect[r] # "done" /\ request[r].kind \in kinds
    BY ResultTells
  <1>2. ASSUME NEW outcome \in {"notFound", "failed"}, Tells(r, outcome)
        PROVE  IInv' /\ OwnersAct
    BY <1>1, <1>2, TellsKeeps DEF Outcomes
  <1>3. CASE Tells(r, "ok") /\ kinds \cap Writing = {}
    BY <1>1, <1>3, TellsKeeps DEF Outcomes
  <1>4. CASE Drops(r) \/ IsSilent(r)
    BY <1>4, EndsKeeps
  <1>5. ASSUME NEW next \in Stages \ {"done", "fleet", "members"}, Goes(r, next)
        PROVE  IInv' /\ OwnersAct
    BY <1>5, GoesKeeps
  <1> QED BY <1>2, <1>3, <1>4, <1>5

LEMMA ShipFoundKeeps ==
  ASSUME IInv, NEW r \in Requests, ShipFound(r)
  PROVE  IInv' /\ OwnersAct
  <1>1. ASSUME NEW result \in {"empty", "failed", "row"},
               Calls(r, {"updateShip"}, "find", {result}),
               \/ \E outcome \in {"notFound", "failed"} : Tells(r, outcome)
               \/ IsSilent(r) \/ Goes(r, "update")
        PROVE  IInv' /\ OwnersAct
    BY <1>1, LookedUpKeeps DEF WriteStages, Stages
  <1> QED BY <1>1 DEF ShipFound

LEMMA ShipInfoFoundKeeps ==
  ASSUME IInv, NEW r \in Requests, ShipInfoFound(r)
  PROVE  IInv' /\ OwnersAct
  <1>1. ASSUME NEW stage \in {"find", "modules"}, NEW results,
               results \in {{"row"}, {"failed"}, {"empty", "failed"}},
               Calls(r, {"shipInfo"}, stage, results),
               \/ Tells(r, "ok") \/ Tells(r, "failed") \/ Drops(r) \/ Goes(r, "modules")
        PROVE  IInv' /\ OwnersAct
    BY <1>1, LookedUpKeeps DEF WriteStages, Stages, Writing
  <1> QED BY <1>1 DEF ShipInfoFound

LEMMA ListedKeeps ==
  ASSUME IInv, NEW r \in Requests, Listed(r)
  PROVE  IInv' /\ OwnersAct
  <1>1. ASSUME NEW kinds \in {{"shipList"}, {"fleetList"}, {"shipList", "fleetList"}},
               NEW result \in {"row", "failed", "empty"},
               Calls(r, kinds, "list", {result}),
               \/ Tells(r, "ok") \/ Tells(r, "failed") \/ Drops(r) \/ Goes(r, "default")
        PROVE  IInv' /\ OwnersAct
    BY <1>1, LookedUpKeeps DEF WriteStages, Stages, Writing
  <1> QED BY <1>1 DEF Listed

LEMMA NamesFoundKeeps ==
  ASSUME IInv, NEW r \in Requests, NamesFound(r)
  PROVE  IInv' /\ OwnersAct
  <1>1. ASSUME NEW results \in {{"empty", "failed"}, {"row"}},
               Calls(r, {"createFleet", "updateFleet"}, "names", results),
               Tells(r, "failed") \/ Drops(r) \/ Goes(r, "insert")
        PROVE  IInv' /\ OwnersAct
    BY <1>1, LookedUpKeeps DEF WriteStages, Stages
  <1> QED BY <1>1 DEF NamesFound

\* The callbacks of a query of a fleet; the ids of the fleet are there for the
\* statement that reads its ships.
LEMMA FleetQueryKeeps ==
  ASSUME IInv, NEW r \in Requests,
         \/ FleetQueried(r, "fleet", "members") \/ FleetQueried(r, "members", "ships")
         \/ FleetLoaded(r)
  PROVE  IInv' /\ OwnersAct
  <1>1. ASSUME NEW stage \in {"fleet", "members", "ships"},
               NEW result \in {"row", "failed", "empty"},
               Calls(r, {"fleetInfo"}, stage, {result}),
               \/ Tells(r, "ok") \/ Tells(r, "failed") \/ Drops(r)
        PROVE  IInv' /\ OwnersAct
    BY <1>1, LookedUpKeeps DEF WriteStages, Writing
  <1>2. ASSUME Calls(r, {"fleetInfo"}, "fleet", {"row"}), Goes(r, "members")
        PROVE  IInv' /\ OwnersAct
    <2>1. request[r].ids \subseteq DOMAIN fleet
      BY <1>2, UnderWay DEF Calls, IdsFit
    <2> QED BY <1>2, <2>1, GoesKeeps DEF WriteStages, Stages
  <1>3. ASSUME Calls(r, {"fleetInfo"}, "members", {"row"}), Goes(r, "ships")
        PROVE  IInv' /\ OwnersAct
    BY <1>3, LookedUpKeeps DEF WriteStages, Stages
  <1>4. ASSUME NEW stage, NEW results, Calls(r, {"fleetInfo"}, stage, results),
               crashed' = TRUE, UNCHANGED <<request, replies, silent>>
        PROVE  IInv' /\ OwnersAct
    BY <1>4, CrashKeeps DEF Calls
  <1> QED BY <1>1, <1>2, <1>3, <1>4 DEF FleetQueried, FleetLoaded, TellsFleet

LEMMA MainStepKeeps ==
  ASSUME IInv, NEW r \in Requests, MainStep(r)
  PROVE  IInv' /\ OwnersAct
  <1>1. ASSUME NEW kinds, NEW stage \in {"insert", "update", "default"}, Finished(r, kinds, stage)
        PROVE  IInv' /\ OwnersAct
    BY <1>1, FinishedKeeps DEF WriteStages
  <1> QED
    BY <1>1, FleetDeletedKeeps, DeletionFinishedKeeps, ShipFoundKeeps, ShipInfoFoundKeeps,
       ListedKeeps, NamesFoundKeeps, FleetQueryKeeps
    DEF MainStep

-----------------------------------------------------------------------------
(* The theorems *)

LEMMA InitInvariant == Init => IInv
  <1> SUFFICES ASSUME Init PROVE IInv
    OBVIOUS
  <1>1. TablesFit(ship, fleet)
    BY FirstTablesAssumption DEF Init, TablesFit
  <1>2. /\ request \in [Requests -> RequestRecords] /\ replies \in [Requests -> Seq(Outcomes)]
        /\ effect \in [Requests -> Effects]
    BY NoRequestRecord DEF Init, Effects
  <1>3. /\ online \subseteq Clients /\ asked \in 0..MaxRequests /\ silent \subseteq 1..asked
        /\ crashed \in BOOLEAN
    <2>1. asked \in 0..MaxRequests
      BY BoundAssumption DEF Init
    <2> QED BY <2>1 DEF Init
  <1>4. \A r \in Requests : request[r] = NoRequest /\ replies[r] = <<>> /\ effect[r] = "none"
    BY DEF Init
  <1>5. NoRequest.stage = "done" /\ NoRequest.ids = {}
    BY DEF NoRequest
  <1>6. RequestsFit
    BY <1>4, <1>5 DEF RequestsFit, InputFits, IdsFit, AnswerFits
  <1> QED BY <1>1, <1>2, <1>3, <1>6 DEF IInv

LEMMA StepInvariant == IInv /\ [Next]_vars => IInv' /\ OwnersAct
  <1> SUFFICES ASSUME IInv, [Next]_vars PROVE IInv' /\ OwnersAct
    OBVIOUS
  <1>1. CASE UNCHANGED vars
    BY <1>1, TablesUnchanged DEF vars, tables, IInv, RequestsFit
  <1> QED BY <1>1, HandleKeeps, LeaveKeeps, DatabaseStepKeeps, MainStepKeeps DEF Next

\* The inductive invariant holds of every behaviour, however requests overlap.
THEOREM Invariant == Spec => []IInv
  <1>1. IInv /\ [Next]_vars => IInv'
    BY StepInvariant
  <1> QED BY <1>1, InitInvariant, PTL DEF Spec

\* Every variable keeps its type (ClientSession, the tables).
THEOREM TypeCorrect == Spec => []TypeOK
  <1>1. IInv => TypeOK
    <2> SUFFICES ASSUME IInv PROVE TypeOK
      OBVIOUS
    <2>1. ASSUME NEW r \in Requests
          PROVE  /\ request[r].kind \in Kinds /\ request[r].stage \in Stages
                 /\ request[r].ids \subseteq DOMAIN ship \cup DOMAIN fleet
                 /\ request[r].stage = "done" => request[r].ids = {}
                 /\ replies[r] \in Seq(Outcomes)
                 /\ effect[r] \in {"none", "done", "nothing", "late", "cut"}
      BY DEF IInv, RequestsFit, RequestRecords, InputFits, IdsFit, Effects
    <2> QED BY <2>1 DEF IInv, TablesFit, TypeOK
  <1> QED BY <1>1, Invariant, PTL

\* A sequence of one outcome at most has one reply at most.
LEMMA FitsOneReply == IInv => RepliesOnce
  <1> SUFFICES ASSUME IInv, NEW r \in Requests PROVE Len(replies[r]) <= 1
    BY DEF RepliesOnce
  <1>1. replies[r] = <<>> \/ \E outcome \in Outcomes : replies[r] = <<outcome>>
    BY DEF IInv, RequestsFit, AnswerFits
  <1>2. CASE replies[r] = <<>>
    BY <1>2
  <1>3. ASSUME NEW outcome \in Outcomes, replies[r] = <<outcome>>
        PROVE  Len(replies[r]) <= 1
    <2>1. Len(<<outcome>>) = 1
      OBVIOUS
    <2> QED BY <1>3, <2>1
  <1> QED BY <1>1, <1>2, <1>3

\* A request is answered once at most, by the pool's thread or by a callback.
THEOREM OneReply == Spec => []RepliesOnce
  BY FitsOneReply, Invariant, PTL

\* A client that hears of a success had its change made; one that hears of a
\* failure had not, unless the connection broke on the commit.
THEOREM HonestReplies == Spec => []AnswersAreTrue
  <1>1. IInv => AnswersAreTrue
    <2>0. IInv => RepliesOnce
      BY FitsOneReply
    <2> SUFFICES ASSUME IInv, NEW r \in Requests, NEW i \in DOMAIN replies[r],
                        request[r].kind \in Writing
                 PROVE  /\ replies[r][i] = "ok" => effect[r] \in {"done", "late"}
                        /\ replies[r][i] # "ok" => effect[r] # "done"
      BY <2>0 DEF AnswersAreTrue
    <2>1. AnswerFits(request[r], replies[r], effect[r])
      BY DEF IInv, RequestsFit
    <2>2. i = 1 /\ replies[r] # <<>>
      BY <2>1 DEF AnswerFits
    <2> QED BY <2>1, <2>2 DEF AnswerFits
  <1> QED BY <1>1, Invariant, PTL

\* A fleet holds ships of its own owner only, whatever happens between the
\* look-up of their names and the insertion of their ids.
THEOREM FleetsOfOneOwner == Spec => []FleetsHoldOwnShips
  <1>1. IInv => FleetsHoldOwnShips
    BY DEF IInv, TablesFit, FleetsHoldOwnShips
  <1> QED BY <1>1, Invariant, PTL

\* A row changes only for a request of its owner, though an update names it by
\* an id read one request earlier.
THEOREM OwnersOnly == Spec => OnlyOwnersChange
  <1>1. IInv /\ [Next]_vars => [OwnersAct]_vars
    BY StepInvariant
  <1>2. Spec => [][OwnersAct]_vars
    BY <1>1, Invariant, PTL DEF Spec
  <1> QED BY <1>2 DEF OnlyOwnersChange, OwnersAct
=============================================================================
