------------------------- MODULE Replication_proofs -------------------------
(***************************************************************************)
(* Theorems of Replication, for any identifiers, numbers of entities, of   *)
(* visits, of snapshots and of packets under way: the types, that what the *)
(* client will show is what the system holds but for the bitsets, that its *)
(* assertions fail in two cases only, and that snapshots never go back.    *)
(*                                                                         *)
(* The inductive invariant says how the client's visits and the player's   *)
(* joins keep in step through the requests under way; that a client that   *)
(* joined cleanly is told of an identifier in turn (InTurn: created when   *)
(* it shows nothing under it, deleted when it shows something); and that   *)
(* the two bitsets account for all that the packets sent do not.           *)
(***************************************************************************)
EXTENDS Replication, FiniteSetTheorems, TLAPS

Entities == 1..MaxEntities
Views == UNION {[ids -> 0..MaxEntities] : ids \in SUBSET Ids}
Packets == [kind : {"create", "delete"}, shows : Views, visit : Nat]

\* The system of the server: what was created is in it, what was not validated
\* is not, and what it holds and was broadcast was not reported as deleted.
SystemFits(now, unborn, dying, inSystem, new, gone) ==
  /\ now \in [Ids -> 0..MaxEntities]
  /\ \A i \in unborn \cup dying \cup inSystem : i \in Ids /\ now[i] # None
  /\ new \subseteq inSystem /\ gone \subseteq Ids
  /\ unborn \cap inSystem = {}
  /\ gone \cap (inSystem \ new) = {}

\* The types of the other variables.
RestFits ==
  /\ match \in [Ids -> 0..MaxEntities]
  /\ lastEntity \in 0..MaxEntities /\ sent \in 0..MaxSnapshots /\ shown \in 0..MaxSnapshots
  /\ playing \in BOOLEAN /\ inArena \in BOOLEAN /\ window \in BOOLEAN /\ stale \in BOOLEAN
  /\ visits \in 0..MaxVisits /\ joins \in 0..MaxVisits
  /\ fault \in {"none", "created twice", "unknown deleted"}
  /\ requests \in Seq({"join", "leave"})
  /\ commands \in Seq(Packets) /\ Len(commands) <= MaxInFlight
  /\ snapshots \in Seq(0..MaxSnapshots) /\ Len(snapshots) <= MaxInFlight
  /\ ring \in Seq(0..MaxSnapshots) /\ Len(ring) <= Capacity

\* The requests alternate, and join and leave as the client has since.
One(b) == IF b THEN 1 ELSE 0
RequestsFit ==
  /\ 2 * joins + Len(requests) + One(inArena) = 2 * visits + One(playing)
  /\ \A k \in DOMAIN requests : requests[k] = "join" <=> (k + One(playing)) % 2 = 1

\* Snapshots come in the order of their numbers.
SnapshotsInOrder ==
  /\ shown <= sent
  /\ \A k \in DOMAIN snapshots : shown <= snapshots[k] /\ snapshots[k] <= sent
  /\ \A k \in DOMAIN ring : shown <= ring[k] /\ ring[k] <= sent
  /\ \A j, k \in DOMAIN snapshots : j <= k => snapshots[j] <= snapshots[k]
  /\ \A j, k \in DOMAIN ring : j <= k => ring[j] <= ring[k]
  /\ \A j \in DOMAIN ring, k \in DOMAIN snapshots : ring[j] <= snapshots[k]

\* Commands come in the order of the joins.
VisitsInOrder(packets, last) ==
  /\ \A k \in DOMAIN packets : packets[k].visit <= last
  /\ \A j, k \in DOMAIN packets : j <= k => packets[j].visit <= packets[k].visit

\* Each packet is about what a client that shows "from" expects when it comes.
InTurn(from, packets) ==
  \A k \in DOMAIN packets : \A i \in DOMAIN packets[k].shows :
    /\ packets[k].kind = "create" =>
         packets[k].shows[i] \in Entities /\ Shows(from, packets, k - 1, i, None)
    /\ packets[k].kind = "delete" =>
         packets[k].shows[i] = None /\ \E old \in Entities : Shows(from, packets, k - 1, i, old)

\* ClientFollows, of any client and any state of the system.
Accounts(from, packets, now, inSystem, new, gone) ==
  \A i \in Ids :
    /\ i \in inSystem \ new => Shows(from, packets, Len(packets), i, now[i])
    /\ i \in gone => \E old \in Entities : Shows(from, packets, Len(packets), i, old)
    /\ i \notin (inSystem \ new) \cup gone => Shows(from, packets, Len(packets), i, None)

Clean ==
  /\ fault = "none" /\ inArena /\ joins = visits /\ ~stale /\ ~window
  /\ \A k \in DOMAIN commands : commands[k].visit = visits

IInv ==
  /\ SystemFits(entity, fresh, killed, listed, created, deleted)
  /\ RestFits /\ RequestsFit /\ SnapshotsInOrder
  /\ VisitsInOrder(commands, joins)
  /\ (~stale /\ joins < visits) => match = Empty
  /\ fault # "none" => inArena /\ (stale \/ (window /\ joins = visits))
  /\ Clean => /\ InTurn(match, commands)
              /\ Accounts(match, commands, entity, listed, created, deleted)

-----------------------------------------------------------------------------
(* Sequences *)

LEMMA Appended ==
  ASSUME NEW S, NEW s \in Seq(S), NEW e \in S
  PROVE  /\ Append(s, e) \in Seq(S) /\ Len(Append(s, e)) = Len(s) + 1 /\ Len(s) \in Nat
         /\ DOMAIN s = 1..Len(s) /\ DOMAIN Append(s, e) = 1..Len(s) + 1
         /\ \A k \in 1..Len(s) : Append(s, e)[k] = s[k]
         /\ Append(s, e)[Len(s) + 1] = e
  OBVIOUS

LEMMA Tailed ==
  ASSUME NEW S, NEW s \in Seq(S), s # <<>>
  PROVE  /\ Tail(s) \in Seq(S) /\ Len(Tail(s)) = Len(s) - 1 /\ Len(s) \in Nat \ {0}
         /\ DOMAIN s = 1..Len(s) /\ DOMAIN Tail(s) = 1..Len(s) - 1
         /\ \A k \in 1..Len(s) - 1 : Tail(s)[k] = s[k + 1]
         /\ Head(s) = s[1] /\ Head(s) \in S
  OBVIOUS

LEMMA Elements ==
  ASSUME NEW S, NEW s \in Seq(S)
  PROVE  \A k \in DOMAIN s : s[k] \in S
  OBVIOUS

LEMMA Fronted ==
  ASSUME NEW S, NEW s \in Seq(S), s # <<>>
  PROVE  /\ Front(s) \in Seq(S) /\ Len(Front(s)) = Len(s) - 1 /\ Len(s) \in Nat \ {0}
         /\ DOMAIN s = 1..Len(s) /\ DOMAIN Front(s) = 1..Len(s) - 1
         /\ \A k \in 1..Len(s) - 1 : Front(s)[k] = s[k]
  <1>1. Len(s) \in Nat \ {0} /\ DOMAIN s = 1..Len(s)
    OBVIOUS
  <1>2. /\ Front(s) \in Seq(S) /\ Len(Front(s)) = Len(s) - 1
        /\ \A k \in 1..Len(s) - 1 : Front(s)[k] = s[k]
    BY <1>1 DEF Front
  <1>3. DOMAIN Front(s) = 1..Len(Front(s))
    BY <1>2
  <1> QED BY <1>1, <1>2, <1>3

-----------------------------------------------------------------------------
(* What a client shows *)

LEMMA ShowsAppended ==
  ASSUME NEW S, NEW cs \in Seq(S), NEW c \in S, NEW from, NEW i, NEW what
  PROVE  /\ \A n \in 0..Len(cs) : Shows(from, cs, n, i, what) => Shows(from, Append(cs, c), n, i, what)
         /\ i \notin DOMAIN c.shows /\ Shows(from, cs, Len(cs), i, what)
              => Shows(from, Append(cs, c), Len(cs) + 1, i, what)
         /\ i \in DOMAIN c.shows => Shows(from, Append(cs, c), Len(cs) + 1, i, c.shows[i])
  <1> DEFINE a == Append(cs, c)
  <1>1. /\ Len(cs) \in Nat /\ a[Len(cs) + 1] = c
        /\ \A k \in 1..Len(cs) : a[k] = cs[k]
    BY Appended
  <1> HIDE DEF a
  <1>2. ASSUME NEW n \in 0..Len(cs), Shows(from, cs, n, i, what) PROVE Shows(from, a, n, i, what)
    <2>1. \A k \in 1..n : a[k] = cs[k]
      BY <1>1
    <2>2. \A k \in 1..n : \A j \in k + 1..n : a[j] = cs[j]
      BY <1>1
    <2> QED BY <1>2, <2>1, <2>2, Zenon DEF Shows, Tells
  <1>3. ASSUME i \notin DOMAIN c.shows, Shows(from, cs, Len(cs), i, what)
        PROVE  Shows(from, a, Len(cs) + 1, i, what)
    <2>1. ~Tells(a, Len(cs) + 1, i)
      BY <1>1, <1>3 DEF Tells
    <2>2. CASE what = from[i] /\ \A k \in 1..Len(cs) : ~Tells(cs, k, i)
      <3>1. ASSUME NEW k \in 1..Len(cs) + 1 PROVE ~Tells(a, k, i)
        <4>1. CASE k = Len(cs) + 1
          BY <2>1, <4>1
        <4>2. CASE k \in 1..Len(cs)
          BY <1>1, <2>2, <4>2 DEF Tells
        <4> QED BY <1>1, <4>1, <4>2
      <3> QED BY <2>2, <3>1 DEF Shows
    <2>3. CASE \E k \in 1..Len(cs) : /\ Tells(cs, k, i) /\ what = cs[k].shows[i]
                                     /\ \A j \in k + 1..Len(cs) : ~Tells(cs, j, i)
      <3>1. PICK k \in 1..Len(cs) : /\ Tells(cs, k, i) /\ what = cs[k].shows[i]
                                    /\ \A j \in k + 1..Len(cs) : ~Tells(cs, j, i)
        BY <2>3
      <3>2. k \in 1..Len(cs) + 1 /\ Tells(a, k, i) /\ what = a[k].shows[i]
        BY <1>1, <3>1 DEF Tells
      <3>3. ASSUME NEW j \in k + 1..Len(cs) + 1 PROVE ~Tells(a, j, i)
        <4>1. CASE j = Len(cs) + 1
          BY <2>1, <4>1
        <4>2. CASE j # Len(cs) + 1
          <5>1. j \in k + 1..Len(cs) /\ j \in 1..Len(cs)
            BY <1>1, <4>2
          <5> QED BY <1>1, <3>1, <5>1 DEF Tells
        <4> QED BY <4>1, <4>2
      <3> QED BY <3>2, <3>3 DEF Shows
    <2> QED BY <1>3, <2>2, <2>3 DEF Shows
  <1>4. ASSUME i \in DOMAIN c.shows PROVE Shows(from, a, Len(cs) + 1, i, c.shows[i])
    <2>1. Len(cs) + 1 \in 1..Len(cs) + 1 /\ \A j \in (Len(cs) + 1) + 1..Len(cs) + 1 : FALSE
      BY <1>1
    <2>2. Tells(a, Len(cs) + 1, i) /\ c.shows[i] = a[Len(cs) + 1].shows[i]
      BY <1>1, <1>4 DEF Tells
    <2> QED BY <2>1, <2>2 DEF Shows
  <1> QED BY <1>2, <1>3, <1>4 DEF a

LEMMA ShowsTail ==
  ASSUME NEW S, NEW cs \in Seq(S), cs # <<>>, NEW from, NEW i \in Ids, NEW what,
         NEW n \in 1..Len(cs), Shows(from, cs, n, i, what)
  PROVE  Shows(ApplyCommand(Head(cs).shows, from), Tail(cs), n - 1, i, what)
  <1> DEFINE r == Tail(cs)  to == ApplyCommand(Head(cs).shows, from)
  <1>1. /\ Len(cs) \in Nat \ {0} /\ Head(cs) = cs[1]
        /\ \A k \in 1..Len(cs) - 1 : r[k] = cs[k + 1]
    BY Tailed
  <1>2. to[i] = IF i \in DOMAIN cs[1].shows THEN cs[1].shows[i] ELSE from[i]
    BY <1>1 DEF ApplyCommand
  <1> HIDE DEF r, to
  <1>3. \A k \in 1..n - 1 : k + 1 \in 1..n /\ r[k] = cs[k + 1]
    BY <1>1
  <1>4. ASSUME \A k \in 1..n - 1 : ~Tells(cs, k + 1, i), what = to[i]
        PROVE  Shows(to, r, n - 1, i, what)
    BY <1>3, <1>4 DEF Shows, Tells
  <1>5. CASE what = from[i] /\ \A k \in 1..n : ~Tells(cs, k, i)
    <2>1. what = to[i]
      BY <1>2, <1>5 DEF Tells
    <2> QED BY <1>3, <1>4, <1>5, <2>1 DEF r, to
  <1>6. ASSUME NEW k \in 1..n, Tells(cs, k, i), what = cs[k].shows[i],
               \A j \in k + 1..n : ~Tells(cs, j, i)
        PROVE  Shows(to, r, n - 1, i, what)
    <2>1. CASE k = 1
      <3>1. what = to[i]
        BY <1>2, <1>6, <2>1 DEF Tells
      <3>2. \A j \in 1..n - 1 : ~Tells(cs, j + 1, i)
        BY <1>1, <1>6, <2>1
      <3> QED BY <1>4, <3>1, <3>2
    <2>2. CASE k # 1
      <3>1. k - 1 \in 1..n - 1 /\ (k - 1) + 1 = k
        BY <1>1, <2>2
      <3>2. r[k - 1] = cs[k]
        BY <1>3, <3>1
      <3>3. Tells(r, k - 1, i) /\ what = r[k - 1].shows[i]
        BY <1>6, <3>2 DEF Tells
      <3>4. ASSUME NEW j \in (k - 1) + 1..n - 1 PROVE ~Tells(r, j, i)
        <4>1. j \in 1..n - 1 /\ j + 1 \in k + 1..n
          BY <1>1, <2>2
        <4> QED BY <1>3, <1>6, <4>1 DEF Tells
      <3> QED BY <3>1, <3>3, <3>4 DEF Shows
    <2> QED BY <2>1, <2>2
  <1> QED BY <1>5, <1>6 DEF Shows, r, to

\* A packet that comes when it is expected keeps the others in turn.
LEMMA InTurnAppended ==
  ASSUME NEW cs \in Seq(Packets), NEW c \in Packets, NEW from, InTurn(from, cs),
         \A i \in DOMAIN c.shows :
           /\ c.kind = "create" => c.shows[i] \in Entities /\ Shows(from, cs, Len(cs), i, None)
           /\ c.kind = "delete" =>
                c.shows[i] = None /\ \E old \in Entities : Shows(from, cs, Len(cs), i, old)
  PROVE  InTurn(from, Append(cs, c))
  <1> DEFINE a == Append(cs, c)
  <1>1. /\ Len(cs) \in Nat /\ DOMAIN a = 1..Len(cs) + 1 /\ DOMAIN cs = 1..Len(cs)
        /\ a[Len(cs) + 1] = c /\ \A k \in 1..Len(cs) : a[k] = cs[k]
    BY Appended
  <1>2. \A i, what : \A n \in 0..Len(cs) :
          Shows(from, cs, n, i, what) => Shows(from, a, n, i, what)
    BY ShowsAppended
  <1> HIDE DEF a
  <1>3. ASSUME NEW k \in DOMAIN a, NEW i \in DOMAIN a[k].shows
        PROVE  /\ a[k].kind = "create" => a[k].shows[i] \in Entities /\ Shows(from, a, k - 1, i, None)
               /\ a[k].kind = "delete" =>
                    a[k].shows[i] = None /\ \E old \in Entities : Shows(from, a, k - 1, i, old)
    <2>1. k - 1 \in 0..Len(cs) /\ k \in Nat
      BY <1>1
    <2>2. CASE k \in 1..Len(cs)
      <3>1. a[k] = cs[k] /\ k \in DOMAIN cs
        BY <1>1, <2>2
      <3>2. /\ cs[k].kind = "create" => cs[k].shows[i] \in Entities /\ Shows(from, cs, k - 1, i, None)
            /\ cs[k].kind = "delete" =>
                 cs[k].shows[i] = None /\ \E old \in Entities : Shows(from, cs, k - 1, i, old)
        BY <1>3, <3>1, Zenon DEF InTurn
      <3> QED BY <1>2, <2>1, <3>1, <3>2, Zenon
    <2>3. CASE k = Len(cs) + 1
      <3>1. a[k] = c /\ k - 1 = Len(cs) /\ i \in DOMAIN c.shows
        BY <1>1, <1>3, <2>3
      <3> QED BY <1>2, <2>1, <3>1, Zenon
    <2> QED BY <1>1, <2>2, <2>3
  <1> QED BY <1>3, Zenon DEF InTurn, a

LEMMA InTurnTail ==
  ASSUME NEW cs \in Seq(Packets), cs # <<>>, NEW from, InTurn(from, cs)
  PROVE  InTurn(ApplyCommand(Head(cs).shows, from), Tail(cs))
  <1> DEFINE r == Tail(cs)  to == ApplyCommand(Head(cs).shows, from)
  <1>1. /\ Len(cs) \in Nat \ {0} /\ DOMAIN cs = 1..Len(cs) /\ DOMAIN r = 1..Len(cs) - 1
        /\ \A k \in 1..Len(cs) - 1 : r[k] = cs[k + 1]
    BY Tailed
  <1>2. \A i \in Ids : \A what : \A n \in 1..Len(cs) :
          Shows(from, cs, n, i, what) => Shows(to, r, n - 1, i, what)
    BY ShowsTail
  <1> HIDE DEF r, to
  <1>3. ASSUME NEW k \in DOMAIN r, NEW i \in DOMAIN r[k].shows
        PROVE  /\ r[k].kind = "create" => r[k].shows[i] \in Entities /\ Shows(to, r, k - 1, i, None)
               /\ r[k].kind = "delete" =>
                    r[k].shows[i] = None /\ \E old \in Entities : Shows(to, r, k - 1, i, old)
    <2>1. k \in 1..Len(cs) /\ k + 1 \in DOMAIN cs /\ (k + 1) - 1 = k /\ r[k] = cs[k + 1]
      BY <1>1
    <2>2. /\ cs[k + 1].kind = "create" =>
               cs[k + 1].shows[i] \in Entities /\ Shows(from, cs, (k + 1) - 1, i, None)
          /\ cs[k + 1].kind = "delete" =>
               cs[k + 1].shows[i] = None /\ \E old \in Entities : Shows(from, cs, (k + 1) - 1, i, old)
      BY <1>3, <2>1, Zenon DEF InTurn
    <2>3. i \in Ids
      <3>1. cs[k + 1] \in Packets
        BY <2>1
      <3> QED BY <1>3, <2>1, <3>1 DEF Packets, Views
    <2>4. /\ r[k].kind = "create" => r[k].shows[i] \in Entities /\ Shows(from, cs, k, i, None)
          /\ r[k].kind = "delete" =>
               r[k].shows[i] = None /\ \E old \in Entities : Shows(from, cs, k, i, old)
      BY <2>1, <2>2, Zenon
    <2> QED BY <1>2, <2>1, <2>3, <2>4, Zenon
  <1> QED BY <1>3, Zenon DEF InTurn, r, to

\* The client that reads its first command is then accounted for like before.
LEMMA AccountsTail ==
  ASSUME NEW cs \in Seq(Packets), cs # <<>>, NEW from, NEW now, NEW inSystem, NEW new, NEW gone,
         Accounts(from, cs, now, inSystem, new, gone)
  PROVE  Accounts(ApplyCommand(Head(cs).shows, from), Tail(cs), now, inSystem, new, gone)
  <1> DEFINE r == Tail(cs)  to == ApplyCommand(Head(cs).shows, from)
  <1>1. Len(cs) \in 1..Len(cs) /\ Len(r) = Len(cs) - 1
    BY Tailed
  <1>2. \A i \in Ids : \A what : Shows(from, cs, Len(cs), i, what) => Shows(to, r, Len(cs) - 1, i, what)
    BY <1>1, ShowsTail
  <1> HIDE DEF r, to
  <1> QED BY <1>1, <1>2, Zenon DEF Accounts, r, to

\* The first command of those in turn makes no assertion fail.
LEMMA FirstInTurn ==
  ASSUME NEW cs \in Seq(Packets), cs # <<>>, InTurn(match, cs)
  PROVE  FaultOf(Head(cs)) = "none"
  <1>1. Len(cs) \in Nat \ {0} /\ 1 \in DOMAIN cs /\ Head(cs) = cs[1] /\ 1 - 1 = 0
    BY Tailed
  <1>2. \A i, what : Shows(match, cs, 0, i, what) => what = match[i]
    BY DEF Shows
  <1>3. ASSUME NEW i \in DOMAIN cs[1].shows
        PROVE  /\ cs[1].kind = "create" => match[i] = None
               /\ cs[1].kind = "delete" => match[i] # None
    <2>1. /\ cs[1].kind = "create" => Shows(match, cs, 0, i, None)
          /\ cs[1].kind = "delete" => \E old \in Entities : Shows(match, cs, 0, i, old)
      <3>1. /\ cs[1].kind = "create" => Shows(match, cs, 1 - 1, i, None)
            /\ cs[1].kind = "delete" => \E old \in Entities : Shows(match, cs, 1 - 1, i, old)
        BY <1>1, Zenon DEF InTurn
      <3> QED BY <1>1, <3>1, Zenon
    <2>2. None \notin Entities
      BY DEF None, Entities
    <2> QED BY <1>2, <2>1, <2>2, Zenon
  <1> QED BY <1>1, <1>3 DEF FaultOf

-----------------------------------------------------------------------------
(* What the server sends *)

\* What a broadcast adds to the packets under way.
Sent(cs, gone, new, now, visit) ==
  cs \o Unless(gone = {}, [kind |-> "delete", shows |-> [i \in gone |-> None], visit |-> visit])
     \o Unless(new = {}, [kind |-> "create", shows |-> [i \in new |-> now[i]], visit |-> visit])

LEMMA OnePacket ==
  ASSUME NEW cs \in Seq(Packets), NEW p \in Packets, NEW ids
  PROVE  cs \o Unless(ids = {}, p) = IF ids = {} THEN cs ELSE Append(cs, p)
  <1>1. cs \o <<>> = cs /\ cs \o <<p>> = Append(cs, p)
    OBVIOUS
  <1>2. CASE ids = {}
    BY <1>1, <1>2, Zenon DEF Unless
  <1>3. CASE ids # {}
    BY <1>1, <1>3, Zenon DEF Unless
  <1> QED BY <1>2, <1>3

LEMMA PacketTypes ==
  ASSUME NEW ids \in SUBSET Ids, NEW now \in [Ids -> 0..MaxEntities], NEW visit \in Nat
  PROVE  /\ [kind |-> "delete", shows |-> [i \in ids |-> None], visit |-> visit] \in Packets
         /\ [kind |-> "create", shows |-> [i \in ids |-> now[i]], visit |-> visit] \in Packets
  <1>1. [i \in ids |-> None] \in [ids -> 0..MaxEntities]
    BY BoundsAssumption DEF None
  <1>2. [i \in ids |-> now[i]] \in [ids -> 0..MaxEntities]
    OBVIOUS
  <1>3. [ids -> 0..MaxEntities] \subseteq Views
    BY DEF Views
  <1> QED BY <1>1, <1>2, <1>3 DEF Packets

\* One packet, sent or not: who knew what of an identifier it does not tell of
\* knows it still, and who is told knows that.
LEMMA OneTold ==
  ASSUME NEW cs \in Seq(Packets), NEW p \in Packets, NEW from, NEW ids, DOMAIN p.shows = ids
  PROVE  LET next == IF ids = {} THEN cs ELSE Append(cs, p) IN
           /\ next \in Seq(Packets)
           /\ \A i, what : i \notin ids /\ Shows(from, cs, Len(cs), i, what)
                             => Shows(from, next, Len(next), i, what)
           /\ \A i \in ids : Shows(from, next, Len(next), i, p.shows[i])
  <1>1. CASE ids = {}
    BY <1>1
  <1>2. CASE ids # {}
    <2> DEFINE a == Append(cs, p)
    <2>1. a \in Seq(Packets) /\ Len(a) = Len(cs) + 1
      BY Appended
    <2>2. \A i, what : i \notin ids /\ Shows(from, cs, Len(cs), i, what) => Shows(from, a, Len(cs) + 1, i, what)
      BY ShowsAppended
    <2>3. \A i \in ids : Shows(from, a, Len(cs) + 1, i, p.shows[i])
      BY ShowsAppended
    <2> HIDE DEF a
    <2>4. /\ \A i, what : i \notin ids /\ Shows(from, cs, Len(cs), i, what) => Shows(from, a, Len(a), i, what)
          /\ \A i \in ids : Shows(from, a, Len(a), i, p.shows[i])
      BY <2>1, <2>2, <2>3, Zenon
    <2> QED BY <1>2, <2>1, <2>4, Zenon DEF a
  <1> QED BY <1>1, <1>2

\* The deletions then the creations of a broadcast come in turn, and the
\* client is accounted for by the system alone.
LEMMA SentKeeps ==
  ASSUME NEW cs \in Seq(Packets), NEW from, NEW now \in [Ids -> 0..MaxEntities], NEW visit \in Nat,
         NEW gone \in SUBSET Ids, NEW new \in SUBSET Ids, NEW inSystem,
         new \subseteq inSystem,
         \A i \in new : now[i] # None,
         InTurn(from, cs), Accounts(from, cs, now, inSystem, new, gone),
         gone \cap (inSystem \ new) = {}
  PROVE  /\ Sent(cs, gone, new, now, visit) \in Seq(Packets)
         /\ InTurn(from, Sent(cs, gone, new, now, visit))
         /\ Accounts(from, Sent(cs, gone, new, now, visit), now, inSystem, {}, {})
  <1> DEFINE d == [kind |-> "delete", shows |-> [i \in gone |-> None], visit |-> visit]
             c == [kind |-> "create", shows |-> [i \in new |-> now[i]], visit |-> visit]
             mid == IF gone = {} THEN cs ELSE Append(cs, d)
             end == IF new = {} THEN mid ELSE Append(mid, c)
  <1>1. /\ d \in Packets /\ d.kind = "delete" /\ DOMAIN d.shows = gone /\ \A i \in gone : d.shows[i] = None
        /\ c \in Packets /\ c.kind = "create" /\ DOMAIN c.shows = new /\ \A i \in new : c.shows[i] = now[i]
    BY PacketTypes
  <1>2. Sent(cs, gone, new, now, visit) = cs \o Unless(gone = {}, d) \o Unless(new = {}, c)
    BY DEF Sent
  <1> HIDE DEF d, c
  <1>3. /\ mid \in Seq(Packets)
        /\ \A i, what : i \notin gone /\ Shows(from, cs, Len(cs), i, what)
                          => Shows(from, mid, Len(mid), i, what)
        /\ \A i \in gone : Shows(from, mid, Len(mid), i, d.shows[i])
    BY <1>1, OneTold
  <1>4. InTurn(from, mid)
    <2>1. CASE gone = {}
      BY <2>1
    <2>2. CASE gone # {}
      <3>1. \A i \in gone : d.shows[i] = None /\ \E old \in Entities : Shows(from, cs, Len(cs), i, old)
        BY <1>1 DEF Accounts
      <3>2. InTurn(from, Append(cs, d))
        BY <1>1, <3>1, InTurnAppended
      <3> QED BY <2>2, <3>2
    <2> QED BY <2>1, <2>2
  <1>5. cs \o Unless(gone = {}, d) = mid
    BY <1>1, OnePacket
  <1> HIDE DEF mid
  <1>6. /\ end \in Seq(Packets)
        /\ \A i, what : i \notin new /\ Shows(from, mid, Len(mid), i, what)
                          => Shows(from, end, Len(end), i, what)
        /\ \A i \in new : Shows(from, end, Len(end), i, c.shows[i])
    BY <1>1, <1>3, OneTold
  <1>7. mid \o Unless(new = {}, c) = end
    BY <1>1, <1>3, OnePacket
  \* After the deletions the client shows nothing under what is not left.
  <1>8. ASSUME NEW i \in Ids, i \notin inSystem \ new PROVE Shows(from, mid, Len(mid), i, None)
    <2>1. CASE i \in gone
      BY <1>1, <1>3, <2>1
    <2>2. CASE i \notin gone
      <3>1. Shows(from, cs, Len(cs), i, None)
        BY <1>8, <2>2 DEF Accounts
      <3> QED BY <1>3, <2>2, <3>1
    <2> QED BY <2>1, <2>2
  <1>9. InTurn(from, end)
    <2>1. CASE new = {}
      BY <1>4, <2>1
    <2>2. CASE new # {}
      <3>1. \A i \in new : c.shows[i] \in Entities /\ Shows(from, mid, Len(mid), i, None)
        BY <1>1, <1>8, BoundsAssumption DEF Entities, None
      <3>2. InTurn(from, Append(mid, c))
        BY <1>1, <1>3, <1>4, <3>1, InTurnAppended
      <3> QED BY <2>2, <3>2
    <2> QED BY <2>1, <2>2
  <1> HIDE DEF end
  <1>10. ASSUME NEW i \in Ids
         PROVE  /\ i \in inSystem => Shows(from, end, Len(end), i, now[i])
                /\ i \notin inSystem => Shows(from, end, Len(end), i, None)
    <2>1. CASE i \in new
      <3>1. Shows(from, end, Len(end), i, now[i])
        BY <1>1, <1>6, <2>1
      <3> QED BY <2>1, <3>1
    <2>2. CASE i \in inSystem \ new
      <3>1. i \notin gone /\ Shows(from, cs, Len(cs), i, now[i])
        BY <2>2 DEF Accounts
      <3> QED BY <1>3, <1>6, <2>2, <3>1
    <2>3. CASE i \notin inSystem
      BY <1>6, <1>8, <2>3
    <2> QED BY <2>1, <2>2, <2>3
  <1>11. Accounts(from, end, now, inSystem, {}, {})
    BY <1>10 DEF Accounts
  <1>12. Sent(cs, gone, new, now, visit) = end
    BY <1>2, <1>5, <1>7
  <1> QED BY <1>6, <1>9, <1>11, <1>12

-----------------------------------------------------------------------------
(* The steps of the system *)

Holding == (listed \ killed) \cup Validated

\* A refresh of the world, and what the bitsets make of it: the client that was
\* accounted for still is.
LEMMA Refreshed ==
  ASSUME SystemFits(entity, fresh, killed, listed, created, deleted)
  PROVE  /\ SystemFits(Surviving, {}, {}, Holding, CreatedNow, DeletedNow)
         /\ \A from, cs : Accounts(from, cs, entity, listed, created, deleted)
              => Accounts(from, cs, Surviving, Holding, CreatedNow, DeletedNow)
  <1>0. CreatedNow = (created \ (killed \cap listed)) \cup (fresh \ killed)
        /\ DeletedNow = deleted \cup ((killed \cap listed) \ created)
        /\ Holding = (listed \ killed) \cup (fresh \ killed)
    BY DEF CreatedNow, CreatedWithout, DeletedNow, DeletedWith, Holding, Validated
  <1>1. Surviving \in [Ids -> 0..MaxEntities]
        /\ \A i \in Ids : Surviving[i] = IF i \in killed THEN None ELSE entity[i]
    BY BoundsAssumption DEF Surviving, SystemFits, None
  <1>2. SystemFits(Surviving, {}, {}, Holding, CreatedNow, DeletedNow)
    <2>1. \A i \in Holding : i \in Ids /\ Surviving[i] # None
      BY <1>0, <1>1 DEF SystemFits
    <2>2. CreatedNow \subseteq Holding /\ DeletedNow \subseteq Ids
      BY <1>0 DEF SystemFits
    <2>3. DeletedNow \cap (Holding \ CreatedNow) = {}
      BY <1>0 DEF SystemFits
    <2> QED BY <1>1, <2>1, <2>2, <2>3 DEF SystemFits
  <1>3. ASSUME NEW from, NEW cs, Accounts(from, cs, entity, listed, created, deleted), NEW i \in Ids
        PROVE  /\ i \in Holding \ CreatedNow => Shows(from, cs, Len(cs), i, Surviving[i])
               /\ i \in DeletedNow => \E old \in Entities : Shows(from, cs, Len(cs), i, old)
               /\ i \notin (Holding \ CreatedNow) \cup DeletedNow => Shows(from, cs, Len(cs), i, None)
    <2>0. /\ i \in listed \ created => Shows(from, cs, Len(cs), i, entity[i])
          /\ i \in deleted => \E old \in Entities : Shows(from, cs, Len(cs), i, old)
          /\ i \notin (listed \ created) \cup deleted => Shows(from, cs, Len(cs), i, None)
      BY <1>3, Zenon DEF Accounts
    <2>1. ASSUME i \in Holding \ CreatedNow PROVE Shows(from, cs, Len(cs), i, Surviving[i])
      <3>1. i \in listed \ created /\ i \notin killed
        BY <1>0, <2>1
      <3>2. Surviving[i] = entity[i]
        BY <1>1, <3>1
      <3> QED BY <2>0, <3>1, <3>2, Zenon
    <2>2. ASSUME i \in DeletedNow PROVE \E old \in Entities : Shows(from, cs, Len(cs), i, old)
      <3>1. CASE i \in deleted
        BY <2>0, <3>1, Zenon
      <3>2. CASE i \notin deleted
        <4>1. i \in listed \ created
          BY <1>0, <2>2, <3>2
        <4>2. entity[i] \in Entities
          BY <4>1, BoundsAssumption DEF SystemFits, Entities, None
        <4> QED BY <2>0, <4>1, <4>2, Zenon
      <3> QED BY <3>1, <3>2
    <2>3. ASSUME i \notin (Holding \ CreatedNow) \cup DeletedNow PROVE Shows(from, cs, Len(cs), i, None)
      <3>1. i \notin (listed \ created) \cup deleted
        BY <1>0, <2>3 DEF SystemFits
      <3> QED BY <2>0, <3>1, Zenon
    <2> QED BY <2>1, <2>2, <2>3, Zenon
  <1> QED BY <1>2, <1>3, Zenon DEF Accounts

\* A step of the system alone.
LEMMA SystemStep ==
  ASSUME IInv, UNCHANGED <<playing, joins, window, sent, network, client>>,
         SystemFits(entity', fresh', killed', listed', created', deleted'), lastEntity' \in 0..MaxEntities,
         \A from, cs : Accounts(from, cs, entity, listed, created, deleted)
                         => Accounts(from, cs, entity', listed', created', deleted')
  PROVE  IInv'
  <1>1. RestFits' /\ RequestsFit' /\ SnapshotsInOrder' /\ VisitsInOrder(commands', joins')
        /\ (~stale' /\ joins' < visits' => match' = Empty)
        /\ (fault' # "none" => inArena' /\ (stale' \/ (window' /\ joins' = visits')))
    BY DEF IInv, RestFits, RequestsFit, SnapshotsInOrder, network, client
  <1>2. Clean' => Clean
    BY DEF Clean, network, client
  <1>3. match' = match /\ commands' = commands
    BY DEF network, client
  <1>4. Clean' => InTurn(match', commands')
                  /\ Accounts(match', commands', entity', listed', created', deleted')
    BY <1>2, <1>3 DEF IInv
  <1> QED BY <1>1, <1>4 DEF IInv

LEMMA UpdateStep ==
  ASSUME IInv, Update
  PROVE  IInv'
  <1>1. SystemFits(entity, fresh, killed, listed, created, deleted)
    BY DEF IInv
  <1>2. entity' = Surviving /\ fresh' = {} /\ killed' = {} /\ listed' = Holding
        /\ created' = CreatedNow /\ deleted' = DeletedNow /\ lastEntity' = lastEntity
        /\ UNCHANGED <<playing, joins, window, sent, network, client>>
    BY DEF Update, Refresh, Holding
  <1>3. lastEntity' \in 0..MaxEntities
    BY <1>2 DEF IInv, RestFits
  <1> QED BY <1>1, <1>2, <1>3, Refreshed, SystemStep

LEMMA CreateEntityStep ==
  ASSUME IInv, CreateEntity
  PROVE  IInv'
  <1>1. SystemFits(entity, fresh, killed, listed, created, deleted) /\ lastEntity \in 0..MaxEntities
    BY DEF IInv, RestFits
  <1>2. PICK id \in Free : entity' = [entity EXCEPT ![id] = lastEntity'] /\ fresh' = fresh \cup {id}
    BY DEF CreateEntity
  <1>3. lastEntity' = lastEntity + 1 /\ lastEntity < MaxEntities
        /\ UNCHANGED <<killed, listed, created, deleted, playing, joins, window, sent, network, client>>
    BY DEF CreateEntity
  <1>4. lastEntity' \in 0..MaxEntities /\ lastEntity' # None
    BY <1>1, <1>3, BoundsAssumption DEF None
  <1>5. id \in Ids /\ entity[id] = None
    BY DEF Free
  <1>6. entity' \in [Ids -> 0..MaxEntities] /\ entity'[id] # None
        /\ \A i \in Ids \ {id} : entity'[i] = entity[i]
    BY <1>1, <1>2, <1>4, <1>5 DEF SystemFits
  <1>7. id \notin listed
    BY <1>1, <1>5 DEF SystemFits
  <1>8. SystemFits(entity', fresh', killed', listed', created', deleted')
    <2>1. \A i \in fresh' \cup killed' \cup listed' : i \in Ids /\ entity'[i] # None
      BY <1>1, <1>2, <1>3, <1>5, <1>6 DEF SystemFits
    <2> QED BY <1>1, <1>2, <1>3, <1>6, <1>7, <2>1 DEF SystemFits
  <1>9. \A i \in listed : entity'[i] = entity[i]
    BY <1>1, <1>6, <1>7 DEF SystemFits
  <1>10. ASSUME NEW from, NEW cs, Accounts(from, cs, entity, listed, created, deleted)
         PROVE  Accounts(from, cs, entity', listed', created', deleted')
    BY <1>3, <1>9, <1>10 DEF Accounts
  <1> QED BY <1>3, <1>4, <1>8, <1>10, SystemStep

LEMMA KillStep ==
  ASSUME IInv, NEW id \in Ids, Kill(id)
  PROVE  IInv'
  <1>1. SystemFits(entity, fresh, killed, listed, created, deleted) /\ lastEntity \in 0..MaxEntities
    BY DEF IInv, RestFits
  <1>2. killed' = killed \cup {id} /\ entity[id] # None
        /\ UNCHANGED <<entity, fresh, listed, created, deleted, lastEntity, playing, joins, window, sent,
                       network, client>>
    BY DEF Kill, Occupied, Free
  <1>3. SystemFits(entity', fresh', killed', listed', created', deleted')
    BY <1>1, <1>2 DEF SystemFits
  <1> QED BY <1>1, <1>2, <1>3, SystemStep

LEMMA ResetStep ==
  ASSUME IInv, Reset
  PROVE  IInv'
  <1>1. SystemFits(entity, fresh, killed, listed, created, deleted) /\ lastEntity \in 0..MaxEntities
    BY DEF IInv, RestFits
  <1> DEFINE below(i) == Cardinality({j \in Ids : j < i})
             first == {i \in Ids : below(i) < FirstEntities}
  <1>2. /\ entity' = [i \in Ids |-> IF i \in first THEN lastEntity + 1 + below(i) ELSE None]
        /\ fresh' = first /\ killed' = {} /\ listed' = {}
        /\ lastEntity' = lastEntity + FirstEntities /\ lastEntity + FirstEntities <= MaxEntities
        /\ created' = created \ listed /\ deleted' = deleted \cup (listed \ created)
        /\ UNCHANGED <<playing, joins, window, sent, network, client>>
    BY DEF Reset, CreatedWithout, DeletedWith
  <1>3. ASSUME NEW i \in Ids PROVE below(i) \in Nat
    <2>1. IsFiniteSet({j \in Ids : j < i})
      BY IdsAssumption, FS_Subset
    <2> QED BY <2>1, FS_CardinalityType
  <1>4. FirstEntities \in Nat /\ MaxEntities \in Nat
    <2>1. Cardinality(Ids) \in Nat
      BY IdsAssumption, FS_CardinalityType
    <2> QED BY <2>1, BoundsAssumption
  <1>5. first \subseteq Ids /\ \A i \in first : below(i) < FirstEntities
    OBVIOUS
  <1> HIDE DEF below, first
  <1>6. \A i \in first : lastEntity + 1 + below(i) \in 0..MaxEntities /\ lastEntity + 1 + below(i) # None
    BY <1>1, <1>2, <1>3, <1>4, <1>5 DEF None
  <1>7. entity' \in [Ids -> 0..MaxEntities] /\ \A i \in first : entity'[i] # None
    BY <1>2, <1>4, <1>5, <1>6 DEF None
  <1>8. SystemFits(entity', fresh', killed', listed', created', deleted')
    <2>1. created' = {} /\ deleted' \subseteq Ids
      BY <1>1, <1>2 DEF SystemFits
    <2> QED BY <1>2, <1>5, <1>7, <2>1 DEF SystemFits
  <1>9. ASSUME NEW from, NEW cs, Accounts(from, cs, entity, listed, created, deleted)
        PROVE  Accounts(from, cs, entity', listed', created', deleted')
    <2>1. \A i \in listed \ created : entity[i] \in Entities
      BY <1>1, BoundsAssumption DEF SystemFits, Entities, None
    <2>2. listed' \ created' = {} /\ deleted' = deleted \cup (listed \ created)
      BY <1>2
    <2> QED BY <1>9, <2>1, <2>2 DEF Accounts
  <1>10. lastEntity' \in 0..MaxEntities
    BY <1>1, <1>2, <1>4
  <1> QED BY <1>2, <1>8, <1>9, <1>10, SystemStep

-----------------------------------------------------------------------------
(* The steps of the server *)

\* The client is in the visit that the player joined last once nothing is
\* asked any more, and only then.
LEMMA InStep ==
  ASSUME RestFits, RequestsFit
  PROVE  /\ joins <= visits /\ joins \in Nat /\ visits \in Nat
         /\ inArena /\ joins = visits => playing /\ requests = <<>>
         /\ inArena /\ playing /\ requests = <<>> => joins = visits
         /\ requests # <<>> => (Head(requests) = "join" <=> ~playing)
         /\ requests # <<>> /\ ~playing => joins < visits
  <1>1. joins \in Nat /\ visits \in Nat /\ playing \in BOOLEAN /\ inArena \in BOOLEAN
        /\ requests \in Seq({"join", "leave"})
    <2>1. joins \in 0..MaxVisits /\ visits \in 0..MaxVisits
      BY DEF RestFits
    <2>2. playing \in BOOLEAN /\ inArena \in BOOLEAN /\ requests \in Seq({"join", "leave"})
      BY DEF RestFits
    <2> QED BY <2>1, <2>2
  <1>2. Len(requests) \in Nat /\ (requests = <<>> <=> Len(requests) = 0)
    BY <1>1
  <1>3. 2 * joins + Len(requests) + One(inArena) = 2 * visits + One(playing)
    BY DEF RequestsFit
  <1>4. ASSUME requests # <<>> PROVE Head(requests) = "join" <=> ~playing
    <2>1. 1 \in DOMAIN requests /\ Head(requests) = requests[1]
      BY <1>1, <1>4
    <2>2. requests[1] = "join" <=> (1 + One(playing)) % 2 = 1
      BY <2>1 DEF RequestsFit
    <2>3. CASE playing
      BY <2>1, <2>2, <2>3 DEF One
    <2>4. CASE ~playing
      BY <2>1, <2>2, <2>4 DEF One
    <2> QED BY <2>3, <2>4
  <1>5. One(playing) \in {0, 1} /\ One(inArena) \in {0, 1}
        /\ (playing <=> One(playing) = 1) /\ (inArena <=> One(inArena) = 1)
    BY DEF One
  <1> DEFINE p == One(playing)  a == One(inArena)  n == Len(requests)
  <1>6. p \in {0, 1} /\ a \in {0, 1} /\ n \in Nat /\ 2 * joins + n + a = 2 * visits + p
    BY <1>2, <1>3, <1>5
  <1> HIDE DEF p, a, n
  <1>7. /\ joins <= visits
        /\ a = 1 /\ joins = visits => p = 1 /\ n = 0
        /\ a = 1 /\ p = 1 /\ n = 0 => joins = visits
        /\ n # 0 /\ p = 0 => joins < visits
    BY <1>1, <1>6
  <1> QED BY <1>1, <1>2, <1>4, <1>5, <1>7 DEF p, a, n

LEMMA OneMore ==
  ASSUME NEW cs \in Seq(Packets), NEW p \in Packets, NEW ids, NEW v \in Nat,
         VisitsInOrder(cs, v), p.visit = v
  PROVE  LET next == IF ids = {} THEN cs ELSE Append(cs, p) IN
           /\ next \in Seq(Packets) /\ Len(cs) <= Len(next) /\ Len(next) <= Len(cs) + 1
           /\ \A k \in DOMAIN cs : k \in DOMAIN next /\ next[k] = cs[k]
           /\ VisitsInOrder(next, v)
  <1>1. CASE ids = {}
    <2>1. Len(cs) \in Nat
      OBVIOUS
    <2> QED BY <1>1, <2>1
  <1>2. CASE ids # {}
    <2> DEFINE a == Append(cs, p)
    <2>1. /\ a \in Seq(Packets) /\ Len(a) = Len(cs) + 1 /\ Len(cs) \in Nat
          /\ DOMAIN cs = 1..Len(cs) /\ DOMAIN a = 1..Len(cs) + 1
          /\ \A k \in 1..Len(cs) : a[k] = cs[k]
          /\ a[Len(cs) + 1] = p
      BY Appended
    <2> HIDE DEF a
    <2>2. \A k \in DOMAIN a : a[k].visit <= v
      BY <2>1 DEF VisitsInOrder
    <2>3. ASSUME NEW j \in DOMAIN a, NEW k \in DOMAIN a, j <= k PROVE a[j].visit <= a[k].visit
      <3>1. CASE k = Len(cs) + 1
        BY <2>1, <2>2, <3>1
      <3>2. CASE k # Len(cs) + 1
        <4>1. j \in DOMAIN cs /\ k \in DOMAIN cs
          BY <2>1, <2>3, <3>2
        <4> QED BY <2>1, <2>3, <4>1 DEF VisitsInOrder
      <3> QED BY <3>1, <3>2
    <2>4. VisitsInOrder(a, v)
      BY <2>2, <2>3 DEF VisitsInOrder
    <2>5. Len(cs) <= Len(a) /\ Len(a) <= Len(cs) + 1 /\ \A k \in DOMAIN cs : k \in DOMAIN a /\ a[k] = cs[k]
      BY <2>1
    <2> QED BY <1>2, <2>1, <2>4, <2>5, Zenon DEF a
  <1> QED BY <1>1, <1>2

LEMMA SentType ==
  ASSUME NEW cs \in Seq(Packets), NEW now \in [Ids -> 0..MaxEntities], NEW v \in Nat,
         NEW gone \in SUBSET Ids, NEW new \in SUBSET Ids, VisitsInOrder(cs, v)
  PROVE  /\ Sent(cs, gone, new, now, v) \in Seq(Packets)
         /\ Len(Sent(cs, gone, new, now, v)) <= Len(cs) + 2
         /\ \A k \in DOMAIN cs : /\ k \in DOMAIN Sent(cs, gone, new, now, v)
                                 /\ Sent(cs, gone, new, now, v)[k] = cs[k]
         /\ VisitsInOrder(Sent(cs, gone, new, now, v), v)
  <1> DEFINE d == [kind |-> "delete", shows |-> [i \in gone |-> None], visit |-> v]
             c == [kind |-> "create", shows |-> [i \in new |-> now[i]], visit |-> v]
             mid == IF gone = {} THEN cs ELSE Append(cs, d)
             end == IF new = {} THEN mid ELSE Append(mid, c)
  <1>1. d \in Packets /\ c \in Packets /\ d.visit = v /\ c.visit = v
    BY PacketTypes
  <1>2. Sent(cs, gone, new, now, v) = cs \o Unless(gone = {}, d) \o Unless(new = {}, c)
    BY DEF Sent
  <1> HIDE DEF d, c
  <1>3. /\ mid \in Seq(Packets) /\ Len(cs) <= Len(mid) /\ Len(mid) <= Len(cs) + 1
        /\ \A k \in DOMAIN cs : k \in DOMAIN mid /\ mid[k] = cs[k]
        /\ VisitsInOrder(mid, v)
    BY <1>1, OneMore
  <1>4. cs \o Unless(gone = {}, d) = mid
    BY <1>1, OnePacket
  <1> HIDE DEF mid
  <1>5. /\ end \in Seq(Packets) /\ Len(mid) <= Len(end) /\ Len(end) <= Len(mid) + 1
        /\ \A k \in DOMAIN mid : k \in DOMAIN end /\ end[k] = mid[k]
        /\ VisitsInOrder(end, v)
    BY <1>1, <1>3, OneMore
  <1>6. mid \o Unless(new = {}, c) = end
    BY <1>1, <1>3, OnePacket
  <1> HIDE DEF end
  <1>7. Sent(cs, gone, new, now, v) = end
    BY <1>2, <1>4, <1>6
  <1>8. Len(end) <= Len(cs) + 2
    <2>1. Len(end) \in Nat /\ Len(mid) \in Nat /\ Len(cs) \in Nat
      BY <1>3, <1>5
    <2> QED BY <1>3, <1>5, <2>1
  <1>9. \A k \in DOMAIN cs : k \in DOMAIN end /\ end[k] = cs[k]
    BY <1>3, <1>5, Zenon
  <1> QED BY <1>5, <1>7, <1>8, <1>9

\* An update with its broadcast.
LEMMA BroadcastStep ==
  ASSUME IInv, Broadcast
  PROVE  IInv'
  <1>1. /\ SystemFits(entity, fresh, killed, listed, created, deleted)
        /\ RestFits /\ RequestsFit /\ SnapshotsInOrder /\ VisitsInOrder(commands, joins)
    BY DEF IInv
  <1>2. entity' = Surviving /\ fresh' = {} /\ killed' = {} /\ listed' = Holding
        /\ created' = {} /\ deleted' = {} /\ lastEntity' = lastEntity
        /\ UNCHANGED <<playing, joins, window>>
    BY DEF Broadcast, Refresh, Holding
  <1>3. UNCHANGED <<requests, visits, inArena, match, fault, stale, ring, shown>>
    BY DEF Broadcast, client
  <1>4. /\ SystemFits(Surviving, {}, {}, Holding, CreatedNow, DeletedNow)
        /\ \A from, cs : Accounts(from, cs, entity, listed, created, deleted)
             => Accounts(from, cs, Surviving, Holding, CreatedNow, DeletedNow)
    BY <1>1, Refreshed
  <1>5. SystemFits(entity', fresh', killed', listed', created', deleted')
    BY <1>2, <1>4 DEF SystemFits
  <1> DEFINE packets == Sent(commands, DeletedNow, CreatedNow, Surviving, joins)
  <1>6. commands' = IF playing THEN packets ELSE commands
    BY DEF Broadcast, Sent, Create, Delete
  <1>7. commands \in Seq(Packets) /\ joins \in Nat /\ match \in [Ids -> 0..MaxEntities]
    BY <1>1, InStep DEF RestFits
  <1>8. Surviving \in [Ids -> 0..MaxEntities] /\ DeletedNow \in SUBSET Ids /\ CreatedNow \in SUBSET Ids
        /\ CreatedNow \subseteq Holding /\ (\A i \in CreatedNow : Surviving[i] # None)
        /\ DeletedNow \cap (Holding \ CreatedNow) = {}
    BY <1>4 DEF SystemFits
  <1>9. /\ packets \in Seq(Packets) /\ Len(packets) <= Len(commands) + 2
        /\ \A k \in DOMAIN commands : k \in DOMAIN packets /\ packets[k] = commands[k]
        /\ VisitsInOrder(packets, joins)
    BY <1>1, <1>7, <1>8, SentType
  <1>10. ASSUME InTurn(match, commands), Accounts(match, commands, entity, listed, created, deleted)
         PROVE  InTurn(match, packets) /\ Accounts(match, packets, Surviving, Holding, {}, {})
    <2>1. Accounts(match, commands, Surviving, Holding, CreatedNow, DeletedNow)
      BY <1>4, <1>10
    <2> HIDE DEF packets
    <2> QED BY <1>7, <1>8, <1>10, <2>1, SentKeeps DEF packets
  <1> HIDE DEF packets
  <1>11. /\ commands' \in Seq(Packets) /\ Len(commands') <= MaxInFlight
         /\ \A k \in DOMAIN commands : k \in DOMAIN commands' /\ commands'[k] = commands[k]
         /\ VisitsInOrder(commands', joins')
    <2>1. Len(commands) + 2 <= MaxInFlight /\ MaxInFlight \in Nat
      BY BoundsAssumption DEF Broadcast
    <2>2. CASE playing
      <3>1. commands' = packets
        BY <1>6, <2>2
      <3>2. Len(packets) \in Nat /\ Len(commands) \in Nat
        BY <1>7, <1>9
      <3>3. Len(packets) <= MaxInFlight
        BY <1>9, <2>1, <3>2
      <3> QED BY <1>2, <1>9, <3>1, <3>3
    <2>3. CASE ~playing
      BY <1>1, <1>2, <1>6, <2>3 DEF RestFits
    <2> QED BY <2>2, <2>3
  <1>12. /\ snapshots' \in Seq(0..MaxSnapshots) /\ Len(snapshots') <= MaxInFlight
         /\ sent' \in 0..MaxSnapshots /\ SnapshotsInOrder'
    <2>1. snapshots \in Seq(0..MaxSnapshots) /\ sent \in 0..MaxSnapshots /\ MaxSnapshots \in Nat
          /\ MaxInFlight \in Nat /\ Len(snapshots) <= MaxInFlight /\ shown \in 0..MaxSnapshots
          /\ ring \in Seq(0..MaxSnapshots)
      BY <1>1, BoundsAssumption DEF RestFits
    <2>2. sent' \in 0..MaxSnapshots /\ (sent' = sent \/ sent' = sent + 1)
      BY <2>1 DEF Broadcast
    <2>3. ring' = ring /\ shown' = shown
      BY <1>3
    <2>4. DOMAIN ring = 1..Len(ring) /\ \A k \in DOMAIN ring : ring[k] \in 0..MaxSnapshots
      BY <2>1
    <2>5. \A k \in DOMAIN snapshots : snapshots[k] \in 0..MaxSnapshots
      BY <2>1
    <2>6. CASE snapshots' = snapshots
      <3>1. SnapshotsInOrder'
        <4>1. \A k \in DOMAIN snapshots : snapshots[k] <= sent'
          BY <1>1, <2>1, <2>2, <2>5 DEF SnapshotsInOrder
        <4>2. \A k \in DOMAIN ring : ring[k] <= sent'
          BY <1>1, <2>1, <2>2, <2>4 DEF SnapshotsInOrder
        <4>3. shown <= sent'
          BY <1>1, <2>1, <2>2 DEF SnapshotsInOrder
        <4> QED BY <1>1, <2>3, <2>6, <4>1, <4>2, <4>3, Zenon DEF SnapshotsInOrder
      <3> QED BY <2>1, <2>2, <2>6, <3>1
    <2>7. CASE snapshots' = Append(snapshots, sent') /\ sent' = sent + 1 /\ Len(snapshots) # MaxInFlight
      <3> DEFINE s == Append(snapshots, sent')
      <3>1. /\ s \in Seq(0..MaxSnapshots) /\ Len(s) = Len(snapshots) + 1 /\ Len(snapshots) \in Nat
            /\ DOMAIN snapshots = 1..Len(snapshots) /\ DOMAIN s = 1..Len(snapshots) + 1
            /\ \A k \in 1..Len(snapshots) : s[k] = snapshots[k]
            /\ s[Len(snapshots) + 1] = sent'
        BY <2>1, <2>2, Appended
      <3> HIDE DEF s
      <3>2. \A k \in DOMAIN s : shown <= s[k] /\ s[k] <= sent'
        <4> SUFFICES ASSUME NEW k \in DOMAIN s PROVE shown <= s[k] /\ s[k] <= sent'
          OBVIOUS
        <4>1. shown <= sent
          BY <1>1 DEF SnapshotsInOrder
        <4>2. CASE k = Len(snapshots) + 1
          <5>1. s[k] = sent'
            BY <3>1, <4>2
          <5>2. sent' = sent + 1 /\ sent \in Nat /\ shown \in Nat
            BY <2>1, <2>7
          <5> QED BY <4>1, <5>1, <5>2
        <4>3. CASE k # Len(snapshots) + 1
          <5>1. k \in DOMAIN snapshots /\ s[k] = snapshots[k] /\ snapshots[k] \in 0..MaxSnapshots
            BY <2>5, <3>1, <4>3
          <5> QED BY <1>1, <2>1, <2>7, <5>1 DEF SnapshotsInOrder
        <4> QED BY <4>2, <4>3
      <3>3. \A k \in DOMAIN ring : shown <= ring[k] /\ ring[k] <= sent'
        BY <1>1, <2>1, <2>4, <2>7 DEF SnapshotsInOrder
      <3>4. ASSUME NEW j \in DOMAIN s, NEW k \in DOMAIN s, j <= k PROVE s[j] <= s[k]
        <4>1. CASE k = Len(snapshots) + 1
          BY <3>1, <3>2, <4>1
        <4>2. CASE k # Len(snapshots) + 1
          <5>1. j \in DOMAIN snapshots /\ k \in DOMAIN snapshots
            BY <3>1, <3>4, <4>2
          <5> QED BY <1>1, <3>1, <3>4, <5>1 DEF SnapshotsInOrder
        <4> QED BY <4>1, <4>2
      <3>5. ASSUME NEW j \in DOMAIN ring, NEW k \in DOMAIN s PROVE ring[j] <= s[k]
        <4>1. CASE k = Len(snapshots) + 1
          BY <3>1, <3>3, <4>1
        <4>2. CASE k # Len(snapshots) + 1
          <5>1. k \in DOMAIN snapshots /\ s[k] = snapshots[k]
            BY <3>1, <4>2
          <5> QED BY <1>1, <5>1 DEF SnapshotsInOrder
        <4> QED BY <4>1, <4>2
      <3>6. snapshots' = s
        BY <2>7 DEF s
      <3>7. SnapshotsInOrder'
        <4>1. shown <= sent'
          BY <1>1, <2>1, <2>7 DEF SnapshotsInOrder
        <4> QED BY <1>1, <2>3, <3>2, <3>3, <3>4, <3>5, <3>6, <4>1, Zenon DEF SnapshotsInOrder
      <3>8. Len(s) <= MaxInFlight
        <4>1. Len(snapshots) <= MaxInFlight /\ Len(snapshots) # MaxInFlight /\ MaxInFlight \in Nat
          BY <2>1, <2>7
        <4>2. Len(s) = Len(snapshots) + 1 /\ Len(snapshots) \in Nat
          BY <3>1
        <4> QED BY <4>1, <4>2
      <3> QED BY <2>2, <3>1, <3>6, <3>7, <3>8
    <2>8. snapshots' = snapshots
          \/ (snapshots' = Append(snapshots, sent') /\ sent' = sent + 1 /\ Len(snapshots) # MaxInFlight)
      BY <2>1, <2>2 DEF Broadcast
    <2> QED BY <2>6, <2>7, <2>8
  <1>13. RestFits'
    BY <1>1, <1>2, <1>3, <1>11, <1>12 DEF RestFits
  <1>14. RequestsFit'
    BY <1>1, <1>2, <1>3 DEF RequestsFit
  <1>15. Clean' => /\ InTurn(match', commands')
                   /\ Accounts(match', commands', entity', listed', created', deleted')
    <2> SUFFICES ASSUME Clean'
                 PROVE  /\ InTurn(match', commands')
                        /\ Accounts(match', commands', entity', listed', created', deleted')
      OBVIOUS
    <2>1. Clean
      BY <1>2, <1>3, <1>11 DEF Clean
    <2>2. playing
      BY <1>1, <2>1, InStep DEF Clean
    <2>3. commands' = packets /\ match' = match
      BY <1>3, <1>6, <2>2
    <2>4. InTurn(match, packets) /\ Accounts(match, packets, Surviving, Holding, {}, {})
      BY <1>10, <2>1 DEF IInv
    <2> QED BY <1>2, <2>3, <2>4
  <1>16. /\ ~stale' /\ joins' < visits' => match' = Empty
         /\ fault' # "none" => inArena' /\ (stale' \/ (window' /\ joins' = visits'))
    BY <1>2, <1>3 DEF IInv
  <1> QED BY <1>5, <1>11, <1>12, <1>13, <1>14, <1>15, <1>16 DEF IInv

\* A request is handled: those left alternate with what the player is then.
LEMMA RequestHandled ==
  ASSUME RestFits, RequestsFit, requests # <<>>, requests' = Tail(requests),
         visits' = visits, inArena' = inArena,
         \/ Head(requests) = "join" /\ playing' = TRUE /\ joins' = joins + 1
         \/ Head(requests) = "leave" /\ playing' = FALSE /\ joins' = joins
  PROVE  RequestsFit' /\ requests' \in Seq({"join", "leave"})
  <1>1. requests \in Seq({"join", "leave"}) /\ joins \in Nat /\ visits \in Nat
    BY InStep DEF RestFits
  <1>2. playing \in BOOLEAN /\ inArena \in BOOLEAN
    BY DEF RestFits
  <1>3. /\ requests' \in Seq({"join", "leave"}) /\ Len(requests') = Len(requests) - 1
        /\ Len(requests) \in Nat \ {0}
        /\ DOMAIN requests = 1..Len(requests) /\ DOMAIN requests' = 1..Len(requests) - 1
        /\ \A k \in 1..Len(requests) - 1 : requests'[k] = requests[k + 1]
    BY <1>1, Tailed
  <1>4. Head(requests) = "join" <=> ~playing
    BY InStep
  <1>5. 2 * joins' - One(playing)' = 2 * joins - One(playing) + 1
    <2>1. CASE Head(requests) = "join"
      BY <1>1, <1>4, <2>1 DEF One
    <2>2. CASE Head(requests) = "leave"
      BY <1>1, <1>4, <2>2 DEF One
    <2> QED BY <2>1, <2>2
  <1>6. One(inArena)' = One(inArena) /\ One(inArena) \in {0, 1} /\ One(playing) \in {0, 1}
        /\ One(playing)' = 1 - One(playing)
    <2>1. One(playing)' = 1 - One(playing)
      <3>1. CASE Head(requests) = "join"
        BY <1>4, <3>1 DEF One
      <3>2. CASE Head(requests) = "leave"
        BY <1>4, <3>2 DEF One
      <3> QED BY <3>1, <3>2
    <2> QED BY <2>1 DEF One
  <1>7. 2 * joins + Len(requests) + One(inArena) = 2 * visits + One(playing)
    BY DEF RequestsFit
  <1>8. joins' \in Nat
    BY <1>1
  <1>9. 2 * joins' + Len(requests') + One(inArena)' = 2 * visits' + One(playing)'
    <2> DEFINE n == Len(requests)  m == Len(requests')  a == One(inArena)  b == One(inArena)'
               p == One(playing)  q == One(playing)'
    <2>1. m = n - 1 /\ n \in Nat /\ b = a /\ a \in {0, 1} /\ p \in {0, 1} /\ q = 1 - p
          /\ 2 * joins' - q = 2 * joins - p + 1 /\ 2 * joins + n + a = 2 * visits + p
          /\ visits' = visits
      BY <1>3, <1>5, <1>6, <1>7
    <2> HIDE DEF n, m, a, b, p, q
    <2>2. \A j, v, i \in Nat : 2 * i - q = 2 * j - p + 1 /\ 2 * j + n + a = 2 * v + p
                              => 2 * i + m + b = 2 * v + q
      BY <2>1
    <2>3. 2 * joins' + m + b = 2 * visits + q
      BY <1>1, <1>8, <2>1, <2>2
    <2>4. 2 * joins' + m + b = 2 * visits' + q
      BY <2>1, <2>3
    <2> QED BY <2>4 DEF m, b, q
  <1>10. ASSUME NEW k \in DOMAIN requests'
         PROVE  requests'[k] = "join" <=> (k + One(playing)') % 2 = 1
    <2>1. k + 1 \in DOMAIN requests /\ requests'[k] = requests[k + 1] /\ k \in Nat
      BY <1>3
    <2>2. requests[k + 1] = "join" <=> (k + 1 + One(playing)) % 2 = 1
      BY <2>1 DEF RequestsFit
    <2>3. (k + 1 + One(playing)) % 2 = (k + One(playing)') % 2
      <3>1. CASE One(playing) = 0
        BY <1>6, <3>1
      <3>2. CASE One(playing) = 1
        <4>1. (k + 2) % 2 = k % 2
          BY <2>1
        <4>2. k + 1 + One(playing) = k + 2 /\ k + One(playing)' = k
          BY <1>6, <2>1, <3>2
        <4> QED BY <4>1, <4>2
      <3> QED BY <1>6, <3>1, <3>2
    <2> QED BY <2>1, <2>2, <2>3
  <1> QED BY <1>3, <1>9, <1>10 DEF RequestsFit

LEMMA HandleLeaveArenaStep ==
  ASSUME IInv, HandleLeaveArena
  PROVE  IInv'
  <1>1. /\ SystemFits(entity, fresh, killed, listed, created, deleted)
        /\ RestFits /\ RequestsFit /\ SnapshotsInOrder /\ VisitsInOrder(commands, joins)
    BY DEF IInv
  <1>2. /\ UNCHANGED <<entity, fresh, killed, listed, created, deleted, lastEntity>>
        /\ UNCHANGED <<joins, window, sent, commands, snapshots>>
        /\ UNCHANGED <<visits, inArena, match, fault, stale, ring, shown>>
        /\ playing' = FALSE /\ requests # <<>> /\ requests' = Tail(requests) /\ Head(requests) = "leave"
    BY DEF HandleLeaveArena, world, client
  <1>3. RequestsFit' /\ requests' \in Seq({"join", "leave"})
    BY <1>1, <1>2, RequestHandled
  <1>4. RestFits'
    BY <1>1, <1>2, <1>3 DEF RestFits
  <1>5. SnapshotsInOrder' /\ VisitsInOrder(commands', joins')
        /\ SystemFits(entity', fresh', killed', listed', created', deleted')
    BY <1>1, <1>2 DEF SnapshotsInOrder
  <1>6. ~Clean'
    <2>1. Clean' => Clean
      BY <1>2 DEF Clean
    <2>2. Clean => requests = <<>>
      BY <1>1, InStep DEF Clean
    <2> QED BY <1>2, <2>1, <2>2
  <1>7. /\ ~stale' /\ joins' < visits' => match' = Empty
        /\ fault' # "none" => inArena' /\ (stale' \/ (window' /\ joins' = visits'))
    BY <1>2 DEF IInv
  <1> QED BY <1>3, <1>4, <1>5, <1>6, <1>7 DEF IInv

\* The player joins: a client that has nothing to read yet, and was told
\* nothing in this visit, is accounted for if the bitsets are empty.
LEMMA HandleJoinArenaStep ==
  ASSUME IInv, HandleJoinArena
  PROVE  IInv'
  <1>1. /\ SystemFits(entity, fresh, killed, listed, created, deleted)
        /\ RestFits /\ RequestsFit /\ SnapshotsInOrder /\ VisitsInOrder(commands, joins)
    BY DEF IInv
  <1>2. requests # <<>> /\ Head(requests) = "join" /\ ~playing
    BY <1>1, InStep DEF HandleJoinArena
  <1> DEFINE c == [kind |-> "create", shows |-> [i \in listed |-> entity[i]], visit |-> joins']
  <1>3. /\ UNCHANGED <<entity, fresh, killed, listed, created, deleted, lastEntity>>
        /\ UNCHANGED <<sent, snapshots>>
        /\ UNCHANGED <<visits, inArena, match, fault, stale, ring, shown>>
        /\ playing' = TRUE /\ joins' = joins + 1 /\ window' = (created \cup deleted # {})
        /\ requests' = Tail(requests) /\ Len(commands) < MaxInFlight
        /\ commands' = Append(commands, c)
    <2>1. [Create(listed, entity) EXCEPT !.visit = joins'] = c
      <3> DEFINE s == [i \in listed |-> entity[i]]
      <3>1. \A v : [[kind |-> "create", shows |-> v, visit |-> joins] EXCEPT !.visit = joins']
                    = [kind |-> "create", shows |-> v, visit |-> joins']
        OBVIOUS
      <3>2. Create(listed, entity) = [kind |-> "create", shows |-> s, visit |-> joins]
        BY DEF Create
      <3>3. c = [kind |-> "create", shows |-> s, visit |-> joins']
        OBVIOUS
      <3> HIDE DEF s, c
      <3> QED BY <3>1, <3>2, <3>3
    <2>2. commands' = Append(commands, [Create(listed, entity) EXCEPT !.visit = joins'])
      BY <1>2 DEF HandleJoinArena
    <2> HIDE DEF c
    <2>3. commands' = Append(commands, c)
      BY <2>1, <2>2
    <2> QED BY <1>2, <2>3 DEF HandleJoinArena, world, client
  <1>4. /\ RequestsFit' /\ requests' \in Seq({"join", "leave"})
    BY <1>1, <1>2, <1>3, RequestHandled
  <1>5. joins < visits /\ joins \in Nat /\ visits \in Nat /\ joins' \in Nat
        /\ commands \in Seq(Packets) /\ listed \in SUBSET Ids /\ entity \in [Ids -> 0..MaxEntities]
    <2>1. joins < visits /\ joins \in Nat /\ visits \in Nat
      BY <1>1, <1>2, InStep
    <2>2. joins' \in Nat
      BY <1>3, <2>1
    <2>3. commands \in Seq(Packets)
      BY <1>1 DEF RestFits
    <2> QED BY <1>1, <2>1, <2>2, <2>3 DEF SystemFits
  <1>6. c \in Packets /\ c.kind = "create" /\ c.visit = joins' /\ DOMAIN c.shows = listed
        /\ \A i \in listed : c.shows[i] = entity[i]
    BY <1>5, PacketTypes
  <1> HIDE DEF c
  <1>7. /\ commands' \in Seq(Packets) /\ Len(commands') = Len(commands) + 1 /\ Len(commands) \in Nat
        /\ DOMAIN commands = 1..Len(commands) /\ DOMAIN commands' = 1..Len(commands) + 1
        /\ \A k \in 1..Len(commands) : commands'[k] = commands[k]
        /\ commands'[Len(commands) + 1] = c
    BY <1>3, <1>5, <1>6, Appended
  <1>8. VisitsInOrder(commands', joins')
    <2>0. \A k \in DOMAIN commands : commands[k].visit \in Nat
      <3>1. \A k \in DOMAIN commands : commands[k] \in Packets
        BY <1>5
      <3> QED BY <3>1 DEF Packets
    <2>1. \A k \in DOMAIN commands : commands[k].visit <= joins'
      BY <1>1, <1>3, <1>5, <2>0 DEF VisitsInOrder
    <2>2. ASSUME NEW k \in DOMAIN commands' PROVE commands'[k].visit <= joins'
      <3>1. \/ k \in DOMAIN commands /\ commands'[k] = commands[k]
            \/ commands'[k] = c
        BY <1>7
      <3> QED BY <1>5, <1>6, <2>1, <3>1
    <2>3. ASSUME NEW j \in DOMAIN commands', NEW k \in DOMAIN commands', j <= k
          PROVE  commands'[j].visit <= commands'[k].visit
      <3>1. CASE k = Len(commands) + 1
        BY <1>6, <1>7, <2>2, <3>1
      <3>2. CASE k # Len(commands) + 1
        <4>1. j \in DOMAIN commands /\ k \in DOMAIN commands
          BY <1>7, <2>3, <3>2
        <4> QED BY <1>1, <1>7, <2>3, <4>1 DEF VisitsInOrder
      <3> QED BY <3>1, <3>2
    <2> QED BY <2>2, <2>3 DEF VisitsInOrder
  <1>9. RestFits'
    <2>1. Len(commands') <= MaxInFlight /\ joins' \in 0..MaxVisits
      <3>1. Len(commands') <= MaxInFlight
        BY <1>3, <1>7, BoundsAssumption
      <3>2. visits \in 0..MaxVisits
        BY <1>1 DEF RestFits
      <3>3. joins' \in 0..MaxVisits
        BY <1>3, <1>5, <3>2, BoundsAssumption
      <3> QED BY <3>1, <3>3
    <2> QED BY <1>1, <1>3, <1>4, <1>7, <2>1 DEF RestFits
  <1>10. SnapshotsInOrder' /\ SystemFits(entity', fresh', killed', listed', created', deleted')
    BY <1>1, <1>3 DEF SnapshotsInOrder
  <1>11. ~stale' => match' = Empty
    BY <1>3, <1>5 DEF IInv
  <1>12. fault' # "none" => inArena' /\ (stale' \/ (window' /\ joins' = visits'))
    BY <1>3, <1>5 DEF IInv
  <1>13. Clean' => /\ InTurn(match', commands')
                   /\ Accounts(match', commands', entity', listed', created', deleted')
    <2> SUFFICES ASSUME Clean'
                 PROVE  /\ InTurn(match', commands')
                        /\ Accounts(match', commands', entity', listed', created', deleted')
      OBVIOUS
    <2>1. joins' = visits /\ created = {} /\ deleted = {} /\ match' = Empty
          /\ \A k \in DOMAIN commands' : commands'[k].visit = visits
      BY <1>3, <1>11 DEF Clean
    <2>2. commands = <<>>
      <3> SUFFICES ASSUME commands # <<>> PROVE FALSE
        OBVIOUS
      <3>1. 1 \in DOMAIN commands /\ 1 \in DOMAIN commands' /\ commands'[1] = commands[1]
        BY <1>5, <1>7
      <3>2. commands[1].visit <= joins /\ commands[1].visit = visits
        BY <1>1, <2>1, <3>1 DEF VisitsInOrder
      <3> QED BY <1>5, <3>2
    <2>3. Len(commands) = 0
      BY <2>2
    <2>4. \A i \in Ids : Shows(Empty, commands, 0, i, None)
      BY DEF Shows, Empty
    <2>5. InTurn(Empty, commands)
      BY <2>2 DEF InTurn
    <2>6. \A i \in listed : c.shows[i] \in Entities /\ Shows(Empty, commands, Len(commands), i, None)
      BY <1>1, <1>5, <1>6, <2>3, <2>4, BoundsAssumption DEF SystemFits, Entities, None
    <2>7. InTurn(Empty, commands')
      BY <1>3, <1>5, <1>6, <2>5, <2>6, InTurnAppended
    <2>8. ASSUME NEW i \in Ids
          PROVE  /\ i \in listed => Shows(Empty, commands', Len(commands'), i, entity[i])
                 /\ i \notin listed => Shows(Empty, commands', Len(commands'), i, None)
      <3>1. /\ i \notin DOMAIN c.shows /\ Shows(Empty, commands, Len(commands), i, None)
                 => Shows(Empty, Append(commands, c), Len(commands) + 1, i, None)
            /\ i \in DOMAIN c.shows => Shows(Empty, Append(commands, c), Len(commands) + 1, i, c.shows[i])
        BY <1>5, <1>6, ShowsAppended
      <3>2. Shows(Empty, commands, Len(commands), i, None)
        BY <2>3, <2>4
      <3> QED BY <1>3, <1>6, <1>7, <3>1, <3>2
    <2>9. Accounts(Empty, commands', entity, listed, {}, {})
      BY <2>8 DEF Accounts
    <2> QED BY <1>3, <2>1, <2>7, <2>9
  <1> QED BY <1>4, <1>8, <1>9, <1>10, <1>11, <1>12, <1>13 DEF IInv

-----------------------------------------------------------------------------
(* The steps of the client *)

LEMMA EnterStep ==
  ASSUME IInv, Enter
  PROVE  IInv'
  <1>1. /\ SystemFits(entity, fresh, killed, listed, created, deleted)
        /\ RestFits /\ RequestsFit /\ SnapshotsInOrder /\ VisitsInOrder(commands, joins)
    BY DEF IInv
  <1>2. /\ UNCHANGED <<entity, fresh, killed, listed, created, deleted, lastEntity>>
        /\ UNCHANGED <<playing, joins, window, sent, commands, snapshots, fault>>
        /\ fault = "none" /\ ~inArena /\ visits < MaxVisits
        /\ inArena' = TRUE /\ visits' = visits + 1 /\ match' = Empty /\ ring' = <<>> /\ shown' = 0
        /\ stale' = FALSE /\ requests' = Append(requests, "join")
    BY DEF Enter, server, world
  <1>3. requests \in Seq({"join", "leave"}) /\ joins \in Nat /\ visits \in Nat /\ joins <= visits
    BY <1>1, InStep DEF RestFits
  <1>4. /\ requests' \in Seq({"join", "leave"}) /\ Len(requests') = Len(requests) + 1
        /\ Len(requests) \in Nat
        /\ DOMAIN requests = 1..Len(requests) /\ DOMAIN requests' = 1..Len(requests) + 1
        /\ \A k \in 1..Len(requests) : requests'[k] = requests[k]
        /\ requests'[Len(requests) + 1] = "join"
    BY <1>2, <1>3, Appended
  <1>5. One(playing) \in {0, 1} /\ One(inArena) = 0 /\ One(inArena)' = 1 /\ One(playing)' = One(playing)
    BY <1>2 DEF One
  <1>6. 2 * joins + Len(requests) = 2 * visits + One(playing)
    BY <1>1, <1>3, <1>4, <1>5 DEF RequestsFit
  <1>7. (Len(requests) + 1 + One(playing)) % 2 = 1
    <2> DEFINE n == Len(requests)  p == One(playing)
    <2>1. n \in Nat /\ p \in {0, 1} /\ 2 * joins + n = 2 * visits + p
      BY <1>4, <1>5, <1>6
    <2> HIDE DEF n, p
    <2>2. n + 1 + p = 2 * (visits - joins + p) + 1
      BY <1>3, <2>1
    <2>3. (n + 1 + p) % 2 = 1
      BY <1>3, <2>1, <2>2
    <2> QED BY <2>3 DEF n, p
  <1>8. RequestsFit'
    <2>1. 2 * joins' + Len(requests') + One(inArena)' = 2 * visits' + One(playing)'
      <3> DEFINE n == Len(requests)  p == One(playing)
      <3>1. n \in Nat /\ p \in {0, 1} /\ 2 * joins + n = 2 * visits + p
        BY <1>4, <1>5, <1>6
      <3> HIDE DEF n, p
      <3>2. 2 * joins + (n + 1) + 1 = 2 * (visits + 1) + p
        BY <1>3, <3>1
      <3> QED BY <1>2, <1>4, <1>5, <3>2 DEF n, p
    <2>2. ASSUME NEW k \in DOMAIN requests'
          PROVE  requests'[k] = "join" <=> (k + One(playing)') % 2 = 1
      <3>1. CASE k = Len(requests) + 1
        BY <1>4, <1>5, <1>7, <3>1
      <3>2. CASE k # Len(requests) + 1
        <4>1. k \in DOMAIN requests /\ requests'[k] = requests[k]
          BY <1>4, <3>2
        <4>2. requests[k] = "join" <=> (k + One(playing)) % 2 = 1
          BY <1>1, <4>1 DEF RequestsFit
        <4> QED BY <1>5, <4>1, <4>2
      <3> QED BY <3>1, <3>2
    <2> QED BY <2>1, <2>2 DEF RequestsFit
  <1>9. RestFits'
    <2>1. visits' \in 0..MaxVisits /\ shown' \in 0..MaxSnapshots
      BY <1>2, <1>3, BoundsAssumption
    <2>2. ring' \in Seq(0..MaxSnapshots) /\ Len(ring') <= Capacity
      BY <1>2, BoundsAssumption
    <2>3. match' \in [Ids -> 0..MaxEntities]
      BY <1>2, BoundsAssumption DEF Empty, None
    <2> QED BY <1>1, <1>2, <1>4, <2>1, <2>2, <2>3 DEF RestFits
  <1>10. SnapshotsInOrder'
    <2>1. DOMAIN ring' = {} /\ shown' = 0 /\ UNCHANGED <<sent, snapshots>>
      BY <1>2
    <2>2. sent \in 0..MaxSnapshots /\ \A k \in DOMAIN snapshots : snapshots[k] \in 0..MaxSnapshots
      <3>1. snapshots \in Seq(0..MaxSnapshots) /\ sent \in 0..MaxSnapshots
        BY <1>1 DEF RestFits
      <3>2. \A k \in DOMAIN snapshots : snapshots[k] \in 0..MaxSnapshots
        BY <3>1, Elements, Zenon
      <3> QED BY <3>1, <3>2
    <2>3. shown' <= sent' /\ \A k \in DOMAIN snapshots : shown' <= snapshots[k]
      BY <2>1, <2>2
    <2> QED BY <1>1, <2>1, <2>3 DEF SnapshotsInOrder
  <1>11. SystemFits(entity', fresh', killed', listed', created', deleted') /\ VisitsInOrder(commands', joins')
    BY <1>1, <1>2
  <1>12. ~Clean'
    BY <1>2, <1>3 DEF Clean
  <1> QED BY <1>2, <1>8, <1>9, <1>10, <1>11, <1>12 DEF IInv

LEMMA LeaveStep ==
  ASSUME IInv, Leave
  PROVE  IInv'
  <1>1. /\ SystemFits(entity, fresh, killed, listed, created, deleted)
        /\ RestFits /\ RequestsFit /\ SnapshotsInOrder /\ VisitsInOrder(commands, joins)
    BY DEF IInv
  <1>2. /\ UNCHANGED <<entity, fresh, killed, listed, created, deleted, lastEntity>>
        /\ UNCHANGED <<playing, joins, window, sent, commands, snapshots, visits, fault, stale, shown>>
        /\ fault = "none" /\ inArena /\ inArena' = FALSE /\ match' = Empty /\ ring' = <<>>
        /\ requests' = Append(requests, "leave")
    BY DEF Leave, server, world
  <1>3. requests \in Seq({"join", "leave"}) /\ joins \in Nat /\ visits \in Nat /\ joins <= visits
    BY <1>1, InStep DEF RestFits
  <1>4. /\ requests' \in Seq({"join", "leave"}) /\ Len(requests') = Len(requests) + 1
        /\ Len(requests) \in Nat
        /\ DOMAIN requests = 1..Len(requests) /\ DOMAIN requests' = 1..Len(requests) + 1
        /\ \A k \in 1..Len(requests) : requests'[k] = requests[k]
        /\ requests'[Len(requests) + 1] = "leave"
    BY <1>2, <1>3, Appended
  <1>5. One(playing) \in {0, 1} /\ One(inArena) = 1 /\ One(inArena)' = 0 /\ One(playing)' = One(playing)
    BY <1>2 DEF One
  <1>6. 2 * joins + Len(requests) + 1 = 2 * visits + One(playing)
    BY <1>1, <1>5 DEF RequestsFit
  <1>7. (Len(requests) + 1 + One(playing)) % 2 = 0
    <2> DEFINE n == Len(requests)  p == One(playing)
    <2>1. n \in Nat /\ p \in {0, 1} /\ 2 * joins + n + 1 = 2 * visits + p
      BY <1>4, <1>5, <1>6
    <2> HIDE DEF n, p
    <2>2. n + 1 + p = 2 * (visits - joins + p)
      BY <1>3, <2>1
    <2>3. (n + 1 + p) % 2 = 0
      BY <1>3, <2>1, <2>2
    <2> QED BY <2>3 DEF n, p
  <1>8. RequestsFit'
    <2>1. 2 * joins' + Len(requests') + One(inArena)' = 2 * visits' + One(playing)'
      <3> DEFINE n == Len(requests)  p == One(playing)
      <3>1. n \in Nat /\ p \in {0, 1} /\ 2 * joins + n + 1 = 2 * visits + p
        BY <1>4, <1>5, <1>6
      <3> HIDE DEF n, p
      <3>2. 2 * joins + (n + 1) + 0 = 2 * visits + p
        BY <1>3, <3>1
      <3> QED BY <1>2, <1>4, <1>5, <3>2 DEF n, p
    <2>2. ASSUME NEW k \in DOMAIN requests'
          PROVE  requests'[k] = "join" <=> (k + One(playing)') % 2 = 1
      <3>1. CASE k = Len(requests) + 1
        BY <1>4, <1>5, <1>7, <3>1
      <3>2. CASE k # Len(requests) + 1
        <4>1. k \in DOMAIN requests /\ requests'[k] = requests[k]
          BY <1>4, <3>2
        <4>2. requests[k] = "join" <=> (k + One(playing)) % 2 = 1
          BY <1>1, <4>1 DEF RequestsFit
        <4> QED BY <1>5, <4>1, <4>2
      <3> QED BY <3>1, <3>2
    <2> QED BY <2>1, <2>2 DEF RequestsFit
  <1>9. RestFits'
    <2>1. ring' \in Seq(0..MaxSnapshots) /\ Len(ring') <= Capacity
      BY <1>2, BoundsAssumption
    <2>2. match' \in [Ids -> 0..MaxEntities]
      BY <1>2, BoundsAssumption DEF Empty, None
    <2> QED BY <1>1, <1>2, <1>4, <2>1, <2>2 DEF RestFits
  <1>10. SnapshotsInOrder'
    <2>1. DOMAIN ring' = {} /\ UNCHANGED <<sent, snapshots, shown>>
      BY <1>2
    <2> QED BY <1>1, <2>1 DEF SnapshotsInOrder
  <1>11. SystemFits(entity', fresh', killed', listed', created', deleted') /\ VisitsInOrder(commands', joins')
    BY <1>1, <1>2
  <1>12. ~Clean'
    BY <1>2 DEF Clean
  <1> QED BY <1>2, <1>8, <1>9, <1>10, <1>11, <1>12 DEF IInv

\* A command is read.  The first of a client that is accounted for comes in turn;
\* any other is of an earlier visit, or follows a join between a change and its
\* broadcast.
LEMMA OnCommandStep ==
  ASSUME IInv, OnCommand
  PROVE  IInv'
  <1>1. /\ SystemFits(entity, fresh, killed, listed, created, deleted)
        /\ RestFits /\ RequestsFit /\ SnapshotsInOrder /\ VisitsInOrder(commands, joins)
    BY DEF IInv
  <1> DEFINE c == Head(commands)
  <1>2. /\ UNCHANGED <<entity, fresh, killed, listed, created, deleted, lastEntity>>
        /\ UNCHANGED <<playing, joins, window, sent>>
        /\ UNCHANGED <<requests, snapshots, visits, inArena, ring, shown>>
        /\ fault = "none" /\ commands # <<>> /\ commands' = Tail(commands)
        /\ inArena => /\ fault' = FaultOf(c) /\ match' = ApplyCommand(c.shows, match)
                      /\ stale' = (stale \/ c.visit < visits)
        /\ ~inArena => UNCHANGED <<fault, match, stale>>
    BY DEF OnCommand, server, world
  <1>3. commands \in Seq(Packets) /\ joins \in Nat /\ visits \in Nat /\ joins <= visits
        /\ match \in [Ids -> 0..MaxEntities]
    <2>1. commands \in Seq(Packets) /\ match \in [Ids -> 0..MaxEntities]
      BY <1>1 DEF RestFits
    <2> QED BY <1>1, <2>1, InStep
  <1>4. /\ commands' \in Seq(Packets) /\ Len(commands') = Len(commands) - 1 /\ Len(commands) \in Nat \ {0}
        /\ DOMAIN commands = 1..Len(commands) /\ DOMAIN commands' = 1..Len(commands) - 1
        /\ \A k \in 1..Len(commands) - 1 : commands'[k] = commands[k + 1]
        /\ c = commands[1] /\ c \in Packets
    BY <1>2, <1>3, Tailed
  <1> HIDE DEF c
  <1>5. \A k \in DOMAIN commands' : k + 1 \in DOMAIN commands /\ commands'[k] = commands[k + 1]
    BY <1>4
  <1>6. VisitsInOrder(commands', joins')
    <2>1. \A k \in DOMAIN commands' : commands'[k].visit <= joins'
      BY <1>1, <1>2, <1>5 DEF VisitsInOrder
    <2>2. ASSUME NEW j \in DOMAIN commands', NEW k \in DOMAIN commands', j <= k
          PROVE  commands'[j].visit <= commands'[k].visit
      <3>1. j + 1 <= k + 1
        BY <1>4, <2>2
      <3> QED BY <1>1, <1>5, <3>1 DEF VisitsInOrder
    <2> QED BY <2>1, <2>2 DEF VisitsInOrder
  <1>7. match' \in [Ids -> 0..MaxEntities]
    <2>1. CASE inArena
      <3>1. c.shows \in Views
        BY <1>4 DEF Packets
      <3>2. PICK ids \in SUBSET Ids : c.shows \in [ids -> 0..MaxEntities]
        BY <3>1 DEF Views
      <3>3. \A i \in DOMAIN c.shows : c.shows[i] \in 0..MaxEntities
        BY <3>2
      <3> QED BY <1>2, <1>3, <2>1, <3>3 DEF ApplyCommand
    <2>2. CASE ~inArena
      BY <1>2, <1>3, <2>2
    <2> QED BY <2>1, <2>2
  <1>8. fault' \in {"none", "created twice", "unknown deleted"} /\ stale' \in BOOLEAN
    <2>1. CASE inArena
      <3>1. FaultOf(c) \in {"none", "created twice", "unknown deleted"}
        BY DEF FaultOf
      <3>2. fault' = FaultOf(c) /\ stale' = (stale \/ c.visit < visits)
        BY <1>2, <2>1
      <3> QED BY <3>1, <3>2
    <2>2. CASE ~inArena
      BY <1>1, <1>2, <2>2 DEF RestFits
    <2> QED BY <2>1, <2>2
  <1>9. RestFits'
    <2>1. Len(commands') <= MaxInFlight
      <3>1. Len(commands) <= MaxInFlight /\ MaxInFlight \in Nat
        BY <1>1, BoundsAssumption DEF RestFits
      <3> QED BY <1>4, <3>1
    <2> QED BY <1>1, <1>2, <1>4, <1>7, <1>8, <2>1 DEF RestFits
  <1>10. RequestsFit' /\ SnapshotsInOrder'
         /\ SystemFits(entity', fresh', killed', listed', created', deleted')
    BY <1>1, <1>2 DEF RequestsFit, SnapshotsInOrder
  <1>11. c.visit \in Nat /\ c.visit <= joins
    <2>1. 1 \in DOMAIN commands
      BY <1>4
    <2> QED BY <1>1, <1>4, <2>1 DEF VisitsInOrder, Packets
  \* What is read in the visit it was sent for follows the last join.
  <1>12. ASSUME inArena, ~stale' PROVE ~stale /\ joins = visits /\ c.visit = visits
    <2>1. ~stale /\ ~(c.visit < visits)
      BY <1>2, <1>12
    <2> QED BY <1>3, <1>11, <2>1
  <1>13. ASSUME inArena, ~stale', ~window PROVE Clean
    <2>1. ~stale /\ joins = visits /\ c.visit = visits
      BY <1>12, <1>13
    <2>2. ASSUME NEW k \in DOMAIN commands PROVE commands[k].visit = visits
      <3>1. 1 \in DOMAIN commands /\ 1 <= k /\ commands[k] \in Packets
        BY <1>3, <1>4
      <3>2. commands[1].visit <= commands[k].visit /\ commands[k].visit <= joins /\ commands[k].visit \in Nat
        BY <1>1, <3>1 DEF VisitsInOrder, Packets
      <3> QED BY <1>3, <1>4, <2>1, <3>2
    <2> QED BY <1>2, <1>13, <2>1, <2>2 DEF Clean
  <1>14. Clean => InTurn(match, commands)
                  /\ Accounts(match, commands, entity, listed, created, deleted)
    BY DEF IInv
  <1>15. (~stale' /\ joins' < visits') => match' = Empty
    <2>1. CASE inArena
      BY <1>2, <1>3, <1>12, <2>1
    <2>2. CASE ~inArena
      BY <1>2, <2>2 DEF IInv
    <2> QED BY <2>1, <2>2
  <1>16. fault' # "none" => inArena' /\ (stale' \/ (window' /\ joins' = visits'))
    <2>1. CASE inArena
      <3> SUFFICES ASSUME fault' # "none", ~stale' PROVE window /\ joins = visits
        BY <1>2, <2>1
      <3>1. joins = visits
        BY <1>12, <2>1
      <3>2. window
        <4> SUFFICES ASSUME ~window PROVE FALSE
          OBVIOUS
        <4>1. FaultOf(c) = "none"
          <5>1. InTurn(match, commands)
            BY <1>13, <1>14, <2>1
          <5> QED BY <1>2, <1>3, <5>1, FirstInTurn DEF c
        <4> QED BY <1>2, <2>1, <4>1
      <3> QED BY <3>1, <3>2
    <2>2. CASE ~inArena
      BY <1>2, <2>2
    <2> QED BY <2>1, <2>2
  <1>17. Clean' => /\ InTurn(match', commands')
                   /\ Accounts(match', commands', entity', listed', created', deleted')
    <2> SUFFICES ASSUME Clean'
                 PROVE  /\ InTurn(match', commands')
                        /\ Accounts(match', commands', entity', listed', created', deleted')
      OBVIOUS
    <2>1. inArena /\ ~stale' /\ ~window
      BY <1>2 DEF Clean
    <2>2. InTurn(match, commands) /\ Accounts(match, commands, entity, listed, created, deleted)
      BY <1>13, <1>14, <2>1
    <2>3. match' = ApplyCommand(Head(commands).shows, match) /\ commands' = Tail(commands)
      BY <1>2, <2>1 DEF c
    <2>4. InTurn(match', commands')
      BY <1>2, <1>3, <2>2, <2>3, InTurnTail
    <2>5. Accounts(match', commands', entity, listed, created, deleted)
      BY <1>2, <1>3, <2>2, <2>3, AccountsTail
    <2> QED BY <1>2, <2>4, <2>5
  <1> QED BY <1>6, <1>9, <1>10, <1>15, <1>16, <1>17 DEF IInv

\* A step of the snapshots alone, or none.
LEMMA SnapshotStep ==
  ASSUME IInv, RestFits', SnapshotsInOrder',
         UNCHANGED <<entity, fresh, killed, listed, created, deleted, playing, joins, window>>,
         UNCHANGED <<requests, commands, visits, inArena, match, fault, stale>>
  PROVE  IInv'
  <1>1. RequestsFit' /\ VisitsInOrder(commands', joins')
        /\ SystemFits(entity', fresh', killed', listed', created', deleted')
    BY DEF IInv, RequestsFit
  <1>2. /\ ~stale' /\ joins' < visits' => match' = Empty
        /\ fault' # "none" => inArena' /\ (stale' \/ (window' /\ joins' = visits'))
    BY DEF IInv
  <1>3. Clean' => Clean
    BY DEF Clean
  <1>4. Clean' => /\ InTurn(match', commands')
                  /\ Accounts(match', commands', entity', listed', created', deleted')
    BY <1>3 DEF IInv
  <1> QED BY <1>1, <1>2, <1>4 DEF IInv

\* What the numbers of the snapshots are.
LEMMA Numbers ==
  ASSUME RestFits
  PROVE  /\ snapshots \in Seq(0..MaxSnapshots) /\ ring \in Seq(0..MaxSnapshots)
         /\ sent \in Nat /\ shown \in Nat
         /\ \A k \in DOMAIN snapshots : snapshots[k] \in Nat
         /\ \A k \in DOMAIN ring : ring[k] \in Nat
  <1>1. snapshots \in Seq(0..MaxSnapshots) /\ ring \in Seq(0..MaxSnapshots)
    BY DEF RestFits
  <1>2. 0..MaxSnapshots \subseteq Nat
    BY BoundsAssumption
  <1>3. sent \in 0..MaxSnapshots /\ shown \in 0..MaxSnapshots
    BY DEF RestFits
  <1>4. /\ \A k \in DOMAIN snapshots : snapshots[k] \in 0..MaxSnapshots
        /\ \A k \in DOMAIN ring : ring[k] \in 0..MaxSnapshots
    BY <1>1, Elements, Zenon
  <1> QED BY <1>1, <1>2, <1>3, <1>4, Zenon

LEMMA LoseSnapshotStep ==
  ASSUME IInv, LoseSnapshot
  PROVE  IInv'
  <1>1. RestFits /\ SnapshotsInOrder
    BY DEF IInv
  <1>2. /\ UNCHANGED <<entity, fresh, killed, listed, created, deleted, playing, joins, window>>
        /\ UNCHANGED <<requests, commands, visits, inArena, match, fault, stale>>
        /\ UNCHANGED <<ring, shown, sent, lastEntity>>
        /\ snapshots # <<>> /\ snapshots' = Tail(snapshots)
    BY DEF LoseSnapshot, server, world, client
  <1>3. /\ snapshots' \in Seq(0..MaxSnapshots) /\ Len(snapshots') = Len(snapshots) - 1
        /\ Len(snapshots) \in Nat \ {0}
        /\ DOMAIN snapshots = 1..Len(snapshots) /\ DOMAIN snapshots' = 1..Len(snapshots) - 1
        /\ \A k \in 1..Len(snapshots) - 1 : snapshots'[k] = snapshots[k + 1]
    BY <1>1, <1>2, Numbers, Tailed
  <1>4. \A k \in DOMAIN snapshots' : k \in Nat /\ k + 1 \in DOMAIN snapshots /\ snapshots'[k] = snapshots[k + 1]
    BY <1>3
  <1>5. SnapshotsInOrder'
    <2>1. \A k \in DOMAIN snapshots' : shown <= snapshots'[k] /\ snapshots'[k] <= sent
      BY <1>1, <1>4 DEF SnapshotsInOrder
    <2>2. ASSUME NEW j \in DOMAIN snapshots', NEW k \in DOMAIN snapshots', j <= k
          PROVE  snapshots'[j] <= snapshots'[k]
      <3>1. j + 1 <= k + 1
        BY <1>4, <2>2
      <3> QED BY <1>1, <1>4, <3>1 DEF SnapshotsInOrder
    <2>3. \A j \in DOMAIN ring, k \in DOMAIN snapshots' : ring[j] <= snapshots'[k]
      BY <1>1, <1>4 DEF SnapshotsInOrder
    <2> QED BY <1>1, <1>2, <2>1, <2>2, <2>3 DEF SnapshotsInOrder
  <1>6. RestFits'
    <2>1. Len(snapshots') <= MaxInFlight
      <3>1. Len(snapshots) <= MaxInFlight /\ MaxInFlight \in Nat
        BY <1>1, BoundsAssumption DEF RestFits
      <3> QED BY <1>3, <3>1
    <2> QED BY <1>1, <1>2, <1>3, <2>1 DEF RestFits
  <1> QED BY <1>2, <1>5, <1>6, SnapshotStep

\* The one that arrives is the first of those under way, and not before any of the ring.
LEMMA OnArenaStateStep ==
  ASSUME IInv, OnArenaState
  PROVE  IInv'
  <1>1. RestFits /\ SnapshotsInOrder
    BY DEF IInv
  <1> DEFINE older == IF Len(ring) = Capacity THEN Tail(ring) ELSE ring
             arrived == Head(snapshots)
  <1>2. /\ UNCHANGED <<entity, fresh, killed, listed, created, deleted, playing, joins, window>>
        /\ UNCHANGED <<requests, commands, visits, inArena, match, fault, stale>>
        /\ UNCHANGED <<shown, sent, lastEntity>>
        /\ snapshots # <<>> /\ snapshots' = Tail(snapshots)
        /\ ring' = IF ~inArena THEN ring ELSE Append(older, arrived)
    BY DEF OnArenaState, server, world
  <1>3. /\ snapshots' \in Seq(0..MaxSnapshots) /\ Len(snapshots') = Len(snapshots) - 1
        /\ Len(snapshots) \in Nat \ {0}
        /\ DOMAIN snapshots = 1..Len(snapshots) /\ DOMAIN snapshots' = 1..Len(snapshots) - 1
        /\ \A k \in 1..Len(snapshots) - 1 : snapshots'[k] = snapshots[k + 1]
        /\ arrived = snapshots[1] /\ arrived \in 0..MaxSnapshots
    BY <1>1, <1>2, Numbers, Tailed
  <1>4. /\ \A k \in DOMAIN snapshots' : k \in Nat /\ k + 1 \in DOMAIN snapshots /\ snapshots'[k] = snapshots[k + 1]
        /\ 1 \in DOMAIN snapshots
    BY <1>3
  <1>5. ring \in Seq(0..MaxSnapshots) /\ Capacity \in Nat \ {0} /\ Len(ring) \in Nat /\ Len(ring) <= Capacity
    <2>1. ring \in Seq(0..MaxSnapshots) /\ Len(ring) <= Capacity
      BY <1>1 DEF RestFits
    <2> QED BY <2>1, BoundsAssumption
  \* The rest of a full ring is in order like the ring.
  <1>6. /\ older \in Seq(0..MaxSnapshots) /\ Len(older) < Capacity
        /\ \E s \in {0, 1} : \A k \in DOMAIN older : k + s \in DOMAIN ring /\ older[k] = ring[k + s]
    <2>1. CASE Len(ring) = Capacity
      <3>1. ring # <<>>
        BY <1>5, <2>1
      <3>2. /\ Tail(ring) \in Seq(0..MaxSnapshots) /\ Len(Tail(ring)) = Len(ring) - 1
            /\ DOMAIN ring = 1..Len(ring) /\ DOMAIN Tail(ring) = 1..Len(ring) - 1
            /\ \A k \in 1..Len(ring) - 1 : Tail(ring)[k] = ring[k + 1]
        BY <1>5, <3>1, Tailed
      <3>3. \A k \in DOMAIN Tail(ring) : k + 1 \in DOMAIN ring /\ Tail(ring)[k] = ring[k + 1]
        BY <1>5, <3>2
      <3>4. older = Tail(ring) /\ 1 \in {0, 1} /\ Len(Tail(ring)) < Capacity
        BY <1>5, <2>1, <3>2
      <3> QED BY <3>2, <3>3, <3>4
    <2>2. CASE Len(ring) # Capacity
      <3>1. older = ring /\ Len(ring) < Capacity /\ 0 \in {0, 1}
        BY <1>5, <2>2
      <3>2. \A k \in DOMAIN ring : k + 0 \in DOMAIN ring /\ ring[k] = ring[k + 0]
        BY <1>5
      <3> QED BY <1>5, <3>1, <3>2
    <2> QED BY <2>1, <2>2
  <1> HIDE DEF older, arrived
  <1>7. PICK s \in {0, 1} : \A k \in DOMAIN older : k + s \in DOMAIN ring /\ older[k] = ring[k + s]
    BY <1>6
  <1> DEFINE longer == Append(older, arrived)
  <1>8. /\ longer \in Seq(0..MaxSnapshots) /\ Len(longer) = Len(older) + 1 /\ Len(older) \in Nat
        /\ DOMAIN older = 1..Len(older) /\ DOMAIN longer = 1..Len(older) + 1
        /\ \A k \in 1..Len(older) : longer[k] = older[k]
        /\ longer[Len(older) + 1] = arrived
    BY <1>3, <1>6, Appended
  <1> HIDE DEF longer
  <1>9. /\ \A k \in DOMAIN snapshots' : arrived <= snapshots'[k]
        /\ \A k \in DOMAIN snapshots' : shown <= snapshots'[k] /\ snapshots'[k] <= sent
        /\ \A j, k \in DOMAIN snapshots' : j <= k => snapshots'[j] <= snapshots'[k]
        /\ \A j \in DOMAIN ring, k \in DOMAIN snapshots' : ring[j] <= snapshots'[k]
    <2>1. \A k \in DOMAIN snapshots' : 1 <= k + 1
      BY <1>4
    <2>2. \A j, k \in DOMAIN snapshots' : j <= k => j + 1 <= k + 1
      BY <1>4
    <2> QED BY <1>1, <1>3, <1>4, <2>1, <2>2 DEF SnapshotsInOrder
  <1>10. /\ \A k \in DOMAIN longer : shown <= longer[k] /\ longer[k] <= sent
         /\ \A j, k \in DOMAIN longer : j <= k => longer[j] <= longer[k]
         /\ \A j \in DOMAIN longer, k \in DOMAIN snapshots' : longer[j] <= snapshots'[k]
    <2>1. shown <= arrived /\ arrived <= sent /\ \A j \in DOMAIN ring : ring[j] <= arrived
      BY <1>1, <1>3, <1>4 DEF SnapshotsInOrder
    <2>2. ASSUME NEW k \in DOMAIN longer
          PROVE  \/ k = Len(older) + 1 /\ longer[k] = arrived
                 \/ k \in DOMAIN older /\ k + s \in DOMAIN ring /\ longer[k] = ring[k + s]
      <3>1. CASE k = Len(older) + 1
        BY <1>8, <3>1
      <3>2. CASE k # Len(older) + 1
        <4>1. k \in 1..Len(older)
          BY <1>8, <3>2
        <4> QED BY <1>7, <1>8, <4>1
      <3> QED BY <3>1, <3>2
    <2>3. \A k \in DOMAIN longer : shown <= longer[k] /\ longer[k] <= sent
      BY <1>1, <2>1, <2>2 DEF SnapshotsInOrder
    <2>4. ASSUME NEW j \in DOMAIN longer, NEW k \in DOMAIN longer, j <= k PROVE longer[j] <= longer[k]
      <3>0. arrived <= arrived
        BY <1>3
      <3>1. CASE k = Len(older) + 1
        BY <1>8, <2>1, <2>2, <3>0, <3>1
      <3>2. CASE k # Len(older) + 1
        <4>1. j \in DOMAIN older /\ k \in DOMAIN older
          BY <1>8, <2>4, <3>2
        <4>2. j + s <= k + s /\ j + s \in DOMAIN ring /\ k + s \in DOMAIN ring
          BY <1>7, <1>8, <2>4, <4>1
        <4>3. longer[j] = ring[j + s] /\ longer[k] = ring[k + s]
          BY <1>7, <1>8, <4>1
        <4> QED BY <1>1, <4>2, <4>3 DEF SnapshotsInOrder
      <3> QED BY <3>1, <3>2
    <2>5. \A j \in DOMAIN longer, k \in DOMAIN snapshots' : longer[j] <= snapshots'[k]
      BY <1>9, <2>2
    <2> QED BY <2>3, <2>4, <2>5
  <1>11. SnapshotsInOrder'
    <2>1. CASE inArena
      <3>1. ring' = longer
        BY <1>2, <2>1 DEF longer
      <3> QED BY <1>1, <1>2, <1>9, <1>10, <3>1 DEF SnapshotsInOrder
    <2>2. CASE ~inArena
      <3>1. ring' = ring
        BY <1>2, <2>2
      <3> QED BY <1>1, <1>2, <1>9, <3>1 DEF SnapshotsInOrder
    <2> QED BY <2>1, <2>2
  <1>12. RestFits'
    <2>1. Len(snapshots') <= MaxInFlight
      <3>1. Len(snapshots) <= MaxInFlight /\ MaxInFlight \in Nat
        BY <1>1, BoundsAssumption DEF RestFits
      <3> QED BY <1>3, <3>1
    <2>2. ring' \in Seq(0..MaxSnapshots) /\ Len(ring') <= Capacity
      <3>1. CASE inArena
        <4>1. ring' = longer
          BY <1>2, <3>1 DEF longer
        <4>2. Len(longer) <= Capacity
          BY <1>5, <1>6, <1>8
        <4> QED BY <1>8, <4>1, <4>2
      <3>2. CASE ~inArena
        BY <1>2, <1>5, <3>2
      <3> QED BY <3>1, <3>2
    <2> QED BY <1>1, <1>2, <1>3, <2>1, <2>2 DEF RestFits
  <1> QED BY <1>2, <1>11, <1>12, SnapshotStep

\* The first of the ring is applied, the last one leaves it.
LEMMA ApplySnapshotStep ==
  ASSUME IInv, ApplySnapshot
  PROVE  IInv' /\ shown' >= shown
  <1>1. RestFits /\ SnapshotsInOrder
    BY DEF IInv
  <1>2. /\ UNCHANGED <<entity, fresh, killed, listed, created, deleted, playing, joins, window>>
        /\ UNCHANGED <<requests, commands, visits, inArena, match, fault, stale>>
        /\ UNCHANGED <<snapshots, sent, lastEntity>>
        /\ ring # <<>> /\ ring' = Front(ring) /\ shown' = Head(ring)
    BY DEF ApplySnapshot, server, world, network
  <1>3. ring \in Seq(0..MaxSnapshots) /\ shown \in Nat
    BY <1>1, Numbers
  <1>4. /\ ring' \in Seq(0..MaxSnapshots) /\ Len(ring') = Len(ring) - 1 /\ Len(ring) \in Nat \ {0}
        /\ DOMAIN ring = 1..Len(ring) /\ DOMAIN ring' = 1..Len(ring) - 1
        /\ \A k \in 1..Len(ring) - 1 : ring'[k] = ring[k]
    BY <1>2, <1>3, Fronted
  <1>5. shown' = ring[1] /\ ring[1] \in 0..MaxSnapshots /\ 1 \in DOMAIN ring
    <2>1. 1 \in DOMAIN ring /\ Head(ring) = ring[1]
      BY <1>3, <1>4
    <2>2. \A k \in DOMAIN ring : ring[k] \in 0..MaxSnapshots
      BY <1>3, Elements, Zenon
    <2> QED BY <1>2, <2>1, <2>2
  <1>6. \A k \in DOMAIN ring' : k \in DOMAIN ring /\ 1 <= k /\ ring'[k] = ring[k]
    BY <1>4
  <1>7. shown <= shown' /\ shown' <= sent
    BY <1>1, <1>5 DEF SnapshotsInOrder
  <1>8. SnapshotsInOrder'
    <2>1. \A k \in DOMAIN snapshots : shown' <= snapshots[k]
      BY <1>1, <1>5 DEF SnapshotsInOrder
    <2>2. \A k \in DOMAIN ring' : shown' <= ring'[k]
      BY <1>1, <1>5, <1>6 DEF SnapshotsInOrder
    <2>3. /\ \A k \in DOMAIN ring' : ring'[k] <= sent
          /\ \A j, k \in DOMAIN ring' : j <= k => ring'[j] <= ring'[k]
          /\ \A j \in DOMAIN ring', k \in DOMAIN snapshots : ring'[j] <= snapshots[k]
      BY <1>1, <1>6 DEF SnapshotsInOrder
    <2> QED BY <1>1, <1>2, <1>7, <2>1, <2>2, <2>3 DEF SnapshotsInOrder
  <1>9. RestFits'
    <2>1. Len(ring') <= Capacity
      <3>1. Len(ring) <= Capacity /\ Capacity \in Nat
        BY <1>1, BoundsAssumption DEF RestFits
      <3> QED BY <1>4, <3>1
    <2> QED BY <1>1, <1>2, <1>4, <1>5, <2>1 DEF RestFits
  <1>10. IInv'
    BY <1>2, <1>8, <1>9, SnapshotStep
  <1>11. shown' >= shown
    BY <1>3, <1>5, <1>7
  <1> QED BY <1>10, <1>11

-----------------------------------------------------------------------------
(* The theorems *)

LEMMA InitInvariant == Init => IInv
  <1> SUFFICES ASSUME Init PROVE IInv
    OBVIOUS
  <1>1. /\ entity = Empty /\ match = Empty
        /\ fresh = {} /\ killed = {} /\ listed = {} /\ created = {} /\ deleted = {}
        /\ requests = <<>> /\ commands = <<>> /\ snapshots = <<>> /\ ring = <<>>
        /\ lastEntity = 0 /\ joins = 0 /\ visits = 0 /\ sent = 0 /\ shown = 0
        /\ playing = FALSE /\ inArena = FALSE /\ fault = "none" /\ stale = FALSE /\ window = FALSE
    BY DEF Init
  <1>2. Empty \in [Ids -> 0..MaxEntities]
    BY BoundsAssumption DEF Empty, None
  <1>3. SystemFits(entity, fresh, killed, listed, created, deleted)
    BY <1>1, <1>2 DEF SystemFits
  <1>4. RestFits
    <2>1. /\ requests \in Seq({"join", "leave"}) /\ commands \in Seq(Packets)
          /\ snapshots \in Seq(0..MaxSnapshots) /\ ring \in Seq(0..MaxSnapshots)
      BY <1>1
    <2>2. Len(commands) <= MaxInFlight /\ Len(snapshots) <= MaxInFlight /\ Len(ring) <= Capacity
      BY <1>1, BoundsAssumption
    <2>3. lastEntity \in 0..MaxEntities /\ sent \in 0..MaxSnapshots /\ shown \in 0..MaxSnapshots
          /\ visits \in 0..MaxVisits /\ joins \in 0..MaxVisits
      BY <1>1, BoundsAssumption
    <2>4. playing \in BOOLEAN /\ inArena \in BOOLEAN /\ window \in BOOLEAN /\ stale \in BOOLEAN
          /\ fault \in {"none", "created twice", "unknown deleted"}
          /\ match \in [Ids -> 0..MaxEntities]
      BY <1>1, <1>2
    <2> QED BY <2>1, <2>2, <2>3, <2>4 DEF RestFits
  <1>5. RequestsFit /\ SnapshotsInOrder /\ VisitsInOrder(commands, joins)
    BY <1>1 DEF RequestsFit, One, SnapshotsInOrder, VisitsInOrder
  <1>6. ~Clean
    BY <1>1 DEF Clean
  <1> QED BY <1>1, <1>3, <1>4, <1>5, <1>6 DEF IInv

LEMMA StutterStep == IInv /\ UNCHANGED vars => IInv'
  <1> SUFFICES ASSUME IInv, UNCHANGED vars PROVE IInv'
    OBVIOUS
  <1>1. /\ UNCHANGED <<entity, fresh, killed, listed, created, deleted, playing, joins, window>>
        /\ UNCHANGED <<requests, commands, visits, inArena, match, fault, stale>>
        /\ UNCHANGED <<snapshots, ring, shown, sent, lastEntity>>
    BY DEF vars, server, world, network, client
  <1>2. RestFits' /\ SnapshotsInOrder'
    BY <1>1 DEF IInv, RestFits, SnapshotsInOrder
  <1> QED BY <1>1, <1>2, SnapshotStep

LEMMA StepInvariant == IInv /\ [Next]_vars => IInv'
  <1> SUFFICES ASSUME IInv, [Next]_vars PROVE IInv'
    OBVIOUS
  <1>1. CASE CreateEntity
    BY <1>1, CreateEntityStep
  <1>2. CASE \E id \in Ids : Kill(id)
    BY <1>2, KillStep
  <1>3. CASE Update
    BY <1>3, UpdateStep
  <1>4. CASE Broadcast
    BY <1>4, BroadcastStep
  <1>5. CASE Reset
    BY <1>5, ResetStep
  <1>6. CASE HandleJoinArena
    BY <1>6, HandleJoinArenaStep
  <1>7. CASE HandleLeaveArena
    BY <1>7, HandleLeaveArenaStep
  <1>8. CASE Enter
    BY <1>8, EnterStep
  <1>9. CASE Leave
    BY <1>9, LeaveStep
  <1>10. CASE OnCommand
    BY <1>10, OnCommandStep
  <1>11. CASE OnArenaState
    BY <1>11, OnArenaStateStep
  <1>12. CASE LoseSnapshot
    BY <1>12, LoseSnapshotStep
  <1>13. CASE ApplySnapshot
    BY <1>13, ApplySnapshotStep
  <1>14. CASE UNCHANGED vars
    BY <1>14, StutterStep
  <1> QED BY <1>1, <1>2, <1>3, <1>4, <1>5, <1>6, <1>7, <1>8, <1>9, <1>10, <1>11, <1>12, <1>13, <1>14
          DEF Next

\* The requests, the commands and the snapshots under way, the bitsets and what
\* the client shows fit together.
THEOREM Invariant == Spec => []IInv
  BY InitInvariant, StepInvariant, PTL DEF Spec

\* The variables have their types: what the system lists exists, and the rings
\* and channels hold their bounds.
THEOREM TypeCorrect == Spec => []TypeOK
  <1>1. IInv => TypeOK
    <2> SUFFICES ASSUME IInv PROVE TypeOK
      OBVIOUS
    <2>1. /\ entity \in [Ids -> 0..MaxEntities]
          /\ fresh \subseteq Occupied /\ killed \subseteq Occupied /\ listed \subseteq Occupied
          /\ created \subseteq Ids /\ deleted \subseteq Ids
      BY DEF IInv, SystemFits, Occupied, Free
    <2>2. \A k \in DOMAIN requests : requests[k] \in {"join", "leave"}
      <3>1. requests \in Seq({"join", "leave"})
        BY DEF IInv, RestFits
      <3> QED BY <3>1, Elements, Zenon
    <2> QED BY <2>1, <2>2 DEF IInv, RestFits, TypeOK
  <1> QED BY <1>1, Invariant, PTL

\* ServerMatchEntities.inl: the assertions of the client fail only if its player
\* joined between a change of the world and its broadcast, or if it was given a
\* command of an earlier visit.
THEOREM TwoCausesOnly == Spec => []FaultsComeFromJoining
  <1>1. IInv => FaultsComeFromJoining
    BY DEF IInv, FaultsComeFromJoining
  <1> QED BY <1>1, Invariant, PTL

\* A client that joined cleanly will show what the system holds, but for what
\* the bitsets have yet to broadcast, however identifiers are reused.
THEOREM Followed == Spec => []ClientFollows
  <1>1. IInv => ClientFollows
    <2> SUFFICES ASSUME IInv, JoinedCleanly PROVE ClientFollows
      BY DEF ClientFollows
    <2>1. RestFits /\ RequestsFit
      BY DEF IInv
    <2>2. Clean
      BY <2>1, InStep DEF JoinedCleanly, Clean
    <2>3. Accounts(match, commands, entity, listed, created, deleted)
      BY <2>2 DEF IInv
    <2> QED BY <2>3 DEF ClientFollows, Accounts, WillShow, Entities
  <1> QED BY <1>1, Invariant, PTL

\* During a visit no snapshot is applied after a later one.
THEOREM NeverBack == Spec => SnapshotsNeverGoBack
  <1>1. IInv /\ [Next]_vars => [visits' = visits => shown' >= shown]_vars
    <2> SUFFICES ASSUME IInv, Next, visits' = visits PROVE shown' >= shown
      OBVIOUS
    <2>1. shown \in Nat /\ visits \in Nat
      <3>1. RestFits
        BY DEF IInv
      <3>2. visits \in 0..MaxVisits
        BY <3>1 DEF RestFits
      <3> QED BY <3>1, <3>2, Numbers
    <2>2. CASE ApplySnapshot
      BY <2>2, ApplySnapshotStep
    <2>3. CASE Enter
      BY <2>1, <2>3 DEF Enter
    <2>4. CASE ~ApplySnapshot /\ ~Enter
      <3>1. shown' = shown
        BY <2>4 DEF Next, CreateEntity, Kill, Update, Broadcast, Reset, HandleJoinArena,
                    HandleLeaveArena, Leave, OnCommand, OnArenaState, LoseSnapshot, client
      <3> QED BY <2>1, <3>1
    <2> QED BY <2>2, <2>3, <2>4
  <1> QED BY <1>1, Invariant, PTL DEF Spec, SnapshotsNeverGoBack

=============================================================================
