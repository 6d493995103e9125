------------------------ MODULE NetworkReactor_proofs ------------------------
(***************************************************************************)
(* Theorems of NetworkReactor, for any number of slots, connections,       *)
(* packets and commands: the types, and that every event Poll handles      *)
(* meets the session of its own connection.                                *)
(*                                                                         *)
(* The inductive invariant reads the queue of incoming events as what will *)
(* lead from the sessions of the application to the peers of the worker.   *)
(* On the server (Chain) the events of a slot link up, the first with its  *)
(* session and the last with its entry in m_clients.  On the client        *)
(* (ClientFits) all the events are of the connection registered, or of the *)
(* one ConnectTo is about to register.                                     *)
(***************************************************************************)
EXTENDS NetworkReactor, TLAPS

\* Connections are numbered from 1.
Numbers ==
  /\ \A s \in Slots : peer[s] # "free" => conn[s] \in Conns
  /\ \A s \in Slots : session[s].state # "none" => session[s].conn \in Conns
  /\ \A k \in DOMAIN incoming : incoming[k].kind = "connect" => incoming[k].conn \in Conns

(* The events of one slot in a queue q *)

Adjacent(q, i, j) ==
  /\ i < j /\ q[i].slot = q[j].slot
  /\ \A k \in DOMAIN q : i < k /\ k < j => q[k].slot # q[i].slot
Foremost(q, i) == \A k \in DOMAIN q : k < i => q[k].slot # q[i].slot
Hindmost(q, i) == \A k \in DOMAIN q : i < k => q[k].slot # q[i].slot
Absent(q, s) == \A k \in DOMAIN q : q[k].slot # s

\* An event after one that left the slot without connection, or with c.
Links(gone, c, event) ==
  IF gone THEN event.kind = "connect" ELSE event.kind # "connect" /\ event.conn = c
\* The worker's side after an event that left the slot so.
Agrees(gone, c, isClient, connOfClient) ==
  IF gone THEN ~isClient ELSE isClient /\ connOfClient = c

Chain(q, sessions, entries, conns1) ==
  /\ \A i, j \in DOMAIN q :
       Adjacent(q, i, j) => Links(q[i].kind = "disconnect", q[i].conn, q[j])
  /\ \A i \in DOMAIN q : Foremost(q, i) =>
       Links(sessions[q[i].slot].state = "none", sessions[q[i].slot].conn, q[i])
  /\ \A i \in DOMAIN q : Hindmost(q, i) =>
       Agrees(q[i].kind = "disconnect", q[i].conn, q[i].slot \in entries, conns1[q[i].slot])
  /\ \A s \in Slots : Absent(q, s) =>
       Agrees(sessions[s].state = "none", sessions[s].conn, s \in entries, conns1[s])

ServerFits ==
  /\ mainPc = "free" /\ ~requested
  /\ Chain(incoming, session, clients, conn)
  /\ \A s \in Slots : peer[s] # "connecting" /\ session[s].state # "connecting"
  /\ \A s \in Slots : s \in clients <=> peer[s] # "free"

Inside == mainPc \in {"predicate", "waiting"}
Active == {"connected", "closing", "lingering"}

\* The session of the client, or the one ConnectTo is about to register.
Registered ==
  IF Inside /\ returned /\ reply # 0
    THEN [state |-> "connecting", conn |-> reply] ELSE session[ClientSlot]

EventsFit(q, registered, isClient, connOfClient, state) ==
  /\ IF isClient
       THEN /\ registered.state # "none" /\ connOfClient = registered.conn
            /\ \A i \in DOMAIN q : q[i].kind # "disconnect"
       ELSE state = "free"
  /\ \A i \in DOMAIN q :
       /\ q[i].slot = ClientSlot
       /\ registered.state # "none" /\ q[i].conn = registered.conn
       /\ q[i].kind = "disconnect" => i = Len(q)
       /\ q[i].kind = "packet" /\ registered.state = "connecting" =>
            \E j \in DOMAIN q : j < i /\ q[j].kind = "connect"
  /\ state \in Active /\ registered.state = "connecting" =>
       \E j \in DOMAIN q : q[j].kind = "connect"

ClientFits ==
  /\ clients \subseteq {ClientSlot}
  /\ requested => Inside /\ ~returned
  /\ ~overlapped =>
       /\ Inside => session[ClientSlot].state = "none"
       /\ EventsFit(incoming, Registered, ClientSlot \in clients, conn[ClientSlot], peer[ClientSlot])

IInv ==
  /\ TypeOK /\ Numbers
  /\ role = "server" => ServerFits
  /\ role = "client" => ClientFits
  /\ mainPc = "crashed" => overlapped
-----------------------------------------------------------------------------
(* Queues *)

LEMMA Appended ==
  ASSUME NEW S, NEW q \in Seq(S), NEW e \in S
  PROVE  /\ Append(q, e) \in Seq(S) /\ Len(Append(q, e)) = Len(q) + 1
         /\ DOMAIN Append(q, e) = DOMAIN q \cup {Len(q) + 1}
         /\ Append(q, e)[Len(q) + 1] = e
         /\ \A k \in DOMAIN q : Append(q, e)[k] = q[k] /\ k \in Nat /\ k < Len(q) + 1
         /\ Len(q) \in Nat
  OBVIOUS

LEMMA Tailed ==
  ASSUME NEW S, NEW q \in Seq(S), q # <<>>
  PROVE  /\ Tail(q) \in Seq(S) /\ Len(Tail(q)) = Len(q) - 1 /\ Len(q) \in Nat
         /\ Head(q) = q[1] /\ Head(q) \in S /\ 1 \in DOMAIN q
         /\ \A k \in DOMAIN q : k \in Nat /\ k >= 1 /\ k <= Len(q) /\ (k # 1 => k - 1 \in DOMAIN Tail(q))
         /\ \A k \in DOMAIN Tail(q) :
              k \in Nat /\ k >= 1 /\ k + 1 \in DOMAIN q /\ Tail(q)[k] = q[k + 1]
  OBVIOUS

LEMMA SlotsOfEvents ==
  ASSUME NEW q \in Seq(Events)
  PROVE  \A k \in DOMAIN q : q[k] \in Events /\ q[k].slot \in Slots
  <1>1. \A k \in DOMAIN q : q[k] \in Events
    OBVIOUS
  <1> QED BY <1>1 DEF Events

LEMMA TailIsShorter ==
  ASSUME NEW S, NEW q \in Seq(S)
  PROVE  /\ q # <<>> => Tail(q) # q
         /\ \A e \in S : q # <<>> => Append(q, e) # Tail(q)
  <1>1. ASSUME q # <<>>, NEW e \in S PROVE Append(q, e) # Tail(q)
    <2> DEFINE a == Append(q, e)  b == Tail(q)
    <2>1. Len(a) = Len(q) + 1 /\ Len(b) = Len(q) - 1 /\ Len(q) \in Nat
      BY <1>1
    <2> HIDE DEF a, b
    <2>2. a # b
      BY <2>1
    <2> QED BY <2>2 DEF a, b
  <1>2. q # <<>> => Tail(q) # q
    <2>1. q # <<>> => Len(Tail(q)) = Len(q) - 1 /\ Len(q) \in Nat
      OBVIOUS
    <2> QED BY <2>1
  <1> QED BY <1>1, <1>2

\* An event that the worker's side of its slot allows may be appended, once the
\* entry of the slot agrees with it.
LEMMA ChainAppend ==
  ASSUME NEW q \in Seq(Events), NEW e \in Events, NEW sessions, NEW entries, NEW entries1,
         NEW conns0, NEW conns1,
         Chain(q, sessions, entries, conns0),
         Links(e.slot \notin entries, conns0[e.slot], e),
         Agrees(e.kind = "disconnect", e.conn, e.slot \in entries1, conns1[e.slot]),
         \A s \in Slots \ {e.slot} :
           (s \in entries1 <=> s \in entries) /\ conns1[s] = conns0[s]
  PROVE  Chain(Append(q, e), sessions, entries1, conns1)
  <1> DEFINE r == Append(q, e)  n == Len(q) + 1
  <1>1. /\ DOMAIN r = DOMAIN q \cup {n} /\ r[n] = e /\ n \in Nat
        /\ \A k \in DOMAIN q : r[k] = q[k] /\ k \in Nat /\ k < n
    BY Appended
  <1>2. \A k \in DOMAIN q : q[k].slot \in Slots
    BY SlotsOfEvents
  <1>3. e.slot \in Slots
    BY DEF Events
  <1> HIDE DEF r, n
  <1>4. ASSUME NEW i \in DOMAIN r, NEW j \in DOMAIN r, Adjacent(r, i, j)
        PROVE  Links(r[i].kind = "disconnect", r[i].conn, r[j])
    <2>1. i \in DOMAIN q
      BY <1>1, <1>4 DEF Adjacent
    <2>2. CASE j \in DOMAIN q
      <3>1. Adjacent(q, i, j)
        BY <1>1, <1>4, <2>1, <2>2 DEF Adjacent
      <3> QED BY <1>1, <2>1, <2>2, <3>1 DEF Chain
    <2>3. CASE j = n
      <3>1. Hindmost(q, i) /\ q[i].slot = e.slot
        BY <1>1, <1>4, <2>1, <2>3 DEF Adjacent, Hindmost
      <3>2. Agrees(q[i].kind = "disconnect", q[i].conn, e.slot \in entries, conns0[e.slot])
        BY <2>1, <3>1 DEF Chain
      <3>3. Links(q[i].kind = "disconnect", q[i].conn, e)
        BY <3>2 DEF Agrees, Links
      <3> QED BY <1>1, <2>1, <2>3, <3>3
    <2> QED BY <1>1, <2>2, <2>3
  <1>5. ASSUME NEW i \in DOMAIN r, Foremost(r, i)
        PROVE  Links(sessions[r[i].slot].state = "none", sessions[r[i].slot].conn, r[i])
    <2>1. CASE i \in DOMAIN q
      <3>1. Foremost(q, i)
        BY <1>1, <1>5, <2>1 DEF Foremost
      <3> QED BY <1>1, <2>1, <3>1 DEF Chain
    <2>2. CASE i = n
      <3>1. Absent(q, e.slot)
        BY <1>1, <1>5, <2>2 DEF Foremost, Absent
      <3>2. Agrees(sessions[e.slot].state = "none", sessions[e.slot].conn,
                   e.slot \in entries, conns0[e.slot])
        BY <1>3, <3>1 DEF Chain
      <3>3. Links(sessions[e.slot].state = "none", sessions[e.slot].conn, e)
        BY <3>2 DEF Agrees, Links
      <3> QED BY <1>1, <2>2, <3>3
    <2> QED BY <1>1, <2>1, <2>2
  <1>6. ASSUME NEW i \in DOMAIN r, Hindmost(r, i)
        PROVE  Agrees(r[i].kind = "disconnect", r[i].conn, r[i].slot \in entries1, conns1[r[i].slot])
    <2>1. CASE i \in DOMAIN q
      <3>1. Hindmost(q, i) /\ q[i].slot # e.slot
        BY <1>1, <1>6, <2>1 DEF Hindmost
      <3>2. Agrees(q[i].kind = "disconnect", q[i].conn, q[i].slot \in entries, conns0[q[i].slot])
        BY <2>1, <3>1 DEF Chain
      <3>3. q[i].slot \in Slots \ {e.slot}
        BY <1>2, <2>1, <3>1
      <3> QED BY <1>1, <2>1, <3>2, <3>3 DEF Agrees
    <2>2. CASE i = n
      BY <1>1, <2>2
    <2> QED BY <1>1, <2>1, <2>2
  <1>7. ASSUME NEW s \in Slots, Absent(r, s)
        PROVE  Agrees(sessions[s].state = "none", sessions[s].conn, s \in entries1, conns1[s])
    <2>1. Absent(q, s) /\ s # e.slot
      BY <1>1, <1>7 DEF Absent
    <2>2. Agrees(sessions[s].state = "none", sessions[s].conn, s \in entries, conns0[s])
      BY <2>1 DEF Chain
    <2> QED BY <2>1, <2>2 DEF Agrees
  <1> QED BY <1>4, <1>5, <1>6, <1>7 DEF Chain, r

\* Handled, the first event leaves its slot as the next one expects it.
LEMMA ChainTail ==
  ASSUME NEW q \in Seq(Events), q # <<>>, NEW sessions, NEW sessions1, NEW entries, NEW conns1,
         Chain(q, sessions, entries, conns1),
         sessions1[Head(q).slot].state = "none" <=> Head(q).kind = "disconnect",
         Head(q).kind # "disconnect" => sessions1[Head(q).slot].conn = Head(q).conn,
         \A s \in Slots \ {Head(q).slot} : sessions1[s] = sessions[s]
  PROVE  Chain(Tail(q), sessions1, entries, conns1)
  <1> DEFINE r == Tail(q)  e == Head(q)
  <1>1. /\ e = q[1] /\ 1 \in DOMAIN q
        /\ \A k \in DOMAIN r : k \in Nat /\ k >= 1 /\ k + 1 \in DOMAIN q /\ r[k] = q[k + 1]
        /\ \A k \in DOMAIN q : k \in Nat /\ k >= 1 /\ (k # 1 => k - 1 \in DOMAIN r)
    BY Tailed
  <1>2. \A k \in DOMAIN q : q[k].slot \in Slots
    BY SlotsOfEvents
  <1>3. e.slot \in Slots
    BY <1>1, <1>2
  <1>a. /\ sessions1[e.slot].state = "none" <=> e.kind = "disconnect"
        /\ e.kind # "disconnect" => sessions1[e.slot].conn = e.conn
        /\ \A s \in Slots \ {e.slot} : sessions1[s] = sessions[s]
    OBVIOUS
  <1> HIDE DEF r, e
  \* The predecessors of an index of q are those of the one before it in r.
  <1>4. \A k \in DOMAIN q : k = 1 \/ \E m \in DOMAIN r : k = m + 1 /\ r[m] = q[k]
    <2> SUFFICES ASSUME NEW k \in DOMAIN q, k # 1
                 PROVE  \E m \in DOMAIN r : k = m + 1 /\ r[m] = q[k]
      OBVIOUS
    <2>1. k - 1 \in DOMAIN r /\ k = (k - 1) + 1 /\ r[k - 1] = q[k]
      <3>1. k \in Nat /\ k - 1 \in DOMAIN r
        BY <1>1
      <3>2. (k - 1) + 1 = k
        BY <3>1
      <3> QED BY <1>1, <3>1, <3>2
    <2> QED BY <2>1
  <1>5. ASSUME NEW i \in DOMAIN r, NEW j \in DOMAIN r, Adjacent(r, i, j)
        PROVE  Links(r[i].kind = "disconnect", r[i].conn, r[j])
    <2>1. Adjacent(q, i + 1, j + 1)
      <3>1. i + 1 < j + 1 /\ q[i + 1].slot = q[j + 1].slot
        BY <1>1, <1>5 DEF Adjacent
      <3>2. ASSUME NEW k \in DOMAIN q, i + 1 < k, k < j + 1 PROVE q[k].slot # q[i + 1].slot
        <4>1. k # 1
          BY <1>1, <3>2
        <4>2. PICK m \in DOMAIN r : k = m + 1 /\ r[m] = q[k]
          BY <1>4, <4>1
        <4>3. i < m /\ m < j
          BY <1>1, <3>2, <4>2
        <4> QED BY <1>1, <1>5, <4>2, <4>3 DEF Adjacent
      <3> QED BY <3>1, <3>2 DEF Adjacent
    <2> QED BY <1>1, <2>1 DEF Chain
  <1>6. ASSUME NEW i \in DOMAIN r, Foremost(r, i)
        PROVE  Links(sessions1[r[i].slot].state = "none", sessions1[r[i].slot].conn, r[i])
    <2>0. \A k \in DOMAIN q : 1 < k /\ k < i + 1 => q[k].slot # q[i + 1].slot
      <3> SUFFICES ASSUME NEW k \in DOMAIN q, 1 < k, k < i + 1 PROVE q[k].slot # q[i + 1].slot
        OBVIOUS
      <3>1. PICK m \in DOMAIN r : k = m + 1 /\ r[m] = q[k]
        BY <1>1, <1>4
      <3>2. m < i
        BY <1>1, <3>1
      <3> QED BY <1>1, <1>6, <3>1, <3>2 DEF Foremost
    <2>1. CASE r[i].slot = e.slot
      <3>1. Adjacent(q, 1, i + 1)
        BY <1>1, <2>0, <2>1 DEF Adjacent
      <3>2. Links(e.kind = "disconnect", e.conn, r[i])
        BY <1>1, <3>1 DEF Chain
      <3> QED BY <1>a, <2>1, <3>2 DEF Links
    <2>2. CASE r[i].slot # e.slot
      <3>1. Foremost(q, i + 1)
        <4> SUFFICES ASSUME NEW k \in DOMAIN q, k < i + 1 PROVE q[k].slot # q[i + 1].slot
          BY DEF Foremost
        <4> QED BY <1>1, <2>0, <2>2
      <3>2. Links(sessions[r[i].slot].state = "none", sessions[r[i].slot].conn, r[i])
        BY <1>1, <3>1 DEF Chain
      <3>3. r[i].slot \in Slots \ {e.slot}
        BY <1>1, <1>2, <2>2
      <3> QED BY <1>a, <3>2, <3>3
    <2> QED BY <2>1, <2>2
  <1>7. ASSUME NEW i \in DOMAIN r, Hindmost(r, i)
        PROVE  Agrees(r[i].kind = "disconnect", r[i].conn, r[i].slot \in entries, conns1[r[i].slot])
    <2>1. Hindmost(q, i + 1)
      <3> SUFFICES ASSUME NEW k \in DOMAIN q, i + 1 < k PROVE q[k].slot # q[i + 1].slot
        BY DEF Hindmost
      <3>1. PICK m \in DOMAIN r : k = m + 1 /\ r[m] = q[k]
        BY <1>1, <1>4
      <3>2. i < m
        BY <1>1, <3>1
      <3> QED BY <1>1, <1>7, <3>1, <3>2 DEF Hindmost
    <2> QED BY <1>1, <2>1 DEF Chain
  <1>8. ASSUME NEW s \in Slots, Absent(r, s)
        PROVE  Agrees(sessions1[s].state = "none", sessions1[s].conn, s \in entries, conns1[s])
    <2>1. CASE s = e.slot
      <3>1. Hindmost(q, 1)
        <4> SUFFICES ASSUME NEW k \in DOMAIN q, 1 < k PROVE q[k].slot # q[1].slot
          BY DEF Hindmost
        <4>1. PICK m \in DOMAIN r : k = m + 1 /\ r[m] = q[k]
          BY <1>1, <1>4
        <4> QED BY <1>1, <1>8, <2>1, <4>1 DEF Absent
      <3>2. Agrees(e.kind = "disconnect", e.conn, s \in entries, conns1[s])
        BY <1>1, <2>1, <3>1 DEF Chain
      <3> QED BY <1>a, <2>1, <3>2 DEF Agrees
    <2>2. CASE s # e.slot
      <3>1. Absent(q, s)
        <4> SUFFICES ASSUME NEW k \in DOMAIN q PROVE q[k].slot # s
          BY DEF Absent
        <4> QED BY <1>1, <1>4, <1>8, <2>2 DEF Absent
      <3>2. Agrees(sessions[s].state = "none", sessions[s].conn, s \in entries, conns1[s])
        BY <3>1 DEF Chain
      <3> QED BY <1>a, <2>2, <3>2
    <2> QED BY <2>1, <2>2
  <1> QED BY <1>5, <1>6, <1>7, <1>8 DEF Chain, r

\* An event of the connection registered may be appended, once the worker's
\* side of the slot agrees with it.
LEMMA EventsAppend ==
  ASSUME NEW q \in Seq(Events), NEW e \in Events, NEW registered, NEW c, NEW state, NEW state1,
         NEW isClient1 \in BOOLEAN,
         EventsFit(q, registered, TRUE, c, state),
         e.slot = ClientSlot, e.conn = c,
         e.kind = "disconnect" <=> ~isClient1,
         ~isClient1 => state1 = "free",
         e.kind = "packet" => state \in Active,
         state1 \in Active => state \in Active \/ e.kind = "connect"
  PROVE  EventsFit(Append(q, e), registered, isClient1, c, state1)
  <1> DEFINE r == Append(q, e)  n == Len(q) + 1
  <1>1. /\ DOMAIN r = DOMAIN q \cup {n} /\ r[n] = e /\ n \in Nat /\ Len(r) = n
        /\ \A k \in DOMAIN q : r[k] = q[k] /\ k \in Nat /\ k < n
    BY Appended
  <1> HIDE DEF r, n
  <1>2. /\ registered.state # "none" /\ c = registered.conn
        /\ \A i \in DOMAIN q : q[i].kind # "disconnect"
        /\ \A i \in DOMAIN q : q[i].slot = ClientSlot /\ q[i].conn = registered.conn
        /\ \A i \in DOMAIN q : q[i].kind = "packet" /\ registered.state = "connecting" =>
             \E j \in DOMAIN q : j < i /\ q[j].kind = "connect"
        /\ state \in Active /\ registered.state = "connecting" =>
             \E j \in DOMAIN q : q[j].kind = "connect"
    BY DEF EventsFit
  <1>3. isClient1 => \A i \in DOMAIN r : r[i].kind # "disconnect"
    BY <1>1, <1>2
  <1>4. \A i \in DOMAIN r :
          /\ r[i].slot = ClientSlot /\ r[i].conn = registered.conn
          /\ r[i].kind = "disconnect" => i = Len(r)
    BY <1>1, <1>2
  <1>5. ASSUME NEW i \in DOMAIN r, r[i].kind = "packet", registered.state = "connecting"
        PROVE  \E j \in DOMAIN r : j < i /\ r[j].kind = "connect"
    <2>1. PICK j \in DOMAIN q : j < i /\ q[j].kind = "connect"
      BY <1>1, <1>2, <1>5
    <2> QED BY <1>1, <2>1
  <1>6. ASSUME state1 \in Active, registered.state = "connecting"
        PROVE  \E j \in DOMAIN r : r[j].kind = "connect"
    BY <1>1, <1>2, <1>6
  <1>7. IF isClient1
          THEN /\ registered.state # "none" /\ c = registered.conn
               /\ \A i \in DOMAIN r : r[i].kind # "disconnect"
          ELSE state1 = "free"
    BY <1>2, <1>3
  <1> QED BY <1>2, <1>4, <1>5, <1>6, <1>7 DEF EventsFit, r

\* What Poll makes of the client's session after an event.
LEMMA EventsTail ==
  ASSUME NEW q \in Seq(Events), q # <<>>, NEW registered, NEW registered1,
         NEW isClient \in BOOLEAN, NEW c, NEW state,
         EventsFit(q, registered, isClient, c, state),
         \/ /\ Head(q).kind = "connect"
            /\ registered1 = [state |-> "up", conn |-> Head(q).conn]
         \/ Head(q).kind = "disconnect" /\ registered1 = NoSession
         \/ Head(q).kind \notin {"connect", "disconnect"} /\ registered1 = registered
  PROVE  EventsFit(Tail(q), registered1, isClient, c, state)
  <1> DEFINE r == Tail(q)  e == Head(q)
  <1>1. /\ e = q[1] /\ 1 \in DOMAIN q /\ Len(r) = Len(q) - 1 /\ Len(q) \in Nat
        /\ \A k \in DOMAIN r : k \in Nat /\ k >= 1 /\ k + 1 \in DOMAIN q /\ r[k] = q[k + 1]
        /\ \A k \in DOMAIN q : k \in Nat /\ k >= 1 /\ k <= Len(q) /\ (k # 1 => k - 1 \in DOMAIN r)
    BY Tailed
  <1>a. \/ e.kind = "connect" /\ registered1 = [state |-> "up", conn |-> e.conn]
        \/ e.kind = "disconnect" /\ registered1 = NoSession
        \/ e.kind \notin {"connect", "disconnect"} /\ registered1 = registered
    OBVIOUS
  <1>2. /\ registered.state # "none" /\ e.conn = registered.conn
        /\ e.kind = "disconnect" => Len(q) = 1 /\ ~isClient
        /\ isClient => c = registered.conn /\ \A i \in DOMAIN q : q[i].kind # "disconnect"
        /\ ~isClient => state = "free"
        /\ \A i \in DOMAIN q : q[i].slot = ClientSlot /\ q[i].conn = registered.conn
        /\ \A i \in DOMAIN q : q[i].kind = "disconnect" => i = Len(q)
        /\ \A i \in DOMAIN q : q[i].kind = "packet" /\ registered.state = "connecting" =>
             \E j \in DOMAIN q : j < i /\ q[j].kind = "connect"
        /\ state \in Active /\ registered.state = "connecting" =>
             \E j \in DOMAIN q : q[j].kind = "connect"
    BY <1>1 DEF EventsFit
  <1> HIDE DEF r, e
  <1>3. CASE e.kind = "disconnect"
    <2>1. DOMAIN r = {}
      BY <1>1, <1>2, <1>3
    <2>2. state = "free" /\ ~isClient
      BY <1>2, <1>3
    <2>3. state \notin Active
      BY <2>2 DEF Active
    <2> QED BY <2>1, <2>2, <2>3 DEF EventsFit, r
  <1>4. CASE e.kind # "disconnect"
    <2>1. registered1.state # "none" /\ registered1.conn = registered.conn
      BY <1>2, <1>4, <1>a
    <2>2. isClient => \A i \in DOMAIN r : r[i].kind # "disconnect"
      BY <1>1, <1>2
    <2>3. \A i \in DOMAIN r :
            /\ r[i].slot = ClientSlot /\ r[i].conn = registered1.conn
            /\ r[i].kind = "disconnect" => i = Len(r)
      <3> SUFFICES ASSUME NEW i \in DOMAIN r
                   PROVE  /\ r[i].slot = ClientSlot /\ r[i].conn = registered1.conn
                          /\ r[i].kind = "disconnect" => i = Len(r)
        OBVIOUS
      <3>1. i + 1 \in DOMAIN q /\ r[i] = q[i + 1] /\ i \in Nat
        BY <1>1
      <3>2. r[i].kind = "disconnect" => i + 1 = Len(q)
        BY <1>2, <3>1
      <3> QED BY <1>1, <1>2, <2>1, <3>1, <3>2
    \* A connection still to be told was not the first event.
    <2>4. ASSUME registered1.state = "connecting", NEW j \in DOMAIN q, q[j].kind = "connect"
          PROVE  j - 1 \in DOMAIN r /\ r[j - 1].kind = "connect" /\ registered.state = "connecting"
      <3>1. registered1 = registered /\ e.kind # "connect"
        BY <1>4, <1>a, <2>4
      <3>2. j # 1 /\ j \in Nat
        BY <1>1, <2>4, <3>1
      <3>3. j - 1 \in DOMAIN r /\ (j - 1) + 1 = j
        BY <1>1, <3>2
      <3> QED BY <1>1, <2>4, <3>1, <3>3
    <2>b. registered1.state = "connecting" => registered.state = "connecting"
      BY <1>4, <1>a
    <2>5. ASSUME NEW i \in DOMAIN r, r[i].kind = "packet", registered1.state = "connecting"
          PROVE  \E j \in DOMAIN r : j < i /\ r[j].kind = "connect"
      <3>1. i + 1 \in DOMAIN q /\ r[i] = q[i + 1] /\ i \in Nat
        BY <1>1
      <3>2. PICK j \in DOMAIN q : j < i + 1 /\ q[j].kind = "connect"
        BY <1>2, <2>5, <2>b, <3>1
      <3>3. j - 1 \in DOMAIN r /\ r[j - 1].kind = "connect"
        BY <2>4, <2>5, <3>2
      <3>4. j - 1 < i
        BY <1>1, <3>1, <3>2
      <3> QED BY <3>3, <3>4
    <2>6. ASSUME state \in Active, registered1.state = "connecting"
          PROVE  \E j \in DOMAIN r : r[j].kind = "connect"
      <3>1. PICK j \in DOMAIN q : q[j].kind = "connect"
        BY <1>2, <2>6, <2>b
      <3> QED BY <2>4, <2>6, <3>1
    <2>7. IF isClient
            THEN /\ registered1.state # "none" /\ c = registered1.conn
                 /\ \A i \in DOMAIN r : r[i].kind # "disconnect"
            ELSE state = "free"
      BY <1>2, <2>1, <2>2
    <2> QED BY <2>1, <2>3, <2>5, <2>6, <2>7 DEF EventsFit, r
  <1> QED BY <1>3, <1>4
-----------------------------------------------------------------------------
(* Types *)

Kinds == {"connect", "disconnect", "packet", "info"}
States == {"free", "connecting", "connected", "closing", "lingering"}

LEMMA EventType ==
  ASSUME NEW s \in Slots, NEW kind \in Kinds, NEW c \in 0..MaxConns
  PROVE  [slot |-> s, kind |-> kind, conn |-> c] \in Events
  BY DEF Events, Kinds

LEMMA SessionType ==
  ASSUME NEW state \in {"none", "connecting", "up"}, NEW c \in 0..MaxConns
  PROVE  [state |-> state, conn |-> c] \in Sessions
  BY DEF Sessions

LEMMA Bounds ==
  /\ MaxConns \in Nat /\ Conns \subseteq 0..MaxConns /\ 0 \in 0..MaxConns /\ 0 \notin Conns
  /\ NoSession \in Sessions /\ NoSession.state = "none"
  BY BoundsAssumption DEF Conns, NoSession, Sessions

LEMMA NextConnection ==
  ASSUME TypeOK, conns < MaxConns
  PROVE  conns + 1 \in Conns /\ conns + 1 \in 0..MaxConns
  BY BoundsAssumption DEF TypeOK, Conns

Types == TypeOK /\ Numbers

\* The variables of the worker's events; the others keep their types alone.
EventTypes ==
  /\ incoming \in Seq(Events) /\ clients \subseteq Slots
  /\ peer \in [Slots -> States] /\ conn \in [Slots -> 0..MaxConns]
  /\ \A s \in Slots : peer[s] # "free" => conn[s] \in Conns
  /\ \A k \in DOMAIN incoming : incoming[k].kind = "connect" => incoming[k].conn \in Conns

OtherTypes ==
  /\ role \in {"server", "client"}
  /\ mainPc \in {"free", "predicate", "waiting", "crashed"}
  /\ requested \in BOOLEAN /\ returned \in BOOLEAN /\ late \in BOOLEAN
  /\ reply \in 0..MaxConns
  /\ outgoing \in Seq([slot : Slots, kind : Commands])
  /\ worker \in {"receive", "send", "accept", "notify", "stuck"}
  /\ conns \in 0..MaxConns /\ packets \in 0..MaxPackets
  /\ commands \in 0..MaxCommands
  /\ session \in [Slots -> Sessions]
  /\ \A s \in Slots : session[s].state # "none" => session[s].conn \in Conns
  /\ asked \subseteq Conns
  /\ overlapped \in BOOLEAN

LEMMA TypesParts == Types <=> EventTypes /\ OtherTypes
  BY DEF Types, TypeOK, Numbers, EventTypes, OtherTypes, States

LEMMA TypesNext ==
  ASSUME EventTypes', OtherTypes' PROVE Types'
  BY DEF Types, TypeOK, Numbers, EventTypes, OtherTypes, States

LEMMA EventTypesNext ==
  ASSUME EventTypes, UNCHANGED <<incoming, hostVars>> PROVE EventTypes'
  BY DEF EventTypes, hostVars

LEMMA OtherTypesNext ==
  ASSUME OtherTypes,
         UNCHANGED <<mainVars, rendezvousVars, outgoing, worker, countVars>>
  PROVE  OtherTypes'
  BY DEF OtherTypes, mainVars, rendezvousVars, countVars

\* An event of a slot is appended.
LEMMA EventTypesAppend ==
  ASSUME EventTypes, NEW s \in Slots, NEW kind \in Kinds, NEW c \in 0..MaxConns,
         kind = "connect" => c \in Conns,
         incoming' = Append(incoming, [slot |-> s, kind |-> kind, conn |-> c])
  PROVE  /\ incoming' \in Seq(Events)
         /\ \A k \in DOMAIN incoming' : incoming'[k].kind = "connect" => incoming'[k].conn \in Conns
  <1> DEFINE e == [slot |-> s, kind |-> kind, conn |-> c]
  <1>1. e \in Events /\ (e.kind = "connect" => e.conn \in Conns)
    BY EventType
  <1> HIDE DEF e
  <1>2. incoming' = Append(incoming, e) /\ incoming \in Seq(Events)
    BY DEF e, EventTypes
  <1> QED BY <1>1, <1>2, Appended DEF EventTypes

LEMMA MainTypes ==
  ASSUME Types, ConnectTo \/ ReturnFromConnectTo \/ WaitForReply \/ SpuriousWakeup \/ Poll
                \/ (\E s \in Slots, kind \in Commands : Command(s, kind))
  PROVE  Types'
  <1>0. EventTypes /\ OtherTypes
    BY TypesParts
  <1>1. CASE ConnectTo \/ WaitForReply \/ SpuriousWakeup
    <2>1. UNCHANGED <<incoming, hostVars>>
      BY <1>1 DEF ConnectTo, WaitForReply, SpuriousWakeup
    <2>2. EventTypes'
      BY <1>0, <2>1, EventTypesNext
    <2>3. OtherTypes'
      <3>1. mainPc' \in {"free", "predicate", "waiting", "crashed"} /\ requested' \in BOOLEAN
            /\ returned' \in BOOLEAN /\ reply' \in 0..MaxConns /\ overlapped' \in BOOLEAN
        BY <1>0, <1>1, Bounds
        DEF ConnectTo, WaitForReply, SpuriousWakeup, OtherTypes, rendezvousVars
      <3>2. UNCHANGED <<role, session, asked, late, outgoing, worker, conns, packets, commands>>
        BY <1>1 DEF ConnectTo, WaitForReply, SpuriousWakeup, rendezvousVars, countVars
      <3> QED BY <1>0, <3>1, <3>2 DEF OtherTypes
    <2> QED BY <2>2, <2>3, TypesNext
  <1>2. CASE ReturnFromConnectTo
    <2>1. /\ UNCHANGED <<incoming, hostVars>>
          /\ UNCHANGED <<role, asked, overlapped, rendezvousVars, outgoing, worker, countVars>>
          /\ mainPc' = "free"
          /\ session' = IF reply = 0 THEN session
                        ELSE [session EXCEPT ![ClientSlot] = [state |-> "connecting", conn |-> reply]]
      BY <1>2 DEF ReturnFromConnectTo
    <2>2. EventTypes'
      BY <1>0, <2>1, EventTypesNext
    <2>3. session' \in [Slots -> Sessions]
          /\ \A s \in Slots : session'[s].state # "none" => session'[s].conn \in Conns
      <3>1. CASE reply = 0
        BY <1>0, <2>1, <3>1 DEF OtherTypes
      <3>2. CASE reply # 0
        <4>1. reply \in Conns /\ reply \in 0..MaxConns
          BY <1>0, <3>2, BoundsAssumption DEF OtherTypes, Conns
        <4>2. [state |-> "connecting", conn |-> reply] \in Sessions
          BY <4>1, SessionType
        <4> QED BY <1>0, <2>1, <3>2, <4>1, <4>2 DEF OtherTypes
      <3> QED BY <3>1, <3>2
    <2>4. OtherTypes'
      BY <1>0, <2>1, <2>3 DEF OtherTypes, rendezvousVars, countVars
    <2> QED BY <2>2, <2>4, TypesNext
  <1>3. ASSUME NEW s \in Slots, NEW kind \in Commands, Command(s, kind) PROVE Types'
    <2>1. /\ UNCHANGED <<incoming, hostVars>>
          /\ UNCHANGED <<role, mainPc, session, overlapped, rendezvousVars, worker, conns, packets>>
          /\ session[s].state = "up" /\ commands < MaxCommands /\ commands' = commands + 1
          /\ outgoing' = Append(outgoing, [slot |-> s, kind |-> kind])
          /\ asked' \in {asked, asked \cup {session[s].conn}}
      BY <1>3 DEF Command
    <2>2. EventTypes'
      BY <1>0, <2>1, EventTypesNext
    <2>3. session[s].conn \in Conns
      BY <1>0, <2>1 DEF OtherTypes
    <2>4. commands' \in 0..MaxCommands
      BY <1>0, <2>1, BoundsAssumption DEF OtherTypes
    <2>5. outgoing' \in Seq([slot : Slots, kind : Commands])
      <3>1. [slot |-> s, kind |-> kind] \in [slot : Slots, kind : Commands]
        OBVIOUS
      <3>2. outgoing \in Seq([slot : Slots, kind : Commands])
        BY <1>0 DEF OtherTypes
      <3> QED BY <2>1, <3>1, <3>2
    <2>6. asked' \subseteq Conns
      BY <1>0, <2>1, <2>3 DEF OtherTypes
    <2>7. OtherTypes'
      BY <1>0, <2>1, <2>4, <2>5, <2>6 DEF OtherTypes, rendezvousVars
    <2> QED BY <2>2, <2>7, TypesNext
  <1>4. CASE Poll
    <2> DEFINE e == Head(incoming)
    <2>1. /\ incoming # <<>> /\ incoming' = Tail(incoming) /\ UNCHANGED hostVars
          /\ UNCHANGED <<role, asked, overlapped, rendezvousVars, outgoing, worker, countVars>>
          /\ mainPc' \in {mainPc, "crashed"}
          /\ \/ session' = session
             \/ /\ e.kind = "connect"
                /\ session' = [session EXCEPT ![e.slot] = [state |-> "up", conn |-> e.conn]]
             \/ session' = [session EXCEPT ![e.slot] = NoSession]
      BY <1>4 DEF Poll
    <2>2. /\ incoming' \in Seq(Events) /\ e \in Events /\ e = incoming[1] /\ 1 \in DOMAIN incoming
          /\ \A k \in DOMAIN incoming' : k + 1 \in DOMAIN incoming /\ incoming'[k] = incoming[k + 1]
      BY <1>0, <2>1, Tailed DEF EventTypes
    <2>3. e.slot \in Slots /\ e.conn \in 0..MaxConns /\ (e.kind = "connect" => e.conn \in Conns)
      BY <1>0, <2>2 DEF EventTypes, Events
    <2> HIDE DEF e
    <2>4. EventTypes'
      BY <1>0, <2>1, <2>2 DEF EventTypes, hostVars
    <2>5. session' \in [Slots -> Sessions]
          /\ \A s \in Slots : session'[s].state # "none" => session'[s].conn \in Conns
      <3>0. session \in [Slots -> Sessions]
            /\ \A s \in Slots : session[s].state # "none" => session[s].conn \in Conns
        BY <1>0 DEF OtherTypes
      <3>1. CASE session' = session
        BY <3>0, <3>1
      <3>2. CASE /\ e.kind = "connect"
                 /\ session' = [session EXCEPT ![e.slot] = [state |-> "up", conn |-> e.conn]]
        <4>1. [state |-> "up", conn |-> e.conn] \in Sessions
          BY <2>3, SessionType
        <4> QED BY <2>3, <3>0, <3>2, <4>1
      <3>3. CASE session' = [session EXCEPT ![e.slot] = NoSession]
        BY <2>3, <3>0, <3>3, Bounds
      <3> QED BY <2>1, <3>1, <3>2, <3>3
    <2>6. OtherTypes'
      BY <1>0, <2>1, <2>5 DEF OtherTypes, rendezvousVars, countVars
    <2> QED BY <2>4, <2>6, TypesNext
  <1> QED BY <1>1, <1>2, <1>3, <1>4
\* ENet's events, and what the worker does of the outgoing ones.
LEMMA ReceiveTypes ==
  ASSUME Types, NEW s \in Slots,
         ReceiveConnection(s) \/ ReceivePacket(s) \/ ReceiveDisconnection(s)
  PROVE  Types'
  <1>0. EventTypes /\ OtherTypes /\ TypeOK
    BY TypesParts DEF Types
  <1>1. UNCHANGED <<mainVars, rendezvousVars, outgoing, worker, commands>>
    BY DEF Receive, ReceiveConnection, ReceivePacket, ReceiveDisconnection
  <1>2. conn[s] \in 0..MaxConns
    BY <1>0 DEF EventTypes
  <1>3. CASE ReceiveConnection(s)
    <2>1. /\ peer' = [peer EXCEPT ![s] = "connected"] /\ clients' = clients \cup {s}
          /\ incoming' = Append(incoming, [slot |-> s, kind |-> "connect", conn |-> conn'[s]])
          /\ packets' = packets
          /\ \/ /\ conns < MaxConns /\ conns' = conns + 1 /\ conn' = [conn EXCEPT ![s] = conns']
             \/ peer[s] = "connecting" /\ conns' = conns /\ conn' = conn
      BY <1>3 DEF Receive, ReceiveConnection
    <2>2. conns' \in 0..MaxConns /\ conn' \in [Slots -> 0..MaxConns] /\ conn'[s] \in Conns
          /\ \A t \in Slots \ {s} : conn'[t] = conn[t]
      BY <1>0, <2>1, NextConnection DEF EventTypes, OtherTypes
    <2>3. /\ incoming' \in Seq(Events)
          /\ \A k \in DOMAIN incoming' : incoming'[k].kind = "connect" => incoming'[k].conn \in Conns
      <3> DEFINE c == conn'[s]
      <3>1. c \in Conns /\ c \in 0..MaxConns /\ "connect" \in Kinds
            /\ incoming' = Append(incoming, [slot |-> s, kind |-> "connect", conn |-> c])
        BY <2>1, <2>2, Bounds DEF Kinds
      <3> HIDE DEF c
      <3> QED BY <1>0, <3>1, EventTypesAppend
    <2>4. peer' \in [Slots -> States] /\ \A t \in Slots : peer'[t] # "free" => conn'[t] \in Conns
      BY <1>0, <2>1, <2>2 DEF EventTypes, States
    <2>5. EventTypes'
      BY <1>0, <2>1, <2>2, <2>3, <2>4 DEF EventTypes
    <2>6. OtherTypes'
      BY <1>0, <1>1, <2>1, <2>2 DEF OtherTypes, mainVars, rendezvousVars
    <2> QED BY <2>5, <2>6, TypesNext
  <1>4. CASE ReceivePacket(s)
    <2>1. /\ peer' = [peer EXCEPT ![s] = peer[s]] /\ packets < MaxPackets /\ packets' = packets + 1
          /\ incoming' = Append(incoming, [slot |-> s, kind |-> "packet", conn |-> conn[s]])
          /\ UNCHANGED <<clients, conn, conns>>
      BY <1>4 DEF Receive, ReceivePacket, Event
    <2>2. /\ incoming' \in Seq(Events)
          /\ \A k \in DOMAIN incoming' : incoming'[k].kind = "connect" => incoming'[k].conn \in Conns
      BY <1>0, <1>2, <2>1, EventTypesAppend DEF Kinds
    <2>3. peer' = peer
      BY <1>0, <2>1 DEF EventTypes
    <2>4. EventTypes'
      BY <1>0, <2>1, <2>2, <2>3 DEF EventTypes
    <2>5. packets' \in 0..MaxPackets
      BY <1>0, <2>1, BoundsAssumption DEF OtherTypes
    <2>6. OtherTypes'
      BY <1>0, <1>1, <2>1, <2>5 DEF OtherTypes, mainVars, rendezvousVars
    <2> QED BY <2>4, <2>6, TypesNext
  <1>5. CASE ReceiveDisconnection(s)
    <2>1. /\ peer' = [peer EXCEPT ![s] = "free"] /\ clients' = clients \ {s}
          /\ incoming' = Append(incoming, [slot |-> s, kind |-> "disconnect", conn |-> conn[s]])
          /\ UNCHANGED <<conn, conns, packets>>
      BY <1>5 DEF Receive, ReceiveDisconnection, Event
    <2>2. /\ incoming' \in Seq(Events)
          /\ \A k \in DOMAIN incoming' : incoming'[k].kind = "connect" => incoming'[k].conn \in Conns
      BY <1>0, <1>2, <2>1, EventTypesAppend DEF Kinds
    <2>3. peer' \in [Slots -> States] /\ \A t \in Slots : peer'[t] # "free" => peer[t] # "free"
      BY <1>0, <2>1 DEF EventTypes, States
    <2>4. EventTypes'
      BY <1>0, <2>1, <2>2, <2>3 DEF EventTypes
    <2>5. OtherTypes'
      BY <1>0, <1>1, <2>1, OtherTypesNext DEF countVars
    <2> QED BY <2>4, <2>5, TypesNext
  <1> QED BY <1>3, <1>4, <1>5

LEMMA OutgoingTypes ==
  ASSUME Types, Kick \/ Disconnect \/ Send \/ QueryPeerInfo
  PROVE  Types'
  <1> DEFINE s == Head(outgoing).slot
  <1>0. EventTypes /\ OtherTypes
    BY TypesParts
  <1>1. /\ outgoing # <<>> /\ outgoing' = Tail(outgoing)
        /\ UNCHANGED <<mainVars, rendezvousVars, worker, conn, countVars>>
    BY DEF Kick, Disconnect, Send, QueryPeerInfo, TakeOutgoing
  <1>2. outgoing' \in Seq([slot : Slots, kind : Commands]) /\ s \in Slots
    <2>1. outgoing \in Seq([slot : Slots, kind : Commands])
      BY <1>0 DEF OtherTypes
    <2>2. Head(outgoing) \in [slot : Slots, kind : Commands]
          /\ Tail(outgoing) \in Seq([slot : Slots, kind : Commands])
      BY <1>1, <2>1, Tailed
    <2>3. Head(outgoing).slot \in Slots
      BY <2>2
    <2> QED BY <1>1, <2>2, <2>3
  <1>3. OtherTypes'
    BY <1>0, <1>1, <1>2 DEF OtherTypes, mainVars, rendezvousVars, countVars
  <1> HIDE DEF s
  <1>4. conn[s] \in 0..MaxConns
    BY <1>0, <1>2 DEF EventTypes
  <1>5. EventTypes'
    <2>1. CASE Kick /\ s \in clients
      <3>1. /\ peer' = [peer EXCEPT ![s] = "free"] /\ clients' = clients \ {s}
            /\ incoming' = Append(incoming, [slot |-> s, kind |-> "disconnect", conn |-> conn[s]])
        BY <2>1 DEF Kick, s, Event
      <3>2. /\ incoming' \in Seq(Events)
            /\ \A k \in DOMAIN incoming' : incoming'[k].kind = "connect" => incoming'[k].conn \in Conns
        BY <1>0, <1>2, <1>4, <3>1, EventTypesAppend DEF Kinds
      <3>3. peer' \in [Slots -> States] /\ \A t \in Slots : peer'[t] # "free" => peer[t] # "free"
        BY <1>0, <3>1 DEF EventTypes, States
      <3> QED BY <1>0, <1>1, <3>1, <3>2, <3>3 DEF EventTypes
    <2>2. CASE QueryPeerInfo /\ s \in clients
      <3>1. /\ peer' = peer /\ clients' = clients
            /\ incoming' = Append(incoming, [slot |-> s, kind |-> "info", conn |-> conn[s]])
        BY <2>2 DEF QueryPeerInfo, s, Event
      <3>2. /\ incoming' \in Seq(Events)
            /\ \A k \in DOMAIN incoming' : incoming'[k].kind = "connect" => incoming'[k].conn \in Conns
        BY <1>0, <1>2, <1>4, <3>1, EventTypesAppend DEF Kinds
      <3> QED BY <1>0, <1>1, <3>1, <3>2 DEF EventTypes
    <2>3. CASE Send \/ (Kick /\ s \notin clients) \/ (QueryPeerInfo /\ s \notin clients)
      <3>1. UNCHANGED <<incoming, clients, peer>>
        BY <2>3 DEF Send, Kick, QueryPeerInfo, s
      <3> QED BY <1>0, <1>1, <3>1, EventTypesNext DEF hostVars
    <2>4. CASE Disconnect
      <3>1. /\ UNCHANGED <<incoming, clients>>
            /\ \/ peer' = peer
               \/ \E state \in {"closing", "lingering", "free"} :
                    peer[s] # "free" /\ peer' = [peer EXCEPT ![s] = state]
        BY <2>4 DEF Disconnect, s
      <3>2. peer' \in [Slots -> States] /\ \A t \in Slots : peer'[t] # "free" => peer[t] # "free"
        BY <1>0, <3>1 DEF EventTypes, States
      <3> QED BY <1>0, <1>1, <3>1, <3>2 DEF EventTypes
    <2> QED BY <2>1, <2>2, <2>3, <2>4
  <1> QED BY <1>3, <1>5, TypesNext

\* The rest of the worker's loop.
LEMMA WorkerTypes ==
  ASSUME Types, EndReceive \/ EndSend \/ TakeRequest \/ NotifyCaller \/ NotifyTooLate \/ EndAccept
  PROVE  Types'
  <1>0. EventTypes /\ OtherTypes /\ TypeOK
    BY TypesParts DEF Types
  <1>1. CASE EndReceive \/ EndSend \/ EndAccept \/ NotifyCaller \/ NotifyTooLate
    <2>1. UNCHANGED <<incoming, hostVars>>
      BY <1>1 DEF EndReceive, EndSend, EndAccept, WorkerGoes, NotifyCaller, NotifyTooLate
    <2>2. /\ worker' \in {"receive", "send", "accept", "notify", "stuck"}
          /\ mainPc' \in {mainPc, "predicate"} /\ late' \in {late, TRUE}
      BY <1>1 DEF EndReceive, EndSend, EndAccept, WorkerGoes, NotifyCaller, NotifyTooLate,
                  mainVars, rendezvousVars
    <2>3. UNCHANGED <<role, session, asked, overlapped, requested, returned, reply, outgoing, countVars>>
      BY <1>1 DEF EndReceive, EndSend, EndAccept, WorkerGoes, NotifyCaller, NotifyTooLate,
                  mainVars, rendezvousVars
    <2>4. OtherTypes'
      BY <1>0, <2>2, <2>3 DEF OtherTypes, countVars
    <2>5. EventTypes'
      BY <1>0, <2>1, EventTypesNext
    <2> QED BY <2>4, <2>5, TypesNext
  <1>2. CASE TakeRequest
    <2>1. /\ requested' = FALSE /\ returned' = TRUE /\ worker' = "notify"
          /\ UNCHANGED <<mainVars, late, outgoing, incoming, packets, commands>>
          /\ \/ /\ conns < MaxConns /\ conns' = conns + 1 /\ reply' = conns'
                /\ peer' = [peer EXCEPT ![ClientSlot] = "connecting"]
                /\ conn' = [conn EXCEPT ![ClientSlot] = conns']
                /\ clients' = clients \cup {ClientSlot}
             \/ reply' = 0 /\ UNCHANGED <<conns, hostVars>>
      BY <1>2 DEF TakeRequest
    <2>2. conns' \in 0..MaxConns /\ reply' \in 0..MaxConns
      BY <1>0, <2>1, NextConnection, Bounds DEF OtherTypes
    <2>3. OtherTypes'
      BY <1>0, <2>1, <2>2 DEF OtherTypes, mainVars
    <2>4. EventTypes'
      <3>1. CASE reply' = 0 /\ UNCHANGED <<conns, hostVars>>
        BY <1>0, <2>1, <3>1, EventTypesNext DEF hostVars
      <3>2. CASE /\ conns < MaxConns /\ conns' = conns + 1 /\ reply' = conns'
                 /\ peer' = [peer EXCEPT ![ClientSlot] = "connecting"]
                 /\ conn' = [conn EXCEPT ![ClientSlot] = conns']
                 /\ clients' = clients \cup {ClientSlot}
        <4>1. conns' \in Conns /\ conns' \in 0..MaxConns
          BY <1>0, <3>2, NextConnection
        <4>2. /\ peer' \in [Slots -> States] /\ conn' \in [Slots -> 0..MaxConns]
              /\ \A s \in Slots : peer'[s] # "free" => conn'[s] \in Conns
          BY <1>0, <3>2, <4>1, SlotsAssumption DEF EventTypes, States
        <4> QED BY <1>0, <2>1, <3>2, <4>2, SlotsAssumption DEF EventTypes
      <3> QED BY <2>1, <3>1, <3>2
    <2> QED BY <2>3, <2>4, TypesNext
  <1> QED BY <1>1, <1>2

LEMMA TypesKeep == Types /\ [Next]_vars => Types'
  <1> SUFFICES ASSUME Types, [Next]_vars PROVE Types'
    OBVIOUS
  <1>1. CASE UNCHANGED vars
    BY <1>1, TypesParts, TypesNext, EventTypesNext, OtherTypesNext
    DEF vars, mainVars, rendezvousVars, hostVars, countVars
  <1>2. CASE Next
    BY <1>2, MainTypes, ReceiveTypes, OutgoingTypes, WorkerTypes DEF Next, WorkerLoop
  <1> QED BY <1>1, <1>2
-----------------------------------------------------------------------------
(* The server *)

Safe == mainPc = "crashed" => overlapped

\* The first event of the queue is the foremost of its slot.
LEMMA FirstMeets ==
  ASSUME Types, ServerFits, incoming # <<>>
  PROVE  LET e == Head(incoming)
         IN  /\ e \in Events /\ e.slot \in Slots
             /\ Links(session[e.slot].state = "none", session[e.slot].conn, e)
  <1>1. incoming \in Seq(Events)
    BY DEF Types, TypeOK
  <1>2. /\ 1 \in DOMAIN incoming /\ Head(incoming) = incoming[1] /\ Head(incoming) \in Events
        /\ \A k \in DOMAIN incoming : k \in Nat /\ k >= 1
    BY <1>1, Tailed
  <1>3. Foremost(incoming, 1)
    BY <1>2 DEF Foremost
  <1>4. incoming[1].slot \in Slots
    BY <1>1, <1>2, SlotsOfEvents
  <1> QED BY <1>2, <1>3, <1>4 DEF ServerFits, Chain

LEMMA ServerPoll ==
  ASSUME Types, role = "server", ServerFits, Safe, Poll
  PROVE  ServerFits' /\ Safe'
  <1> DEFINE e == Head(incoming)
  <1>1. /\ incoming # <<>> /\ incoming \in Seq(Events) /\ session \in [Slots -> Sessions]
        /\ mainPc = "free" /\ incoming' = Tail(incoming)
        /\ UNCHANGED <<overlapped, requested, clients, conn, peer>>
    BY DEF Poll, Types, TypeOK, hostVars, rendezvousVars
  <1>2. /\ e \in Events /\ e.slot \in Slots
        /\ Links(session[e.slot].state = "none", session[e.slot].conn, e)
    BY <1>1, FirstMeets
  <1>3. ~(session[e.slot].state = "none" /\ ~(e.kind = "connect" /\ role = "server"))
    BY <1>2 DEF Links
  <1>4. /\ mainPc' = "free"
        /\ session' = CASE e.kind = "connect" ->
                             [session EXCEPT ![e.slot] = [state |-> "up", conn |-> e.conn]]
                        [] e.kind = "disconnect" -> [session EXCEPT ![e.slot] = NoSession]
                        [] OTHER -> session
    BY <1>1, <1>3 DEF Poll
  <1> HIDE DEF e
  <1>5. /\ e.kind = "connect" => session'[e.slot] = [state |-> "up", conn |-> e.conn]
        /\ e.kind = "disconnect" => session'[e.slot] = NoSession
        /\ e.kind \notin {"connect", "disconnect"} => session'[e.slot] = session[e.slot]
        /\ \A s \in Slots \ {e.slot} : session'[s] = session[s]
    BY <1>1, <1>2, <1>4
  <1>6. session'[e.slot].state = "none" <=> e.kind = "disconnect"
    BY <1>2, <1>5 DEF Links, NoSession
  <1>7. e.kind # "disconnect" => session'[e.slot].conn = e.conn
    BY <1>2, <1>5 DEF Links
  <1>8. Chain(incoming', session', clients, conn)
    <2>1. Chain(incoming, session, clients, conn)
      BY DEF ServerFits
    <2> DEFINE sessions1 == session'
    <2>2. /\ sessions1[e.slot].state = "none" <=> e.kind = "disconnect"
          /\ e.kind # "disconnect" => sessions1[e.slot].conn = e.conn
          /\ \A s \in Slots \ {e.slot} : sessions1[s] = session[s]
      BY <1>5, <1>6, <1>7
    <2> HIDE DEF sessions1
    <2>3. Chain(Tail(incoming), sessions1, clients, conn)
      BY <1>1, <2>1, <2>2, ChainTail DEF e
    <2> QED BY <1>1, <2>3 DEF sessions1
  <1>9. \A s \in Slots : session'[s].state # "connecting"
    BY <1>5 DEF ServerFits, NoSession
  <1> QED BY <1>1, <1>4, <1>8, <1>9 DEF ServerFits, Safe

\* An event appended by the worker.
LEMMA ServerAppend ==
  ASSUME Types, ServerFits, Safe,
         NEW s \in Slots, NEW kind \in Kinds, NEW c \in 0..MaxConns,
         Links(s \notin clients, conn[s], [slot |-> s, kind |-> kind, conn |-> c]),
         Agrees(kind = "disconnect", c, s \in clients', conn'[s]),
         incoming' = Append(incoming, [slot |-> s, kind |-> kind, conn |-> c]),
         UNCHANGED <<mainPc, overlapped, requested, session>>,
         \A t \in Slots \ {s} :
           (t \in clients' <=> t \in clients) /\ conn'[t] = conn[t] /\ peer'[t] = peer[t],
         peer'[s] # "connecting", s \in clients' <=> peer'[s] # "free"
  PROVE  ServerFits' /\ Safe'
  <1> DEFINE e == [slot |-> s, kind |-> kind, conn |-> c]  entries1 == clients'  conns1 == conn'
  <1>1. e \in Events /\ incoming \in Seq(Events)
    BY EventType DEF Types, TypeOK
  <1>2. /\ e.slot = s /\ e.kind = kind /\ e.conn = c
        /\ Links(s \notin clients, conn[s], e)
        /\ Agrees(e.kind = "disconnect", e.conn, s \in entries1, conns1[s])
        /\ \A t \in Slots \ {s} : (t \in entries1 <=> t \in clients) /\ conns1[t] = conn[t]
        /\ Chain(incoming, session, clients, conn) /\ incoming' = Append(incoming, e)
    BY DEF ServerFits
  <1> HIDE DEF e, entries1, conns1
  <1>3. Chain(Append(incoming, e), session, entries1, conns1)
    BY <1>1, <1>2, ChainAppend
  <1>4. Chain(incoming', session', clients', conn')
    BY <1>2, <1>3 DEF entries1, conns1
  <1>5. \A t \in Slots : peer'[t] # "connecting" /\ session'[t].state # "connecting"
    BY DEF ServerFits
  <1>6. \A t \in Slots : t \in clients' <=> peer'[t] # "free"
    BY DEF ServerFits
  <1> QED BY <1>4, <1>5, <1>6 DEF ServerFits, Safe

LEMMA ServerReceives ==
  ASSUME Types, role = "server", ServerFits, Safe, NEW s \in Slots,
         ReceiveConnection(s) \/ ReceivePacket(s) \/ ReceiveDisconnection(s)
  PROVE  ServerFits' /\ Safe'
  <1>0. /\ UNCHANGED <<mainPc, overlapped, requested, session>>
        /\ peer \in [Slots -> States] /\ conn \in [Slots -> 0..MaxConns] /\ clients \subseteq Slots
        /\ conn[s] \in 0..MaxConns /\ conns \in 0..MaxConns /\ TypeOK
        /\ peer[s] # "connecting" /\ (s \in clients <=> peer[s] # "free")
    BY DEF Receive, ReceiveConnection, ReceivePacket, ReceiveDisconnection, mainVars,
           rendezvousVars, Types, TypeOK, States, ServerFits
  <1>1. CASE ReceiveConnection(s)
    <2>1. /\ peer' = [peer EXCEPT ![s] = "connected"] /\ clients' = clients \cup {s}
          /\ incoming' = Append(incoming, [slot |-> s, kind |-> "connect", conn |-> conn'[s]])
          /\ peer[s] = "free" /\ conns < MaxConns /\ conns' = conns + 1
          /\ conn' = [conn EXCEPT ![s] = conns']
      BY <1>0, <1>1 DEF Receive, ReceiveConnection
    <2> DEFINE c == conns + 1
    <2>2. c \in 0..MaxConns /\ "connect" \in Kinds
      BY <1>0, <2>1, NextConnection DEF Kinds
    <2>3. conn'[s] = c /\ peer'[s] = "connected" /\ s \in clients'
          /\ \A t \in Slots \ {s} :
               (t \in clients' <=> t \in clients) /\ conn'[t] = conn[t] /\ peer'[t] = peer[t]
      BY <1>0, <2>1
    <2> HIDE DEF c
    <2>4. Links(s \notin clients, conn[s], [slot |-> s, kind |-> "connect", conn |-> c])
          /\ Agrees("connect" = "disconnect", c, s \in clients', conn'[s])
      BY <1>0, <2>1, <2>3 DEF Links, Agrees
    <2>5. incoming' = Append(incoming, [slot |-> s, kind |-> "connect", conn |-> c])
      BY <2>1, <2>3
    <2> QED BY <1>0, <2>2, <2>3, <2>4, <2>5, ServerAppend
  <1>2. CASE ReceivePacket(s)
    <2>1. /\ peer' = [peer EXCEPT ![s] = peer[s]] /\ peer[s] # "free"
          /\ incoming' = Append(incoming, [slot |-> s, kind |-> "packet", conn |-> conn[s]])
          /\ UNCHANGED <<clients, conn>>
      BY <1>2 DEF Receive, ReceivePacket, Event
    <2>2. peer' = peer /\ "packet" \in Kinds
      BY <1>0, <2>1 DEF Kinds
    <2>3. Links(s \notin clients, conn[s], [slot |-> s, kind |-> "packet", conn |-> conn[s]])
          /\ Agrees("packet" = "disconnect", conn[s], s \in clients', conn'[s])
      BY <1>0, <2>1 DEF Links, Agrees
    <2> QED BY <1>0, <2>1, <2>2, <2>3, ServerAppend
  <1>3. CASE ReceiveDisconnection(s)
    <2>1. /\ peer' = [peer EXCEPT ![s] = "free"] /\ clients' = clients \ {s} /\ peer[s] # "free"
          /\ incoming' = Append(incoming, [slot |-> s, kind |-> "disconnect", conn |-> conn[s]])
          /\ conn' = conn
      BY <1>3 DEF Receive, ReceiveDisconnection, Event
    <2>2. /\ "disconnect" \in Kinds /\ peer'[s] = "free" /\ s \notin clients'
          /\ \A t \in Slots \ {s} :
               (t \in clients' <=> t \in clients) /\ conn'[t] = conn[t] /\ peer'[t] = peer[t]
      BY <1>0, <2>1 DEF Kinds
    <2>3. Links(s \notin clients, conn[s], [slot |-> s, kind |-> "disconnect", conn |-> conn[s]])
          /\ Agrees("disconnect" = "disconnect", conn[s], s \in clients', conn'[s])
      BY <1>0, <2>1, <2>2 DEF Links, Agrees
    <2> QED BY <1>0, <2>1, <2>2, <2>3, ServerAppend
  <1> QED BY <1>1, <1>2, <1>3

\* The steps that touch neither the events nor the sessions.
LEMMA ServerUnchanged ==
  ASSUME ServerFits, Safe, UNCHANGED <<mainPc, overlapped, requested, session, incoming, clients, conn>>,
         \A s \in Slots : peer'[s] # "connecting" /\ (peer'[s] = "free" <=> peer[s] = "free")
  PROVE  ServerFits' /\ Safe'
  <1>1. Chain(incoming', session', clients', conn')
    BY DEF ServerFits
  <1> QED BY <1>1 DEF ServerFits, Safe

LEMMA ServerSends ==
  ASSUME Types, role = "server", ServerFits, Safe, Kick \/ Disconnect \/ Send \/ QueryPeerInfo
  PROVE  ServerFits' /\ Safe'
  <1> DEFINE s == Head(outgoing).slot
  <1>1. /\ outgoing # <<>> /\ conn' = conn /\ UNCHANGED <<mainPc, overlapped, requested, session>>
    BY DEF Kick, Disconnect, Send, QueryPeerInfo, TakeOutgoing, mainVars, rendezvousVars
  <1>2. s \in Slots
    <2>1. outgoing \in Seq([slot : Slots, kind : Commands])
      BY DEF Types, TypeOK
    <2>2. Head(outgoing) \in [slot : Slots, kind : Commands]
      BY <1>1, <2>1, Tailed
    <2> QED BY <2>2
  <1> HIDE DEF s
  <1>3. /\ peer \in [Slots -> States] /\ conn \in [Slots -> 0..MaxConns] /\ clients \subseteq Slots
        /\ conn[s] \in 0..MaxConns
        /\ \A t \in Slots : peer[t] # "connecting" /\ (t \in clients <=> peer[t] # "free")
    BY <1>2 DEF Types, TypeOK, States, ServerFits
  <1>4. CASE Kick /\ s \in clients
    <2>1. /\ peer' = [peer EXCEPT ![s] = "free"] /\ clients' = clients \ {s}
          /\ incoming' = Append(incoming, [slot |-> s, kind |-> "disconnect", conn |-> conn[s]])
      BY <1>4 DEF Kick, s, Event
    <2>2. /\ "disconnect" \in Kinds /\ peer'[s] = "free" /\ s \notin clients'
          /\ \A t \in Slots \ {s} :
               (t \in clients' <=> t \in clients) /\ conn'[t] = conn[t] /\ peer'[t] = peer[t]
      BY <1>1, <1>2, <1>3, <2>1 DEF Kinds
    <2>3. Links(s \notin clients, conn[s], [slot |-> s, kind |-> "disconnect", conn |-> conn[s]])
          /\ Agrees("disconnect" = "disconnect", conn[s], s \in clients', conn'[s])
      BY <1>4, <2>2 DEF Links, Agrees
    <2> QED BY <1>1, <1>2, <1>3, <2>1, <2>2, <2>3, ServerAppend
  <1>5. CASE QueryPeerInfo /\ s \in clients
    <2>1. /\ peer' = peer /\ clients' = clients
          /\ incoming' = Append(incoming, [slot |-> s, kind |-> "info", conn |-> conn[s]])
      BY <1>5 DEF QueryPeerInfo, s, Event
    <2>2. Links(s \notin clients, conn[s], [slot |-> s, kind |-> "info", conn |-> conn[s]])
          /\ Agrees("info" = "disconnect", conn[s], s \in clients', conn'[s])
      BY <1>1, <1>5, <2>1 DEF Links, Agrees
    <2>3. "info" \in Kinds
      BY DEF Kinds
    <2> QED BY <1>1, <1>2, <1>3, <2>1, <2>2, <2>3, ServerAppend
  <1>6. CASE Send \/ (Kick /\ s \notin clients) \/ (QueryPeerInfo /\ s \notin clients)
    <2>1. UNCHANGED <<incoming, clients, peer>>
      BY <1>6 DEF Send, Kick, QueryPeerInfo, s
    <2> QED BY <1>1, <1>3, <2>1, ServerUnchanged
  <1>7. CASE Disconnect
    <2>1. /\ UNCHANGED <<incoming, clients>>
          /\ \/ peer' = peer
             \/ \E state \in {"closing", "lingering"} :
                  peer[s] # "free" /\ peer' = [peer EXCEPT ![s] = state]
      BY <1>2, <1>3, <1>7 DEF Disconnect, s
    <2>2. \A t \in Slots : peer'[t] # "connecting" /\ (peer'[t] = "free" <=> peer[t] = "free")
      BY <1>2, <1>3, <2>1
    <2> QED BY <1>1, <2>1, <2>2, ServerUnchanged
  <1> QED BY <1>4, <1>5, <1>6, <1>7

LEMMA ServerKeeps ==
  ASSUME Types, role = "server", ServerFits, Safe, [Next]_vars
  PROVE  ServerFits' /\ Safe'
  <1>1. CASE Poll
    BY <1>1, ServerPoll
  <1>2. ASSUME NEW s \in Slots, ReceiveConnection(s) \/ ReceivePacket(s) \/ ReceiveDisconnection(s)
        PROVE  ServerFits' /\ Safe'
    BY <1>2, ServerReceives
  <1>3. CASE Kick \/ Disconnect \/ Send \/ QueryPeerInfo
    BY <1>3, ServerSends
  \* The server never calls ConnectTo.
  <1>4. CASE ConnectTo \/ ReturnFromConnectTo \/ WaitForReply \/ SpuriousWakeup \/ TakeRequest \/ NotifyCaller
    BY <1>4 DEF ConnectTo, ReturnFromConnectTo, WaitForReply, SpuriousWakeup, TakeRequest,
                NotifyCaller, ServerFits
  <1>5. CASE \/ \E s \in Slots, kind \in Commands : Command(s, kind)
             \/ EndReceive \/ EndSend \/ NotifyTooLate \/ EndAccept \/ UNCHANGED vars
    <2>1. UNCHANGED <<mainPc, overlapped, requested, session, incoming, clients, conn, peer>>
      BY <1>5 DEF Command, EndReceive, EndSend, NotifyTooLate, EndAccept, WorkerGoes, vars,
                  mainVars, rendezvousVars, hostVars
    <2> QED BY <2>1, ServerUnchanged DEF ServerFits
  <1> QED BY <1>1, <1>2, <1>3, <1>4, <1>5 DEF Next, WorkerLoop
-----------------------------------------------------------------------------
(* The client *)

\* What the application of the client is owed, whoever asks for it.
Fits == EventsFit(incoming, Registered, ClientSlot \in clients, conn[ClientSlot], peer[ClientSlot])

LEMMA ClientTypes ==
  ASSUME Types
  PROVE  /\ ClientSlot \in Slots /\ incoming \in Seq(Events) /\ session \in [Slots -> Sessions]
         /\ session[ClientSlot] \in Sessions /\ peer \in [Slots -> States]
         /\ conn \in [Slots -> 0..MaxConns] /\ clients \subseteq Slots
         /\ conn[ClientSlot] \in 0..MaxConns /\ overlapped \in BOOLEAN
         /\ (ClientSlot \in clients) \in BOOLEAN
  BY SlotsAssumption DEF Types, TypeOK, States

\* The steps that touch neither the events nor the session.
LEMMA ClientUnchanged ==
  ASSUME ClientFits, Safe,
         UNCHANGED <<overlapped, requested, returned, reply, session, incoming, hostVars>>,
         Inside' <=> Inside, mainPc' = "crashed" => mainPc = "crashed"
  PROVE  ClientFits' /\ Safe'
  <1>1. Registered' = Registered
    BY DEF Registered
  <1> QED BY <1>1 DEF ClientFits, Safe, hostVars

LEMMA ClientConnects ==
  ASSUME Types, ClientFits, Safe, ConnectTo
  PROVE  ClientFits' /\ Safe'
  <1>1. /\ mainPc = "free" /\ mainPc' = "predicate" /\ requested' = TRUE /\ returned' = FALSE
        /\ session[ClientSlot].state # "up"
        /\ overlapped' = (overlapped \/ session[ClientSlot].state = "connecting")
        /\ UNCHANGED <<session, incoming, clients, conn, peer>>
    BY DEF ConnectTo, hostVars
  <1>2. Inside' /\ ~Inside
    BY <1>1 DEF Inside
  <1>3. ASSUME ~overlapped' PROVE ~overlapped /\ session[ClientSlot].state = "none"
    <2>1. session[ClientSlot].state \in {"none", "connecting", "up"}
      BY ClientTypes DEF Sessions
    <2> QED BY <1>1, <1>3, <2>1
  <1>4. Registered' = Registered
    BY <1>1, <1>2 DEF Registered
  <1> QED BY <1>1, <1>2, <1>3, <1>4 DEF ClientFits, Safe

LEMMA ClientRegisters ==
  ASSUME Types, ClientFits, Safe, ReturnFromConnectTo
  PROVE  ClientFits' /\ Safe'
  <1>1. /\ mainPc = "predicate" /\ mainPc' = "free" /\ returned
        /\ session' = IF reply = 0 THEN session
                      ELSE [session EXCEPT ![ClientSlot] = [state |-> "connecting", conn |-> reply]]
        /\ UNCHANGED <<overlapped, requested, returned, reply, incoming, clients, conn, peer>>
    BY DEF ReturnFromConnectTo, rendezvousVars, hostVars
  <1>2. Inside /\ ~Inside'
    BY <1>1 DEF Inside
  <1>3. ~requested
    BY <1>1 DEF ClientFits
  <1>4. Registered' = Registered
    BY <1>1, <1>2, ClientTypes DEF Registered
  <1> QED BY <1>1, <1>2, <1>3, <1>4 DEF ClientFits, Safe

\* The connection the request makes is the one that will be registered.
LEMMA ClientRequests ==
  ASSUME Types, ClientFits, Safe, TakeRequest
  PROVE  ClientFits' /\ Safe'
  <1>1. /\ requested /\ requested' = FALSE /\ returned' = TRUE
        /\ UNCHANGED <<mainPc, session, overlapped, incoming>>
        /\ \/ /\ conns < MaxConns /\ conns' = conns + 1 /\ reply' = conns'
              /\ peer' = [peer EXCEPT ![ClientSlot] = "connecting"]
              /\ conn' = [conn EXCEPT ![ClientSlot] = conns']
              /\ clients' = clients \cup {ClientSlot}
           \/ reply' = 0 /\ UNCHANGED hostVars
    BY DEF TakeRequest, mainVars
  <1>2. Inside /\ Inside' /\ ~returned
    BY <1>1 DEF ClientFits, Inside
  <1>3. clients' \subseteq {ClientSlot}
    BY <1>1 DEF ClientFits, hostVars
  <1>4. ASSUME ~overlapped
        PROVE  Inside' => session'[ClientSlot].state = "none"
    BY <1>1, <1>2, <1>4 DEF ClientFits
  <1>5. ASSUME ~overlapped
        PROVE  EventsFit(incoming', Registered', ClientSlot \in clients', conn'[ClientSlot], peer'[ClientSlot])
    <2>1. Registered = session[ClientSlot] /\ Registered.state = "none"
      BY <1>2, <1>5 DEF Registered, ClientFits
    <2>2. EventsFit(incoming, Registered, ClientSlot \in clients, conn[ClientSlot], peer[ClientSlot])
      BY <1>5 DEF ClientFits
    <2>3. DOMAIN incoming = {}
      BY <2>1, <2>2 DEF EventsFit
    <2>4. CASE reply' = 0 /\ UNCHANGED hostVars
      <3>1. Registered' = Registered
        BY <1>1, <2>1, <2>4 DEF Registered
      <3> QED BY <1>1, <2>2, <2>4, <3>1 DEF hostVars
    <2>5. CASE /\ conns < MaxConns /\ conns' = conns + 1 /\ reply' = conns'
               /\ peer' = [peer EXCEPT ![ClientSlot] = "connecting"]
               /\ conn' = [conn EXCEPT ![ClientSlot] = conns']
               /\ clients' = clients \cup {ClientSlot}
      <3>1. conns' \in Conns /\ conns' # 0
        BY <2>5, NextConnection, Bounds DEF Types
      <3>2. Registered' = [state |-> "connecting", conn |-> conns']
        BY <1>1, <1>2, <2>5, <3>1 DEF Registered
      <3>3. /\ Registered'.state # "none" /\ Registered'.conn = conns'
            /\ ClientSlot \in clients' /\ conn'[ClientSlot] = conns'
            /\ peer'[ClientSlot] = "connecting"
        BY <2>5, <3>2, ClientTypes
      <3>4. DOMAIN incoming' = {} /\ peer'[ClientSlot] \notin Active
        BY <1>1, <2>3, <3>3 DEF Active
      <3> QED BY <3>3, <3>4 DEF EventsFit
    <2> QED BY <1>1, <2>4, <2>5
  <1> QED BY <1>1, <1>3, <1>4, <1>5 DEF ClientFits, Safe

LEMMA ClientPoll ==
  ASSUME Types, role = "client", ClientFits, Safe, Poll
  PROVE  ClientFits' /\ Safe'
  <1> DEFINE e == Head(incoming)
  <1>1. /\ incoming # <<>> /\ mainPc = "free" /\ incoming' = Tail(incoming)
        /\ mainPc' \in {"free", "crashed"} /\ 1 \in DOMAIN incoming /\ e = incoming[1]
        /\ UNCHANGED <<overlapped, requested, returned, reply, clients, conn, peer>>
    BY Tailed, ClientTypes DEF Poll, hostVars, rendezvousVars
  <1>2. ~Inside /\ ~Inside' /\ ~requested
    BY <1>1 DEF Inside, ClientFits
  <1>3. CASE overlapped
    BY <1>1, <1>2, <1>3 DEF ClientFits, Safe
  <1>4. CASE ~overlapped
    <2>1. Registered = session[ClientSlot] /\ Registered' = session'[ClientSlot]
      BY <1>2 DEF Registered
    <2>2. Fits
      BY <1>4 DEF ClientFits, Fits
    <2>3. e.slot = ClientSlot /\ session[e.slot].state # "none"
      BY <1>1, <2>1, <2>2 DEF EventsFit, Fits
    <2>4. /\ mainPc' = mainPc
          /\ session' = CASE e.kind = "connect" ->
                               [session EXCEPT ![e.slot] = [state |-> "up", conn |-> e.conn]]
                          [] e.kind = "disconnect" -> [session EXCEPT ![e.slot] = NoSession]
                          [] OTHER -> session
      BY <2>3 DEF Poll
    <2> DEFINE registered1 == session'[ClientSlot]
    <2>5. \/ e.kind = "connect" /\ registered1 = [state |-> "up", conn |-> e.conn]
          \/ e.kind = "disconnect" /\ registered1 = NoSession
          \/ e.kind \notin {"connect", "disconnect"} /\ registered1 = Registered
      <3>0. ClientSlot \in DOMAIN session
        BY ClientTypes
      <3>1. CASE e.kind = "connect"
        BY <2>3, <2>4, <3>0, <3>1
      <3>2. CASE e.kind = "disconnect"
        BY <2>3, <2>4, <3>0, <3>2
      <3>3. CASE e.kind \notin {"connect", "disconnect"}
        BY <2>1, <2>4, <3>3
      <3> QED BY <3>1, <3>2, <3>3
    <2> HIDE DEF registered1
    <2>6. EventsFit(Tail(incoming), registered1, ClientSlot \in clients, conn[ClientSlot], peer[ClientSlot])
      BY <1>1, <2>2, <2>5, EventsTail, ClientTypes DEF Fits
    <2>7. EventsFit(incoming', Registered', ClientSlot \in clients', conn'[ClientSlot], peer'[ClientSlot])
      BY <1>1, <2>1, <2>6 DEF registered1
    <2> QED BY <1>1, <1>2, <2>4, <2>7 DEF ClientFits, Safe
  <1> QED BY <1>3, <1>4

\* An event appended by the worker, of a slot that has an entry.
LEMMA ClientAppend ==
  ASSUME Types, ClientFits, Safe, ClientSlot \in clients,
         NEW kind \in Kinds,
         incoming' = Append(incoming, [slot |-> ClientSlot, kind |-> kind, conn |-> conn[ClientSlot]]),
         UNCHANGED <<mainPc, overlapped, requested, returned, reply, session, conn>>,
         clients' \subseteq {ClientSlot},
         kind = "disconnect" <=> ClientSlot \notin clients',
         ClientSlot \notin clients' => peer'[ClientSlot] = "free",
         kind = "packet" => peer[ClientSlot] \in Active,
         peer'[ClientSlot] \in Active => peer[ClientSlot] \in Active \/ kind = "connect"
  PROVE  ClientFits' /\ Safe'
  <1> DEFINE c == conn[ClientSlot]  e == [slot |-> ClientSlot, kind |-> kind, conn |-> c]
             state == peer[ClientSlot]  state1 == peer'[ClientSlot]  isClient1 == ClientSlot \in clients'
  <1>1. e \in Events /\ incoming \in Seq(Events)
    BY EventType, ClientTypes
  <1>2. Registered' = Registered /\ (Inside' <=> Inside)
    BY DEF Registered, Inside
  <1>3. ASSUME ~overlapped
        PROVE  EventsFit(incoming', Registered', ClientSlot \in clients', conn'[ClientSlot], peer'[ClientSlot])
    <2>1. /\ EventsFit(incoming, Registered, TRUE, c, state)
          /\ e.slot = ClientSlot /\ e.conn = c /\ e.kind = kind /\ isClient1 \in BOOLEAN
          /\ e.kind = "disconnect" <=> ~isClient1
          /\ ~isClient1 => state1 = "free"
          /\ e.kind = "packet" => state \in Active
          /\ state1 \in Active => state \in Active \/ e.kind = "connect"
      <3>1. EventsFit(incoming, Registered, TRUE, c, state)
        <4>1. EventsFit(incoming, Registered, ClientSlot \in clients, c, state)
          BY <1>3 DEF ClientFits
        <4>2. (ClientSlot \in clients) = TRUE
          OBVIOUS
        <4> QED BY <4>1, <4>2
      <3>2. e.slot = ClientSlot /\ e.conn = c /\ e.kind = kind
        OBVIOUS
      <3>3. isClient1 \in BOOLEAN
        OBVIOUS
      <3>4. /\ e.kind = "disconnect" <=> ~isClient1
            /\ ~isClient1 => state1 = "free"
        BY <3>2
      <3>5. /\ e.kind = "packet" => state \in Active
            /\ state1 \in Active => state \in Active \/ e.kind = "connect"
        BY <3>2
      <3> HIDE DEF e, isClient1, state, state1, c
      <3> QED BY <3>1, <3>2, <3>3, <3>4, <3>5
    <2> HIDE DEF e, c, state, state1, isClient1
    <2>2. EventsFit(Append(incoming, e), Registered, isClient1, c, state1)
      BY <1>1, <2>1, EventsAppend
    <2> QED BY <1>2, <2>2 DEF e, c, state1, isClient1
  <1> QED BY <1>2, <1>3 DEF ClientFits, Safe
\* Nothing more is said of a client that asked to connect while connecting.
LEMMA ClientOverlapped ==
  ASSUME ClientFits, Safe, overlapped,
         UNCHANGED <<mainPc, overlapped, requested, returned>>, clients' \subseteq {ClientSlot}
  PROVE  ClientFits' /\ Safe'
  BY DEF ClientFits, Safe, Inside

LEMMA ClientReceives ==
  ASSUME Types, role = "client", ClientFits, Safe, NEW s \in Slots,
         ReceiveConnection(s) \/ ReceivePacket(s) \/ ReceiveDisconnection(s)
  PROVE  ClientFits' /\ Safe'
  <1>0. /\ s = ClientSlot /\ UNCHANGED <<mainPc, overlapped, requested, returned, reply, session>>
        /\ peer \in [Slots -> States] /\ conn \in [Slots -> 0..MaxConns]
        /\ clients' \in {clients, clients \cup {s}, clients \ {s}}
    BY ClientTypes DEF Receive, ReceiveConnection, ReceivePacket, ReceiveDisconnection, mainVars,
                       rendezvousVars, HostSlots
  <1>1. clients \subseteq {ClientSlot} /\ clients' \subseteq {ClientSlot}
    BY <1>0 DEF ClientFits
  <1>2. CASE overlapped
    BY <1>0, <1>1, <1>2, ClientOverlapped
  <1>3. ASSUME ~overlapped, peer[ClientSlot] # "free"
        PROVE  ClientSlot \in clients
    BY <1>3 DEF ClientFits, EventsFit
  <1>4. CASE ~overlapped /\ ReceiveConnection(s)
    <2>1. /\ peer' = [peer EXCEPT ![s] = "connected"] /\ clients' = clients \cup {s}
          /\ incoming' = Append(incoming, [slot |-> s, kind |-> "connect", conn |-> conn'[s]])
          /\ peer[s] = "connecting" /\ conn' = conn
      BY <1>4 DEF Receive, ReceiveConnection
    <2>2. ClientSlot \in clients
      BY <1>0, <1>3, <1>4, <2>1
    <2>3. "connect" \in Kinds
      BY DEF Kinds
    <2> QED BY <1>0, <1>1, <2>1, <2>2, <2>3, ClientAppend
  <1>5. CASE ~overlapped /\ ReceivePacket(s)
    <2>1. /\ peer' = [peer EXCEPT ![s] = peer[s]] /\ peer[s] \in {"connected", "lingering"}
          /\ incoming' = Append(incoming, [slot |-> s, kind |-> "packet", conn |-> conn[s]])
          /\ UNCHANGED <<clients, conn>>
      BY <1>5 DEF Receive, ReceivePacket, Event
    <2>2. ClientSlot \in clients
      BY <1>0, <1>3, <1>5, <2>1
    <2>3. "packet" \in Kinds /\ peer' = peer /\ peer[s] \in Active
      BY <1>0, <2>1 DEF Kinds, Active
    <2> QED BY <1>0, <1>1, <2>1, <2>2, <2>3, ClientAppend
  <1>6. CASE ~overlapped /\ ReceiveDisconnection(s)
    <2>1. /\ peer' = [peer EXCEPT ![s] = "free"] /\ clients' = clients \ {s} /\ peer[s] # "free"
          /\ incoming' = Append(incoming, [slot |-> s, kind |-> "disconnect", conn |-> conn[s]])
          /\ conn' = conn
      BY <1>6 DEF Receive, ReceiveDisconnection, Event
    <2>2. ClientSlot \in clients
      BY <1>0, <1>3, <1>6, <2>1
    <2>3. "disconnect" \in Kinds /\ peer'[ClientSlot] = "free" /\ ClientSlot \notin clients'
          /\ peer'[ClientSlot] \notin Active
      BY <1>0, <2>1, ClientTypes DEF Kinds, Active
    <2> QED BY <1>0, <1>1, <2>1, <2>2, <2>3, ClientAppend
  <1> QED BY <1>2, <1>4, <1>5, <1>6

\* A disconnection may reset a peer that is connecting: its entry stays, and
\* nothing more is heard of it.
LEMMA ClientDisconnects ==
  ASSUME Types, ClientFits, Safe, UNCHANGED <<mainPc, overlapped, requested, returned, reply, session>>,
         UNCHANGED <<incoming, clients, conn>>,
         peer'[ClientSlot] \in Active => peer[ClientSlot] \in Active,
         peer[ClientSlot] = "free" => peer'[ClientSlot] = "free"
  PROVE  ClientFits' /\ Safe'
  <1>1. Registered' = Registered /\ (Inside' <=> Inside)
    BY DEF Registered, Inside
  <1>2. ASSUME ~overlapped
        PROVE  EventsFit(incoming', Registered', ClientSlot \in clients', conn'[ClientSlot], peer'[ClientSlot])
    <2>1. EventsFit(incoming, Registered, ClientSlot \in clients, conn[ClientSlot], peer[ClientSlot])
      BY <1>2 DEF ClientFits
    <2>2. EventsFit(incoming, Registered, ClientSlot \in clients, conn[ClientSlot], peer'[ClientSlot])
      BY <2>1 DEF EventsFit
    <2> QED BY <1>1, <2>2
  <1> QED BY <1>1, <1>2 DEF ClientFits, Safe

LEMMA ClientSends ==
  ASSUME Types, role = "client", ClientFits, Safe, Kick \/ Disconnect \/ Send \/ QueryPeerInfo
  PROVE  ClientFits' /\ Safe'
  <1> DEFINE s == Head(outgoing).slot
  <1>1. conn' = conn /\ UNCHANGED <<mainPc, overlapped, requested, returned, reply, session>>
    BY DEF Kick, Disconnect, Send, QueryPeerInfo, TakeOutgoing, mainVars, rendezvousVars
  <1> HIDE DEF s
  <1>2. clients \subseteq {ClientSlot} /\ peer \in [Slots -> States]
    BY ClientTypes DEF ClientFits
  <1>3. CASE Kick /\ s \in clients
    <2>0. s = ClientSlot
      BY <1>2, <1>3
    <2>1. /\ peer' = [peer EXCEPT ![s] = "free"] /\ clients' = clients \ {s}
          /\ incoming' = Append(incoming, [slot |-> s, kind |-> "disconnect", conn |-> conn[s]])
      BY <1>3 DEF Kick, s, Event
    <2>2. "disconnect" \in Kinds /\ peer'[ClientSlot] = "free" /\ ClientSlot \notin clients'
          /\ peer'[ClientSlot] \notin Active /\ clients' \subseteq {ClientSlot}
      BY <1>2, <2>0, <2>1, ClientTypes DEF Kinds, Active
    <2> QED BY <1>1, <1>3, <2>0, <2>1, <2>2, ClientAppend
  <1>4. CASE QueryPeerInfo /\ s \in clients
    <2>0. s = ClientSlot
      BY <1>2, <1>4
    <2>1. /\ peer' = peer /\ clients' = clients
          /\ incoming' = Append(incoming, [slot |-> s, kind |-> "info", conn |-> conn[s]])
      BY <1>4 DEF QueryPeerInfo, s, Event
    <2>2. "info" \in Kinds
      BY DEF Kinds
    <2> QED BY <1>1, <1>2, <1>4, <2>0, <2>1, <2>2, ClientAppend
  <1>5. CASE Send \/ (Kick /\ s \notin clients) \/ (QueryPeerInfo /\ s \notin clients)
    <2>1. UNCHANGED <<incoming, clients, peer>>
      BY <1>5 DEF Send, Kick, QueryPeerInfo, s
    <2> QED BY <1>1, <2>1, ClientDisconnects
  <1>6. CASE Disconnect
    <2>1. /\ UNCHANGED <<incoming, clients>>
          /\ \/ peer' = peer
             \/ \E state \in {"closing", "lingering"} :
                  peer[s] \in {"connected", "lingering"} /\ peer' = [peer EXCEPT ![s] = state]
             \/ peer[s] = "connecting" /\ peer' = [peer EXCEPT ![s] = "free"]
      BY <1>6 DEF Disconnect, s
    <2>2. /\ peer'[ClientSlot] \in Active => peer[ClientSlot] \in Active
          /\ peer[ClientSlot] = "free" => peer'[ClientSlot] = "free"
      <3>1. ClientSlot \in DOMAIN peer
        BY ClientTypes
      <3> QED BY <2>1, <3>1 DEF Active
    <2> QED BY <1>1, <2>1, <2>2, ClientDisconnects
  <1> QED BY <1>3, <1>4, <1>5, <1>6

LEMMA ClientKeeps ==
  ASSUME Types, role = "client", ClientFits, Safe, [Next]_vars
  PROVE  ClientFits' /\ Safe'
  <1>1. CASE ConnectTo \/ ReturnFromConnectTo \/ TakeRequest \/ Poll
    BY <1>1, ClientConnects, ClientRegisters, ClientRequests, ClientPoll
  <1>2. ASSUME NEW s \in Slots, ReceiveConnection(s) \/ ReceivePacket(s) \/ ReceiveDisconnection(s)
        PROVE  ClientFits' /\ Safe'
    BY <1>2, ClientReceives
  <1>3. CASE Kick \/ Disconnect \/ Send \/ QueryPeerInfo
    BY <1>3, ClientSends
  <1>4. CASE WaitForReply \/ SpuriousWakeup \/ NotifyCaller
    <2>1. /\ mainPc \in {"predicate", "waiting"} /\ mainPc' \in {"predicate", "waiting"}
          /\ UNCHANGED <<overlapped, requested, returned, reply, session, incoming, hostVars>>
      BY <1>4 DEF WaitForReply, SpuriousWakeup, NotifyCaller, rendezvousVars
    <2>2. Inside /\ Inside'
      BY <2>1 DEF Inside
    <2> QED BY <2>1, <2>2, ClientUnchanged
  <1>5. CASE \/ \E s \in Slots, kind \in Commands : Command(s, kind)
             \/ EndReceive \/ EndSend \/ NotifyTooLate \/ EndAccept \/ UNCHANGED vars
    <2>1. UNCHANGED <<mainPc, overlapped, requested, returned, reply, session, incoming, hostVars>>
      BY <1>5 DEF Command, EndReceive, EndSend, NotifyTooLate, EndAccept, WorkerGoes, vars,
                  mainVars, rendezvousVars
    <2>2. Inside' <=> Inside
      BY <2>1 DEF Inside
    <2> QED BY <2>1, <2>2, ClientUnchanged
  <1> QED BY <1>1, <1>2, <1>3, <1>4, <1>5 DEF Next, WorkerLoop
-----------------------------------------------------------------------------
(* The invariant *)

LEMMA InitInvariant == Init => IInv
  <1> SUFFICES ASSUME Init PROVE IInv
    OBVIOUS
  <1>1. /\ role \in {"server", "client"} /\ mainPc = "free"
        /\ requested = FALSE /\ returned = FALSE /\ reply = 0 /\ late = FALSE
        /\ outgoing = <<>> /\ incoming = <<>> /\ worker = "receive" /\ clients = {}
        /\ peer = [s \in Slots |-> "free"] /\ conn = [s \in Slots |-> 0]
        /\ conns = 0 /\ packets = 0 /\ commands = 0
        /\ session = [s \in Slots |-> NoSession] /\ asked = {} /\ overlapped = FALSE
    BY DEF Init
  <1>2. DOMAIN incoming = {} /\ incoming \in Seq(Events)
        /\ outgoing \in Seq([slot : Slots, kind : Commands])
    BY <1>1
  <1>3. OtherTypes
    <2>1. 0 \in 0..MaxPackets /\ 0 \in 0..MaxCommands
      BY BoundsAssumption
    <2>2. session \in [Slots -> Sessions] /\ \A s \in Slots : session[s].state = "none"
      BY <1>1, Bounds
    <2> QED BY <1>1, <1>2, <2>1, <2>2, Bounds DEF OtherTypes
  <1>4. EventTypes
    BY <1>1, <1>2, Bounds DEF EventTypes, States
  <1>5. Types
    BY <1>3, <1>4, TypesParts
  <1>6. ServerFits
    <2>1. Chain(incoming, session, clients, conn)
      BY <1>1, <1>2, Bounds DEF Chain, Agrees
    <2> QED BY <1>1, <2>1, Bounds DEF ServerFits
  <1>7. ClientFits
    <2>1. ~Inside /\ peer[ClientSlot] = "free"
      BY <1>1, SlotsAssumption DEF Inside
    <2>2. peer[ClientSlot] \notin Active
      BY <2>1 DEF Active
    <2>3. EventsFit(incoming, Registered, ClientSlot \in clients, conn[ClientSlot], peer[ClientSlot])
      BY <1>1, <1>2, <2>1, <2>2 DEF EventsFit
    <2> QED BY <1>1, <2>1, <2>3 DEF ClientFits
  <1> QED BY <1>1, <1>5, <1>6, <1>7 DEF IInv, Types

LEMMA RoleStays == [Next]_vars => role' = role
  BY DEF Next, vars, mainVars, ConnectTo, ReturnFromConnectTo, WaitForReply, SpuriousWakeup, Poll,
         Command, Receive, ReceiveConnection, ReceivePacket, ReceiveDisconnection, WorkerLoop,
         EndReceive, EndSend, EndAccept, WorkerGoes, TakeOutgoing, Kick, Disconnect, Send,
         QueryPeerInfo, TakeRequest, NotifyCaller, NotifyTooLate

LEMMA StepInvariant == IInv /\ [Next]_vars => IInv'
  <1> SUFFICES ASSUME IInv, [Next]_vars PROVE IInv'
    OBVIOUS
  <1>1. Types /\ Safe /\ role \in {"server", "client"}
    BY DEF IInv, Types, Safe, TypeOK
  <1>2. Types'
    BY <1>1, TypesKeep
  <1>3. role' = role
    BY RoleStays
  <1>4. CASE role = "server"
    <2>1. ServerFits' /\ Safe'
      BY <1>1, <1>4, ServerKeeps DEF IInv
    <2> QED BY <1>2, <1>3, <1>4, <2>1 DEF IInv, Types, Safe
  <1>5. CASE role = "client"
    <2>1. ClientFits' /\ Safe'
      BY <1>1, <1>5, ClientKeeps DEF IInv
    <2> QED BY <1>2, <1>3, <1>5, <2>1 DEF IInv, Types, Safe
  <1> QED BY <1>1, <1>4, <1>5

\* Only Poll takes an event from the queue.
LEMMA OnlyPollTakes ==
  ASSUME Types, [Next]_vars, incoming # <<>>, incoming' = Tail(incoming)
  PROVE  mainPc = "free"
  <1>1. incoming \in Seq(Events)
    BY DEF Types, TypeOK
  <1>2. incoming' # incoming /\ \A e \in Events : incoming' # Append(incoming, e)
    BY <1>1, TailIsShorter
  <1>3. CASE Poll
    BY <1>3 DEF Poll
  <1>4. ASSUME NEW s \in Slots, ReceiveConnection(s) \/ ReceivePacket(s) \/ ReceiveDisconnection(s)
        PROVE  FALSE
    <2>1. Types'
      BY TypesKeep
    <2>2. conn[s] \in 0..MaxConns /\ conn'[s] \in 0..MaxConns
      BY <2>1 DEF Types, TypeOK
    <2>3. \E kind \in Kinds, c \in 0..MaxConns :
            incoming' = Append(incoming, [slot |-> s, kind |-> kind, conn |-> c])
      BY <1>4, <2>2 DEF ReceiveConnection, ReceivePacket, ReceiveDisconnection, Event, Kinds
    <2> QED BY <1>2, <2>3, EventType
  <1>5. CASE Kick \/ Disconnect \/ Send \/ QueryPeerInfo
    <2> DEFINE s == Head(outgoing).slot
    <2>1. outgoing # <<>> /\ outgoing \in Seq([slot : Slots, kind : Commands])
      BY <1>5 DEF Kick, Disconnect, Send, QueryPeerInfo, TakeOutgoing, Types, TypeOK
    <2>2. Head(outgoing) \in [slot : Slots, kind : Commands]
      BY <2>1, Tailed
    <2>3. s \in Slots
      BY <2>2
    <2>4. conn[s] \in 0..MaxConns
      BY <2>3 DEF Types, TypeOK
    <2>5. \/ incoming' = incoming
          \/ \E kind \in Kinds :
               incoming' = Append(incoming, [slot |-> s, kind |-> kind, conn |-> conn[s]])
      BY <1>5 DEF Kick, Disconnect, Send, QueryPeerInfo, Event, Kinds
    <2> QED BY <1>2, <2>3, <2>4, <2>5, EventType
  <1>6. CASE \/ ConnectTo \/ ReturnFromConnectTo \/ WaitForReply \/ SpuriousWakeup
             \/ \E s \in Slots, kind \in Commands : Command(s, kind)
             \/ EndReceive \/ EndSend \/ TakeRequest \/ NotifyCaller \/ NotifyTooLate \/ EndAccept
             \/ UNCHANGED vars
    <2>1. incoming' = incoming
      BY <1>6 DEF vars, ConnectTo, ReturnFromConnectTo, WaitForReply, SpuriousWakeup, Command,
                  EndReceive, EndSend, EndAccept, WorkerGoes, TakeRequest, NotifyCaller, NotifyTooLate
    <2> QED BY <1>2, <2>1
  <1> QED BY <1>3, <1>4, <1>5, <1>6 DEF Next, WorkerLoop

-----------------------------------------------------------------------------
(* Theorems *)

\* The queue of incoming events always leads from what the application has to
\* what the worker has.
THEOREM Invariant == Spec => []IInv
  <1> QED BY InitInvariant, StepInvariant, PTL DEF Spec

\* The variables keep their types: in particular a connection asked to be
\* disconnected is one that was made.
THEOREM TypeCorrect == Spec => []TypeOK
  <1>1. IInv => TypeOK
    BY DEF IInv
  <1> QED BY <1>1, Invariant, PTL

\* What the handlers of the application rely on: each event they are given is of
\* the connection their session is of, however slots are reused, kicked or lost.
THEOREM EventsMeetTheirSessions == Spec => PollMeetsItsSession
  <1>1. IInv /\ [Next]_vars =>
          [incoming # <<>> /\ incoming' = Tail(incoming) /\ ~overlapped =>
             IF Head(incoming).kind = "connect" /\ role = "server"
               THEN Met.state = "none"
               ELSE /\ Met.conn = Head(incoming).conn
                    /\ Met.state = "connecting" => Head(incoming).kind # "packet"]_vars
    <2> SUFFICES ASSUME IInv, [Next]_vars, incoming # <<>>, incoming' = Tail(incoming), ~overlapped
                 PROVE  IF Head(incoming).kind = "connect" /\ role = "server"
                          THEN Met.state = "none"
                          ELSE /\ Met.conn = Head(incoming).conn
                               /\ Met.state = "connecting" => Head(incoming).kind # "packet"
      OBVIOUS
    <2>1. Types /\ role \in {"server", "client"}
      BY DEF IInv, Types, TypeOK
    <2>2. CASE role = "server"
      <3>1. /\ Head(incoming).slot \in Slots
            /\ Links(Met.state = "none", Met.conn, Head(incoming))
        BY <2>1, <2>2, FirstMeets DEF IInv, Met
      <3>2. Met.state # "connecting"
        BY <2>2, <3>1 DEF IInv, ServerFits, Met
      <3> QED BY <2>2, <3>1, <3>2 DEF Links
    <2>3. CASE role = "client"
      <3>1. mainPc = "free"
        BY <2>1, OnlyPollTakes
      <3>2. Registered = session[ClientSlot]
        BY <3>1 DEF Registered, Inside
      <3>3. EventsFit(incoming, session[ClientSlot], ClientSlot \in clients, conn[ClientSlot], peer[ClientSlot])
        BY <2>3, <3>2 DEF IInv, ClientFits
      <3>4. 1 \in DOMAIN incoming /\ Head(incoming) = incoming[1]
            /\ \A k \in DOMAIN incoming : k \in Nat /\ k >= 1
        BY <2>1, Tailed, ClientTypes
      <3>5. Met = session[ClientSlot]
        BY <3>3, <3>4 DEF EventsFit, Met
      <3>6. Met.conn = Head(incoming).conn
        BY <3>3, <3>4, <3>5 DEF EventsFit
      <3>7. ASSUME Met.state = "connecting", Head(incoming).kind = "packet" PROVE FALSE
        <4>1. PICK j \in DOMAIN incoming : j < 1
          BY <3>3, <3>4, <3>5, <3>7 DEF EventsFit
        <4> QED BY <3>4, <4>1
      <3> QED BY <2>3, <3>6, <3>7
    <2> QED BY <2>1, <2>2, <2>3
  <1> QED BY <1>1, Invariant, PTL DEF Spec, PollMeetsItsSession

\* A handler never dereferences the missing entry of a slot, on a server at all
\* and on a client that does not ask to connect while an attempt is under way.
THEOREM NoMissingEntry == Spec => [](mainPc = "crashed" => role = "client" /\ overlapped)
  <1>1. IInv => (mainPc = "crashed" => role = "client" /\ overlapped)
    BY DEF IInv, TypeOK, ServerFits
  <1> QED BY <1>1, Invariant, PTL

-----------------------------------------------------------------------------
(* The implementation of PeerSessions *)

\* Every connection waits in the queue once at most, and not when it has a
\* session; no two slots have sessions of the same.
OpensOnce(q) ==
  \A j, k \in DOMAIN q :
    q[j].kind = "connect" /\ q[k].kind = "connect" /\ q[j].conn = q[k].conn => j = k

Distinct ==
  role = "server" =>
    /\ OpensOnce(incoming)
    /\ \A c \in Opening(incoming) : c <= conns
    /\ \A s \in Slots : Held[s] <= conns /\ Held[s] \notin Opening(incoming)
    /\ \A s, t \in Slots : s # t /\ Held[s] = Held[t] => Held[s] = 0

LEMMA OpeningAppend ==
  ASSUME NEW q \in Seq(Events), NEW e \in Events, OpensOnce(q),
         e.kind = "connect" => e.conn \in Conns \ Opening(q)
  PROVE  /\ OpensOnce(Append(q, e))
         /\ Opening(Append(q, e)) =
              Opening(q) \cup (IF e.kind = "connect" THEN {e.conn} ELSE {})
  <1> DEFINE r == Append(q, e)  last == Len(q) + 1
  <1>1. /\ DOMAIN r = DOMAIN q \cup {last} /\ r[last] = e
        /\ \A k \in DOMAIN q : r[k] = q[k] /\ k # last
    BY Appended
  <1> HIDE DEF r, last
  <1>2. ASSUME NEW j \in DOMAIN r, NEW k \in DOMAIN r, r[j].kind = "connect",
               r[k].kind = "connect", r[j].conn = r[k].conn
        PROVE  j = k
    <2>1. CASE j \in DOMAIN q /\ k \in DOMAIN q
      BY <1>1, <1>2, <2>1 DEF OpensOnce
    <2>2. CASE j = last /\ k \in DOMAIN q
      BY <1>1, <1>2, <2>2 DEF Opening
    <2>3. CASE j \in DOMAIN q /\ k = last
      BY <1>1, <1>2, <2>3 DEF Opening
    <2> QED BY <1>1, <1>2, <2>1, <2>2, <2>3
  <1>3. ASSUME NEW c \in Conns
        PROVE  c \in Opening(r) <=> c \in Opening(q) \/ (e.kind = "connect" /\ c = e.conn)
    BY <1>1 DEF Opening
  <1>4. Opening(r) \subseteq Conns /\ Opening(q) \subseteq Conns
    BY DEF Opening
  <1> QED BY <1>2, <1>3, <1>4 DEF OpensOnce, r

LEMMA OpeningTail ==
  ASSUME NEW q \in Seq(Events), q # <<>>, OpensOnce(q)
  PROVE  /\ OpensOnce(Tail(q))
         /\ Opening(Tail(q)) =
              Opening(q) \ (IF Head(q).kind = "connect" THEN {Head(q).conn} ELSE {})
  <1> DEFINE r == Tail(q)
  <1>1. /\ Head(q) = q[1] /\ 1 \in DOMAIN q
        /\ \A k \in DOMAIN q : k \in Nat /\ k >= 1 /\ (k # 1 => k - 1 \in DOMAIN r)
        /\ \A k \in DOMAIN r : k \in Nat /\ k >= 1 /\ k + 1 \in DOMAIN q /\ r[k] = q[k + 1]
    BY Tailed
  <1> HIDE DEF r
  <1>2. ASSUME NEW j \in DOMAIN r, NEW k \in DOMAIN r, r[j].kind = "connect",
               r[k].kind = "connect", r[j].conn = r[k].conn
        PROVE  j = k
    <2>1. j + 1 = k + 1
      BY <1>1, <1>2 DEF OpensOnce
    <2> QED BY <1>1, <2>1
  <1>3. ASSUME NEW c \in Opening(r)
        PROVE  c \in Opening(q) /\ ~(Head(q).kind = "connect" /\ c = Head(q).conn)
    <2>1. PICK k \in DOMAIN r : r[k].kind = "connect" /\ r[k].conn = c
      BY DEF Opening
    <2>2. k + 1 \in DOMAIN q /\ q[k + 1].kind = "connect" /\ q[k + 1].conn = c /\ k + 1 # 1
      BY <1>1, <2>1
    <2> QED BY <1>1, <2>2 DEF Opening, OpensOnce
  <1>4. ASSUME NEW c \in Opening(q), ~(Head(q).kind = "connect" /\ c = Head(q).conn)
        PROVE  c \in Opening(r)
    <2>1. PICK k \in DOMAIN q : q[k].kind = "connect" /\ q[k].conn = c
      BY DEF Opening
    <2>2. k # 1
      BY <1>1, <1>4, <2>1
    <2>3. k - 1 \in DOMAIN r /\ r[k - 1] = q[k]
      BY <1>1, <2>2
    <2> QED BY <2>1, <2>3 DEF Opening
  <1> QED BY <1>2, <1>3, <1>4 DEF OpensOnce, r

\* What a step of a server does to its queue and to the sessions: it handles the
\* first event, it queues one of a new connection or of an old one, or neither.
Handles ==
  LET e == Head(incoming)
  IN  /\ incoming # <<>> /\ incoming' = Tail(incoming) /\ conns' = conns
      /\ e \in Events /\ e.slot \in Slots
      /\ Links(session[e.slot].state = "none", session[e.slot].conn, e)
      /\ session' = CASE e.kind = "connect" ->
                            [session EXCEPT ![e.slot] = [state |-> "up", conn |-> e.conn]]
                       [] e.kind = "disconnect" -> [session EXCEPT ![e.slot] = NoSession]
                       [] OTHER -> session

Queues(e) ==
  /\ e \in Events /\ incoming' = Append(incoming, e) /\ session' = session
  /\ IF e.kind = "connect"
       THEN e.conn = conns + 1 /\ conns' = conns + 1 /\ conns < MaxConns
       ELSE conns' = conns

LEMMA ReceiveQueues ==
  ASSUME Types, NEW s \in Slots, role = "server", ServerFits,
         ReceiveConnection(s) \/ ReceivePacket(s) \/ ReceiveDisconnection(s)
  PROVE  \E e \in Events : Queues(e)
  <1>1. session' = session /\ conn \in [Slots -> 0..MaxConns] /\ peer[s] # "connecting"
    BY DEF Receive, ReceiveConnection, ReceivePacket, ReceiveDisconnection, mainVars,
           Types, TypeOK, ServerFits
  <1>2. CASE ReceiveConnection(s)
    <2>1. /\ conns < MaxConns /\ conns' = conns + 1 /\ conn' = [conn EXCEPT ![s] = conns']
          /\ incoming' = Append(incoming, [slot |-> s, kind |-> "connect", conn |-> conn'[s]])
      BY <1>1, <1>2 DEF ReceiveConnection
    <2> DEFINE e == [slot |-> s, kind |-> "connect", conn |-> conns + 1]
    <2>2. conn'[s] = conns + 1 /\ conns + 1 \in 0..MaxConns
      BY <1>1, <2>1, NextConnection DEF Types
    <2>3. e \in Events
      BY <2>2 DEF Events
    <2>4. Queues(e)
      BY <1>1, <2>1, <2>2, <2>3 DEF Queues
    <2> QED BY <2>3, <2>4
  <1>3. CASE ReceivePacket(s) \/ ReceiveDisconnection(s)
    <2>1. PICK kind \in {"packet", "disconnect"} : incoming' = Append(incoming, Event(s, kind))
      BY <1>3 DEF ReceivePacket, ReceiveDisconnection
    <2>2. Event(s, kind) \in Events /\ Event(s, kind).kind # "connect" /\ conns' = conns
      BY <1>1, <1>3, <2>1 DEF Event, Events, ReceivePacket, ReceiveDisconnection
    <2> QED BY <1>1, <2>1, <2>2 DEF Queues
  <1> QED BY <1>2, <1>3

LEMMA ServerStepKinds ==
  ASSUME IInv, role = "server", [Next]_vars
  PROVE  /\ role' = "server"
         /\ \/ Handles
            \/ \E e \in Events : Queues(e)
            \/ UNCHANGED <<session, incoming, conns>>
  <1>1. Types /\ ServerFits /\ Safe
    BY DEF IInv, Types, Safe, ServerFits
  <1>2. CASE Poll
    <2> DEFINE e == Head(incoming)
    <2>1. incoming # <<>> /\ incoming' = Tail(incoming) /\ UNCHANGED <<role, conns>>
      BY <1>2 DEF Poll, countVars
    <2>2. /\ e \in Events /\ e.slot \in Slots
          /\ Links(session[e.slot].state = "none", session[e.slot].conn, e)
      BY <1>1, <2>1, FirstMeets
    <2>3. ~(session[e.slot].state = "none" /\ ~(e.kind = "connect" /\ role = "server"))
      BY <2>2 DEF Links
    <2> QED BY <1>2, <2>1, <2>2, <2>3 DEF Poll, Handles
  <1>3. CASE \E s \in Slots :
               ReceiveConnection(s) \/ ReceivePacket(s) \/ ReceiveDisconnection(s)
    <2>1. role' = role
      BY <1>3 DEF Receive, ReceiveConnection, ReceivePacket, ReceiveDisconnection, mainVars
    <2> QED BY <1>1, <1>3, <2>1, ReceiveQueues
  <1>4. CASE Kick \/ Disconnect \/ Send \/ QueryPeerInfo
    <2> DEFINE s == Head(outgoing).slot
    <2>1. outgoing # <<>> /\ UNCHANGED <<role, session, conns>>
      BY <1>4 DEF Kick, Disconnect, Send, QueryPeerInfo, TakeOutgoing, mainVars, countVars
    <2>2. s \in Slots
      <3>1. outgoing \in Seq([slot : Slots, kind : Commands])
        BY <1>1 DEF Types, TypeOK
      <3>2. Head(outgoing) \in [slot : Slots, kind : Commands]
        BY <2>1, <3>1, Tailed
      <3> QED BY <3>2
    <2>3. \/ incoming' = incoming
          \/ \E kind \in {"disconnect", "info"} : incoming' = Append(incoming, Event(s, kind))
      BY <1>4 DEF Kick, Disconnect, Send, QueryPeerInfo
    <2> HIDE DEF s
    <2>4. ASSUME NEW kind \in {"disconnect", "info"}
          PROVE  Event(s, kind) \in Events /\ Event(s, kind).kind # "connect"
      BY <1>1, <2>2 DEF Event, Events, Types, TypeOK
    <2> QED BY <2>1, <2>3, <2>4 DEF Queues
  \* The server never calls ConnectTo.
  <1>5. CASE ConnectTo \/ ReturnFromConnectTo \/ WaitForReply \/ SpuriousWakeup \/ TakeRequest \/ NotifyCaller
    BY <1>1, <1>5 DEF ConnectTo, ReturnFromConnectTo, WaitForReply, SpuriousWakeup, TakeRequest,
                NotifyCaller, ServerFits
  <1>6. CASE \/ \E s \in Slots, kind \in Commands : Command(s, kind)
             \/ EndReceive \/ EndSend \/ NotifyTooLate \/ EndAccept \/ UNCHANGED vars
    BY <1>6 DEF Command, EndReceive, EndSend, NotifyTooLate, EndAccept, WorkerGoes, vars,
                mainVars, rendezvousVars, hostVars, countVars
  <1> QED BY <1>2, <1>3, <1>4, <1>5, <1>6 DEF Next, WorkerLoop

LEMMA HeldTypes ==
  ASSUME IInv, role = "server"
  PROVE  /\ Held \in [Slots -> 0..MaxConns]
         /\ \A s \in Slots : session[s].state = "none" => Held[s] = 0
         /\ \A s \in Slots : session[s].state # "none" =>
              Held[s] = session[s].conn /\ Held[s] \in Conns
  BY Bounds DEF IInv, TypeOK, Numbers, Held, Sessions

LEMMA InitImplements == Init => Service!Init /\ Distinct
  <1> SUFFICES ASSUME Init PROVE Service!Init /\ Distinct
    OBVIOUS
  <1>1. /\ incoming = <<>> /\ conns = 0 /\ session = [s \in Slots |-> NoSession]
    BY DEF Init
  <1>2. Held = [s \in Slots |-> 0]
    BY <1>1 DEF Held, NoSession
  <1>3. Opening(incoming) = {} /\ OpensOnce(incoming)
    BY <1>1 DEF Opening, OpensOnce
  <1>4. Ended = {}
    BY <1>1, BoundsAssumption DEF Ended, Conns
  <1> QED BY <1>1, <1>2, <1>3, <1>4 DEF Service!Init, Distinct
LEMMA Bounded ==
  ASSUME IInv, role = "server"
  PROVE  /\ conns \in Nat /\ Conns \subseteq Nat \ {0} /\ 0 \notin Opening(incoming)
         /\ incoming \in Seq(Events) /\ session \in [Slots -> Sessions]
         /\ \A s \in Slots : Held[s] \in Nat
         /\ \A k \in DOMAIN incoming : incoming[k].kind = "connect" => incoming[k].conn \in Opening(incoming)
  <1>1. \A s \in Slots : Held[s] \in 0..MaxConns
    BY HeldTypes
  <1> QED BY <1>1, BoundsAssumption DEF IInv, TypeOK, Numbers, Opening, Conns

\* A connection queued is a new one, so nothing ended and nobody has it yet.
LEMMA QueuesImplements ==
  ASSUME IInv, Distinct, role = "server", role' = "server", NEW e \in Events, Queues(e)
  PROVE  Distinct' /\ UNCHANGED <<Held, Ended>>
  <1>1. /\ conns \in Nat /\ incoming \in Seq(Events) /\ Opening(incoming) \subseteq Conns
        /\ \A s \in Slots : Held[s] \in Nat
    BY Bounded DEF Opening
  <1>2. e.kind = "connect" => e.conn \in Conns \ Opening(incoming)
    BY <1>1, BoundsAssumption DEF Queues, Distinct, Conns
  <1>3. /\ OpensOnce(incoming')
        /\ Opening(incoming') =
             Opening(incoming) \cup (IF e.kind = "connect" THEN {e.conn} ELSE {})
    BY <1>1, <1>2, OpeningAppend DEF Queues, Distinct
  <1>4. Held' = Held
    BY DEF Queues, Held
  <1>5. CASE e.kind = "connect"
    <2>1. e.conn = conns + 1 /\ conns' = conns + 1
      BY <1>5 DEF Queues
    <2>2. Distinct'
      <3>1. \A c \in Opening(incoming') : c <= conns'
        BY <1>1, <1>3, <2>1, Bounded DEF Distinct
      <3>2. \A s \in Slots : Held[s] <= conns' /\ Held[s] \notin Opening(incoming')
        BY <1>1, <1>3, <1>5, <2>1 DEF Distinct
      <3> QED BY <1>3, <1>4, <3>1, <3>2 DEF Distinct
    <2>3. ASSUME NEW c \in Conns
          PROVE  /\ c \notin Opening(incoming') /\ c <= conns'
                 <=> c \notin Opening(incoming) /\ c <= conns
      <3>1. c \in Nat
        BY Bounded
      <3> QED BY <1>1, <1>3, <1>5, <2>1, <3>1, Bounded DEF Distinct
    <2>4. Ended' = Ended
      BY <1>4, <2>3 DEF Ended
    <2> QED BY <1>4, <2>2, <2>4
  <1>6. CASE e.kind # "connect"
    BY <1>3, <1>4, <1>6 DEF Queues, Distinct, Ended
  <1> QED BY <1>5, <1>6

\* Handling a connection opens the session of the connection that waited, any
\* other event leaves it or closes it.
LEMMA HandlesImplements ==
  ASSUME IInv, Distinct, role = "server", role' = "server", Handles
  PROVE  Distinct' /\ [Service!Next]_Service!vars
  <1> DEFINE e == Head(incoming)  s == e.slot
  <1>1. /\ incoming # <<>> /\ incoming' = Tail(incoming) /\ conns' = conns
        /\ e \in Events /\ s \in Slots
        /\ Links(session[s].state = "none", session[s].conn, e)
    BY DEF Handles
  <1>2. /\ incoming \in Seq(Events) /\ session \in [Slots -> Sessions]
        /\ OpensOnce(incoming) /\ Opening(incoming) \subseteq Conns
        /\ Held \in [Slots -> 0..MaxConns]
    BY Bounded, HeldTypes DEF Distinct, Opening
  <1>3. /\ OpensOnce(incoming')
        /\ Opening(incoming') =
             Opening(incoming) \ (IF e.kind = "connect" THEN {e.conn} ELSE {})
    BY <1>1, <1>2, OpeningTail
  <1>4. CASE e.kind = "connect"
    <2>1. session' = [session EXCEPT ![s] = [state |-> "up", conn |-> e.conn]]
      BY <1>4 DEF Handles
    <2>2. session[s].state = "none" /\ Held[s] = 0
      BY <1>1, <1>4, HeldTypes DEF Links
    <2>3. e.conn \in Opening(incoming)
      BY <1>1, <1>2, <1>4, Tailed, Bounded
    <2> HIDE DEF e, s
    <2>4. Held' = [Held EXCEPT ![s] = e.conn]
      BY <1>1, <1>2, <2>1 DEF Held
    <2>5. \A t \in Slots : Held[t] # e.conn
      BY <2>3 DEF Distinct
    <2>6. Held'[s] = e.conn /\ \A t \in Slots \ {s} : Held'[t] = Held[t]
      BY <1>1, <1>2, <2>4
    <2>7. Distinct'
      <3>1. e.conn <= conns'
        BY <1>1, <2>3 DEF Distinct
      <3>2. \A c \in Opening(incoming') : c <= conns'
        BY <1>1, <1>3 DEF Distinct
      <3>3. \A t \in Slots : Held'[t] <= conns' /\ Held'[t] \notin Opening(incoming')
        BY <1>1, <1>3, <1>4, <2>6, <3>1 DEF Distinct
      <3>4. \A t, u \in Slots : t # u /\ Held'[t] = Held'[u] => Held'[t] = 0
        BY <2>5, <2>6 DEF Distinct
      <3> QED BY <1>3, <3>2, <3>3, <3>4 DEF Distinct
    <2>8. Ended' = Ended
      <3>1. ASSUME NEW c \in Conns
            PROVE  c \notin Opening(incoming') /\ (\A t \in Slots : Held'[t] # c)
                   <=> c \notin Opening(incoming) /\ (\A t \in Slots : Held[t] # c)
        <4>1. c # 0
          BY Bounded
        <4>2. CASE c = e.conn
          BY <1>1, <2>3, <2>6, <4>2
        <4>3. CASE c # e.conn
          BY <1>3, <2>2, <2>6, <4>1, <4>3
        <4> QED BY <4>2, <4>3
      <3> QED BY <1>1, <3>1 DEF Ended
    <2>9. e.conn \notin Ended
      BY <2>3 DEF Ended
    <2>10. e.conn \in Conns
      BY <1>2, <2>3
    <2>11. Service!Open(s, e.conn)
      BY <2>2, <2>4, <2>5, <2>8, <2>9 DEF Service!Open
    <2> QED BY <1>1, <2>7, <2>10, <2>11 DEF Service!Next
  <1>5. CASE e.kind = "disconnect"
    <2>1. session' = [session EXCEPT ![s] = NoSession]
      BY <1>5 DEF Handles
    <2>2. session[s].state # "none" /\ Held[s] \in Conns
      BY <1>1, <1>5, HeldTypes DEF Links
    <2>3. Opening(incoming') = Opening(incoming)
      BY <1>3, <1>5
    <2> HIDE DEF e, s
    <2>4. Held' = [Held EXCEPT ![s] = 0]
      BY <1>1, <1>2, <2>1 DEF Held, NoSession
    <2>5. Held'[s] = 0 /\ \A t \in Slots \ {s} : Held'[t] = Held[t]
      BY <1>1, <1>2, <2>4
    <2>6. Held[s] # 0 /\ conns \in Nat
      BY <2>2, Bounded
    <2>7. Distinct'
      <3>1. \A t \in Slots : Held'[t] <= conns' /\ Held'[t] \notin Opening(incoming')
        BY <1>1, <2>3, <2>5, <2>6, Bounded DEF Distinct
      <3>2. \A t, u \in Slots : t # u /\ Held'[t] = Held'[u] => Held'[t] = 0
        BY <2>5 DEF Distinct
      <3> QED BY <1>1, <1>3, <2>3, <3>1, <3>2 DEF Distinct
    <2>8. Ended' = Ended \cup {Held[s]}
      <3>1. ASSUME NEW c \in Conns
            PROVE  c \in Ended' <=> c \in Ended \/ c = Held[s]
        <4>1. c # 0
          BY Bounded
        <4>2. CASE c = Held[s]
          <5>1. \A t \in Slots : Held'[t] # c
            BY <1>1, <2>5, <4>1, <4>2 DEF Distinct
          <5>2. c <= conns' /\ c \notin Opening(incoming')
            BY <1>1, <2>3, <4>2 DEF Distinct
          <5> QED BY <4>2, <5>1, <5>2 DEF Ended
        <4>3. CASE c # Held[s]
          <5>1. (\A t \in Slots : Held'[t] # c) <=> (\A t \in Slots : Held[t] # c)
            BY <2>5, <4>1, <4>3
          <5> QED BY <1>1, <2>3, <4>3, <5>1 DEF Ended
        <4> QED BY <4>2, <4>3
      <3>2. Ended \subseteq Conns /\ Ended' \subseteq Conns
        BY DEF Ended, Conns
      <3> QED BY <2>2, <3>1, <3>2
    <2>9. Service!Close(s)
      BY <2>4, <2>6, <2>8 DEF Service!Close
    <2> QED BY <1>1, <2>7, <2>9 DEF Service!Next
  <1>6. CASE e.kind \notin {"connect", "disconnect"}
    <2>1. session' = session
      BY <1>6 DEF Handles
    <2>2. Held' = Held
      BY <2>1 DEF Held
    <2>3. Ended' = Ended
      BY <1>1, <1>3, <1>6, <2>2 DEF Ended
    <2>4. Distinct'
      BY <1>1, <1>3, <1>6, <2>2 DEF Distinct
    <2> QED BY <2>2, <2>3, <2>4 DEF Service!vars
  <1> QED BY <1>4, <1>5, <1>6

LEMMA StepImplements ==
  IInv /\ Distinct /\ [Next]_vars => Distinct' /\ [Service!Next]_Service!vars
  <1> SUFFICES ASSUME IInv, Distinct, [Next]_vars PROVE Distinct' /\ [Service!Next]_Service!vars
    OBVIOUS
  <1>1. CASE role = "server"
    <2>1. CASE Handles
      BY <1>1, <2>1, ServerStepKinds, HandlesImplements
    <2>2. CASE \E e \in Events : Queues(e)
      BY <1>1, <2>2, ServerStepKinds, QueuesImplements DEF Service!vars
    <2>3. CASE UNCHANGED <<session, incoming, conns>>
      BY <1>1, <2>3, ServerStepKinds DEF Distinct, Held, Ended, Service!vars
    <2> QED BY <1>1, <2>1, <2>2, <2>3, ServerStepKinds
  <1>2. CASE role # "server"
    <2>1. role' = role
      BY RoleStays
    <2>2. UNCHANGED <<Held, Ended>>
      BY <1>2, <2>1 DEF Held, Ended
    <2> QED BY <1>2, <2>1, <2>2 DEF Distinct, Service!vars
  <1> QED BY <1>1, <1>2

\* What the server's handlers rely on beside PollMeetsItsSession: each connection
\* gives one session, in a slot without one, and its end is the last of it.
THEOREM Implementation == Spec => ImplementsSessions
  <1>1. IInv /\ [Next]_vars => IInv'
    BY StepInvariant
  <1> QED BY <1>1, InitInvariant, InitImplements, StepImplements, PTL
          DEF Spec, ImplementsSessions, Service!Spec
=============================================================================
