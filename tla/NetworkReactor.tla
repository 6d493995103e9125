--------------------------- MODULE NetworkReactor ---------------------------
(***************************************************************************)
(* A reactor: a worker thread owns an ENet host; the main thread talks to  *)
(* it through three queues (connection requests, outgoing events, incoming *)
(* events) and polls the incoming events into the application.  Events     *)
(* carry a slot (peer id), never a connection: the model numbers the       *)
(* connections to say which one an event is about.                         *)
(*                                                                         *)
(* The application is the server's (a session per slot, created by the     *)
(* connect event) or the client's (one ServerConnection, registered when   *)
(* ConnectTo returns).                                                     *)
(*                                                                         *)
(* External: ENet (a peer connects, receives, is lost; DisconnectNow and a *)
(* disconnection of a peer that is not connected yet produce no event) and *)
(* the moodycamel queues.                                                  *)
(***************************************************************************)
EXTENDS Naturals, Sequences

CONSTANTS
  Slots,        \* the peers of a server's host; a client's host has one
  ClientSlot,
  MaxConns,     \* bound: connections, numbered from 1
  MaxPackets,   \* bound: packets received
  MaxCommands   \* bound: outgoing events

ASSUME SlotsAssumption == ClientSlot \in Slots
ASSUME BoundsAssumption ==
  MaxConns \in Nat /\ MaxPackets \in Nat /\ MaxCommands \in Nat

VARIABLES
  role,         \* which application runs: server or client
  mainPc,       \* main thread: free, inside ConnectTo, or crashed
  requested,    \* m_connectionRequests holds the request of ConnectTo
  returned,     \* hasReturned of the ConnectTo under way
  reply,        \* its newClientId, as the connection made, 0 for InvalidPeerId
  outgoing,     \* m_outgoingQueue
  incoming,     \* m_incomingQueue
  worker,       \* where the worker thread is
  clients,      \* the slots whose m_clients entry is not null
  peer, conn,   \* ENet: state of a slot, and the connection it has or had last
  conns, packets, commands,
  session,      \* m_sessions or m_servers: what the application has per slot
  asked,        \* connections the application asked to disconnect
  overlapped,   \* the client asked to connect while an attempt was under way
  late          \* the worker used the rendezvous of a ConnectTo that returned

mainVars == <<role, mainPc, session, asked, overlapped>>
rendezvousVars == <<requested, returned, reply, late>>
hostVars == <<clients, peer, conn>>
countVars == <<conns, packets, commands>>
vars == <<mainVars, rendezvousVars, outgoing, incoming, worker, hostVars, countVars>>

Conns == 1..MaxConns
NoSession == [state |-> "none", conn |-> 0]
HostSlots == IF role = "server" THEN Slots ELSE {ClientSlot}
Event(s, kind) == [slot |-> s, kind |-> kind, conn |-> conn[s]]

Init ==
  /\ role \in {"server", "client"}
  /\ mainPc = "free"
  /\ requested = FALSE /\ returned = FALSE /\ reply = 0 /\ late = FALSE
  /\ outgoing = <<>> /\ incoming = <<>>
  /\ worker = "receive"
  /\ clients = {}
  /\ peer = [s \in Slots |-> "free"] /\ conn = [s \in Slots |-> 0]
  /\ conns = 0 /\ packets = 0 /\ commands = 0
  /\ session = [s \in Slots |-> NoSession]
  /\ asked = {} /\ overlapped = FALSE

-----------------------------------------------------------------------------
(* Main thread *)

\* ServerConnection::Connect, then ConnectTo: it locks its mutex and enqueues
\* the request; mainPc = "predicate" holds the mutex, "waiting" does not.
ConnectTo ==
  /\ role = "client" /\ mainPc = "free"
  /\ session[ClientSlot].state # "up"
  /\ overlapped' = (overlapped \/ session[ClientSlot].state = "connecting")
  /\ mainPc' = "predicate"
  /\ requested' = TRUE /\ returned' = FALSE /\ reply' = 0
  /\ UNCHANGED <<role, session, asked, late, outgoing, incoming, worker,
                 hostVars, countVars>>

\* The wait evaluates its predicate under the mutex and returns or blocks; on
\* return the mutex and the condition variable are destroyed, and
\* ConnectNewServer registers the connection under the slot it got.
ReturnFromConnectTo ==
  /\ mainPc = "predicate"
  /\ returned
  /\ mainPc' = "free"
  /\ session' = IF reply = 0 THEN session
                ELSE [session EXCEPT ![ClientSlot] =
                        [state |-> "connecting", conn |-> reply]]
  /\ UNCHANGED <<role, asked, overlapped, rendezvousVars, outgoing, incoming,
                 worker, hostVars, countVars>>

WaitForReply ==
  /\ mainPc = "predicate"
  /\ ~returned
  /\ mainPc' = "waiting"
  /\ UNCHANGED <<role, session, asked, overlapped, rendezvousVars, outgoing,
                 incoming, worker, hostVars, countVars>>

SpuriousWakeup ==
  /\ mainPc = "waiting"
  /\ mainPc' = "predicate"
  /\ UNCHANGED <<role, session, asked, overlapped, rendezvousVars, outgoing,
                 incoming, worker, hostVars, countVars>>

\* DisconnectPeer, SendData and QueryInfo, on a slot the application takes for
\* connected.
Command(s, kind) ==
  /\ mainPc = "free"
  /\ session[s].state = "up"
  /\ commands < MaxCommands
  /\ commands' = commands + 1
  /\ outgoing' = Append(outgoing, [slot |-> s, kind |-> kind])
  /\ asked' = IF kind \in {"kick", "later", "normal"}
                THEN asked \cup {session[s].conn} ELSE asked
  /\ UNCHANGED <<role, mainPc, session, overlapped, rendezvousVars, incoming,
                 worker, hostVars, conns, packets>>

\* One event of Poll: HandlePeerConnection, HandlePeerDisconnection,
\* HandlePeerPacket or HandlePeerInfo.  All but the server's
\* HandlePeerConnection dereference the entry of the slot.
Poll ==
  /\ mainPc = "free"
  /\ incoming # <<>>
  /\ incoming' = Tail(incoming)
  /\ LET event == Head(incoming)
         missing == session[event.slot].state = "none"
     IN  IF missing /\ ~(event.kind = "connect" /\ role = "server")
           THEN mainPc' = "crashed" /\ UNCHANGED session
           ELSE /\ session' = CASE event.kind = "connect" ->
                       [session EXCEPT ![event.slot] =
                          [state |-> "up", conn |-> event.conn]]
                  [] event.kind = "disconnect" ->
                       [session EXCEPT ![event.slot] = NoSession]
                  [] OTHER -> session
                /\ UNCHANGED mainPc
  /\ UNCHANGED <<role, asked, overlapped, rendezvousVars, outgoing, worker,
                 hostVars, countVars>>

-----------------------------------------------------------------------------
(* Worker thread: ReceivePackets *)

\* An ENet event on slot s becomes an incoming event.
Receive(s, kind, state) ==
  /\ worker = "receive"
  /\ s \in HostSlots
  /\ peer' = [peer EXCEPT ![s] = state]
  /\ UNCHANGED <<mainVars, rendezvousVars, outgoing, worker, commands>>

ReceiveConnection(s) ==
  /\ Receive(s, "connect", "connected")
  /\ \/ /\ role = "server" /\ peer[s] = "free"
        /\ conns < MaxConns
        /\ conns' = conns + 1
        /\ conn' = [conn EXCEPT ![s] = conns']
     \/ peer[s] = "connecting" /\ UNCHANGED <<conns, conn>>
  /\ clients' = clients \cup {s}
  /\ incoming' = Append(incoming, [slot |-> s, kind |-> "connect", conn |-> conn'[s]])
  /\ UNCHANGED packets

ReceivePacket(s) ==
  /\ Receive(s, "packet", peer[s])
  /\ peer[s] \in {"connected", "lingering"}
  /\ packets < MaxPackets
  /\ packets' = packets + 1
  /\ incoming' = Append(incoming, Event(s, "packet"))
  /\ UNCHANGED <<clients, conn, conns>>

\* The peer closed the connection, timed out, could not be reached, or answered
\* a disconnection.
ReceiveDisconnection(s) ==
  /\ Receive(s, "disconnect", "free")
  /\ peer[s] # "free"
  /\ clients' = clients \ {s}
  /\ incoming' = Append(incoming, Event(s, "disconnect"))
  /\ UNCHANGED <<conn, conns, packets>>

WorkerGoes(from, to) ==
  /\ worker = from
  /\ worker' = to
  /\ UNCHANGED <<mainVars, rendezvousVars, outgoing, incoming, hostVars, countVars>>

EndReceive == WorkerGoes("receive", "send")

(* Worker thread: SendPackets *)

TakeOutgoing(kinds) ==
  /\ worker = "send"
  /\ outgoing # <<>>
  /\ Head(outgoing).kind \in kinds
  /\ outgoing' = Tail(outgoing)
  /\ UNCHANGED <<mainVars, rendezvousVars, worker, conn, countVars>>

\* Mutants: Kick emits no event; Kick keeps the entry of m_clients.
Kick_Silent ==
  /\ TakeOutgoing({"kick"})
  /\ peer' = [peer EXCEPT ![Head(outgoing).slot] = "free"]
  /\ clients' = clients \ {Head(outgoing).slot}
  /\ UNCHANGED incoming

Kick_EntryKept ==
  /\ TakeOutgoing({"kick"})
  /\ LET s == Head(outgoing).slot
     IN  IF s \in clients
           THEN /\ peer' = [peer EXCEPT ![s] = "free"]
                /\ incoming' = Append(incoming, Event(s, "disconnect"))
           ELSE UNCHANGED <<peer, incoming>>
  /\ UNCHANGED clients

\* DisconnectNow resets the peer; the reactor itself emits the event.
Kick ==
  /\ TakeOutgoing({"kick"})
  /\ LET s == Head(outgoing).slot
     IN  IF s \in clients
           THEN /\ peer' = [peer EXCEPT ![s] = "free"]
                /\ clients' = clients \ {s}
                /\ incoming' = Append(incoming, Event(s, "disconnect"))
           ELSE UNCHANGED <<peer, clients, incoming>>

\* Disconnect and DisconnectLater: a connected peer will be lost, a connecting
\* one is reset without an event, another one is left alone.
Disconnect ==
  /\ TakeOutgoing({"normal", "later"})
  /\ LET s == Head(outgoing).slot
         closing == IF Head(outgoing).kind = "normal" THEN "closing" ELSE "lingering"
     IN  peer' = IF s \notin clients THEN peer
                 ELSE CASE peer[s] \in {"connected", "lingering"} ->
                             [peer EXCEPT ![s] = closing]
                        [] peer[s] = "connecting" -> [peer EXCEPT ![s] = "free"]
                        [] OTHER -> peer
  /\ UNCHANGED <<clients, incoming>>

\* What is sent leaves the model; what is sent to a missing peer is dropped.
Send == TakeOutgoing({"packet"}) /\ UNCHANGED <<clients, peer, incoming>>

\* Mutant: the answer is queued as another alternative of the variant.
QueryPeerInfo_WrongEvent ==
  /\ TakeOutgoing({"query"})
  /\ incoming' = IF Head(outgoing).slot \in clients
                   THEN Append(incoming, Event(Head(outgoing).slot, "query"))
                   ELSE incoming
  /\ UNCHANGED <<clients, peer>>

QueryPeerInfo ==
  /\ TakeOutgoing({"query"})
  /\ incoming' = IF Head(outgoing).slot \in clients
                   THEN Append(incoming, Event(Head(outgoing).slot, "info"))
                   ELSE incoming
  /\ UNCHANGED <<clients, peer>>

EndSend == outgoing = <<>> /\ WorkerGoes("send", "accept")

(* Worker thread: HandleConnectionRequests *)

\* Mutant: the callback is not called when the host has no free peer.
TakeRequest_SuccessOnly ==
  /\ worker = "accept"
  /\ requested
  /\ requested' = FALSE
  /\ \/ /\ peer[ClientSlot] = "free" /\ conns < MaxConns
        /\ returned' = TRUE
        /\ worker' = "notify"
        /\ conns' = conns + 1 /\ reply' = conns'
        /\ peer' = [peer EXCEPT ![ClientSlot] = "connecting"]
        /\ conn' = [conn EXCEPT ![ClientSlot] = conns']
        /\ clients' = clients \cup {ClientSlot}
     \/ /\ peer[ClientSlot] # "free" \/ conns = MaxConns
        /\ UNCHANGED <<worker, returned, reply, conns, hostVars>>
  /\ UNCHANGED <<mainVars, late, outgoing, incoming, packets, commands>>

\* m_host.Connect takes a free peer, if there is one; the callback first writes
\* newClientId and hasReturned.
TakeRequest ==
  /\ worker = "accept"
  /\ requested
  /\ requested' = FALSE /\ returned' = TRUE
  /\ worker' = "notify"
  /\ \/ /\ peer[ClientSlot] = "free" /\ conns < MaxConns
        /\ conns' = conns + 1 /\ reply' = conns'
        /\ peer' = [peer EXCEPT ![ClientSlot] = "connecting"]
        /\ conn' = [conn EXCEPT ![ClientSlot] = conns']
        /\ clients' = clients \cup {ClientSlot}
     \/ /\ peer[ClientSlot] # "free" \/ conns = MaxConns
        /\ reply' = 0
        /\ UNCHANGED <<conns, hostVars>>
  /\ UNCHANGED <<mainVars, late, outgoing, incoming, packets, commands>>

\* The callback then locks the caller's mutex and notifies.
NotifyCaller ==
  /\ mainPc = "waiting" /\ returned
  /\ worker = "notify" /\ worker' = "accept"
  /\ mainPc' = "predicate"
  /\ UNCHANGED <<role, session, asked, overlapped, rendezvousVars, outgoing,
                 incoming, hostVars, countVars>>

\* The caller found hasReturned set before it ever waited: the mutex and the
\* condition variable no longer exist (or belong to another call).  Undefined:
\* the worker goes on, or never comes back.
NotifyTooLate ==
  /\ worker = "notify"
  /\ mainPc \in {"free", "crashed"} \/ ~returned
  /\ worker' \in {"accept", "stuck"}
  /\ late' = TRUE
  /\ UNCHANGED <<mainVars, requested, returned, reply, outgoing, incoming,
                 hostVars, countVars>>

EndAccept == ~requested /\ WorkerGoes("accept", "receive")

-----------------------------------------------------------------------------

Commands == {"kick", "later", "normal", "packet", "query"}

WorkerLoop ==
  \/ EndReceive \/ Kick \/ Disconnect \/ Send \/ QueryPeerInfo \/ EndSend
  \/ TakeRequest \/ NotifyCaller \/ NotifyTooLate \/ EndAccept

Next ==
  \/ ConnectTo \/ ReturnFromConnectTo \/ WaitForReply \/ SpuriousWakeup \/ Poll
  \/ \E s \in Slots, kind \in Commands : Command(s, kind)
  \/ \E s \in Slots :
       ReceiveConnection(s) \/ ReceivePacket(s) \/ ReceiveDisconnection(s)
  \/ WorkerLoop

Spec == Init /\ [][Next]_vars

\* The worker keeps looping, the main thread finishes ConnectTo and keeps
\* polling, and ENet reports the loss of a peer it was told to disconnect.
Fairness ==
  /\ WF_vars(WorkerLoop)
  /\ WF_vars(ReturnFromConnectTo \/ WaitForReply)
  /\ WF_vars(Poll)
  /\ \A s \in Slots :
       SF_vars(peer[s] \in {"closing", "lingering"} /\ ReceiveDisconnection(s))

FairSpec == Spec /\ Fairness

-----------------------------------------------------------------------------
(* Properties *)

Sessions == [state : {"none", "connecting", "up"}, conn : 0..MaxConns]
Events == [slot : Slots, kind : {"connect", "disconnect", "packet", "info"},
           conn : 0..MaxConns]

\* The type of every variable (NetworkReactor members and the application's).
TypeOK ==
  /\ role \in {"server", "client"}
  /\ mainPc \in {"free", "predicate", "waiting", "crashed"}
  /\ requested \in BOOLEAN /\ returned \in BOOLEAN /\ late \in BOOLEAN
  /\ reply \in 0..MaxConns
  /\ outgoing \in Seq([slot : Slots, kind : Commands])
  /\ incoming \in Seq(Events)
  /\ worker \in {"receive", "send", "accept", "notify", "stuck"}
  /\ clients \subseteq Slots
  /\ peer \in [Slots -> {"free", "connecting", "connected", "closing", "lingering"}]
  /\ conn \in [Slots -> 0..MaxConns]
  /\ conns \in 0..MaxConns /\ packets \in 0..MaxPackets
  /\ commands \in 0..MaxCommands
  /\ session \in [Slots -> Sessions]
  /\ asked \subseteq Conns
  /\ overlapped \in BOOLEAN

\* The session an event is about to meet in the application.
Met == session[Head(incoming).slot]

\* The events of a slot reach the application in an order it can handle, each
\* on the session of its own connection, however slots are reused, kicked or
\* lost: a connection starts from no session (or, on the client, from the one
\* that is connecting), everything else meets the session of its connection,
\* and no packet comes before it is up.  The handlers rely on it, they
\* dereference the entry unchecked.  It does not hold for a client that asks
\* again while an attempt is under way.
PollMeetsItsSession ==
  [][incoming # <<>> /\ incoming' = Tail(incoming) /\ ~overlapped =>
       IF Head(incoming).kind = "connect" /\ role = "server"
         THEN Met.state = "none"
         ELSE /\ Met.conn = Head(incoming).conn
              /\ Met.state = "connecting" => Head(incoming).kind # "packet"]_vars

\* A disconnection the application asked for is reported to it in the end,
\* although events carry slots and slots are reused.
DisconnectionReported ==
  \A s \in Slots, c \in Conns :
    session[s].state = "up" /\ session[s].conn = c /\ c \in asked
      ~> session[s].conn # c \/ late \/ mainPc = "crashed"

\* ConnectTo returns: the notification of the worker is never lost.
ConnectToReturns == mainPc \in {"predicate", "waiting"} ~> mainPc = "free" \/ late

\* The connection whose session a server has in each slot, and the connections
\* whose session ended: no event is left that will open one.
Held == [s \in Slots |->
          IF role = "server" /\ session[s].state # "none" THEN session[s].conn ELSE 0]
Opening(events) ==
  {c \in Conns : \E k \in DOMAIN events : events[k].kind = "connect" /\ events[k].conn = c}
Ended ==
  {c \in Conns \ Opening(incoming) :
     role = "server" /\ c <= conns /\ \A s \in Slots : Held[s] # c}

Service == INSTANCE PeerSessions WITH
  Peers <- Slots, Ids <- Conns, None <- 0, held <- Held, ended <- Ended

\* A server's Poll opens one session per connection, in a slot that has none,
\* and closes it once, however many connections pass through a slot while their
\* events wait in the queue: HandlePeerConnection would overwrite the entry.
ImplementsSessions == Service!Spec
=============================================================================
