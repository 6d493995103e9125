----------------------------- MODULE ShipScript -----------------------------
(***************************************************************************)
(* What the script of a spaceship is told, and when.  Its modules (radar,  *)
(* communications, navigation) push events into the queue of its core,     *)
(* some of them at most once at a time; at each run of the ScriptSystem    *)
(* the script is given one of them, or OnTick if half a second has passed, *)
(* and reacts, by giving orders to its navigation for instance.            *)
(*                                                                         *)
(* The queue is sorted by trigger time, which is the time of the push, or  *)
(* 0 for OnStart; an event is told once that time has passed.  So all that *)
(* matters of a time is whether it is the present one (fresh).  As in the  *)
(* code, the back of the queue, here its end, is the next to be told.  The *)
(* application's time changes between the turns of the server's loop.      *)
(*                                                                         *)
(* External: the world (which objects are near, when the ship is close to  *)
(* its target), the order of its systems, and the player's script.         *)
(***************************************************************************)
EXTENDS Naturals, Sequences, FiniteSets, FiniteSetsExt, SequencesExt

CONSTANTS
  Objects,     \* the other objects of the arena
  TickPeriod,  \* runs of a script between two ticks (half a second)
  MaxEvents    \* bound: events in the queue

ASSUME ObjectsAssumption == IsFiniteSet(Objects)
ASSUME BoundsAssumption == TickPeriod \in Nat \ {0, 1} /\ MaxEvents \in Nat \ {0}

VARIABLES
  running,   \* HasValidScript: an error empties m_script for ever
  queue,     \* m_callbacks of the core: [event, about, fresh]
  pushed,    \* m_pushedCallbacks: the unique events it says are queued
  ticks,     \* m_tickCounter, in runs
  target,    \* m_target of the NavigationComponent: whether there is one
  armed,     \* whether its m_proximityCallback is set
  near,      \* the objects within the radius of the radar
  inRadius,  \* m_entitiesInRadius of the radar
  mail,      \* m_pendingMessages of the communications is not empty
  ran,       \* the systems that ran in this turn
  told,      \* history: what the script was told in this turn
  started,   \* history: it was told OnStart
  broken     \* whether PopCallback's assertion failed

core == <<queue, pushed>>
navigation == <<target, armed>>
radar == <<near, inRadius>>
vars == <<running, core, ticks, navigation, radar, mail, ran, told, started, broken>>

\* The unique events, pushed by name, and the others.
Unique == {"OnStart", "OnNavigationDestinationReached"}
Event(event, about, fresh) == [event |-> event, about |-> about, fresh |-> fresh]
Contact(object) == Event("OnRadarNewObjectInRange", object, TRUE)
Messages == Event("OnCommunicationReceivedMessages", "mail", TRUE)
Arrival == Event("OnNavigationDestinationReached", "target", TRUE)
Tick == Event("OnTick", "time", FALSE)
Nothing == Event("nothing", "nothing", FALSE)
Queued(name) == \E k \in DOMAIN queue : queue[k].event = name

\* ScriptComponent::Initialize
Init ==
  /\ running = TRUE
  /\ queue = <<Event("OnStart", "ship", FALSE)>> /\ pushed = {"OnStart"}
  /\ ticks = 0
  /\ target = FALSE /\ armed = FALSE
  /\ near = {} /\ inRadius = {} /\ mail = FALSE
  /\ ran = {} /\ told = Nothing /\ started = FALSE /\ broken = FALSE

-----------------------------------------------------------------------------
(* SpaceshipCore *)

\* std::upper_bound: after the events of the same time, so told before them.
\* Events pushed one after the other stay in that order.
FreshIn(events) == Cardinality({k \in DOMAIN events : events[k].fresh})
Insert(pushes, events) ==
  LET n == FreshIn(events)
  IN  SubSeq(events, 1, n) \o pushes \o SubSeq(events, n + 1, Len(events))

\* The first event of that name, that PushCallback looks for.
IsFirst(k, name) ==
  queue[k].event = name /\ \A j \in DOMAIN queue : queue[j].event = name => k <= j
\* PopCallback, the flag of what was told.
Forget(name) == pushed \ {name}
\* Mutant: the flag is not looked at.
PushUnique_Twice(event) ==
  /\ queue' = Insert(<<event>>, queue)
  /\ pushed' = pushed \cup {event.event}
\* PushCallback of a unique event: if it is there, its time becomes the present
\* and the queue is sorted again, which may put it anywhere among the fresh.
PushUnique(event) ==
  IF event.event \in pushed /\ Queued(event.event)
    THEN /\ pushed' = pushed
         /\ \E k \in DOMAIN queue : /\ IsFirst(k, event.event)
              /\ LET others == RemoveAt(queue, k) IN
                   \E n \in 1..FreshIn(others) + 1 : queue' = InsertAt(others, n, event)
    ELSE /\ queue' = Insert(<<event>>, queue)
         /\ pushed' = pushed \cup {event.event}

-----------------------------------------------------------------------------
(* The world *)

\* Objects come near the ship, or leave.
Drift(object) ==
  /\ near' = IF object \in near THEN near \ {object} ELSE near \cup {object}
  /\ UNCHANGED <<running, core, ticks, navigation, inRadius, mail, ran, told, started, broken>>

\* An object near is destroyed: the list of the radar forgets it at once.
Vanish(object) ==
  /\ object \in near
  /\ near' = near \ {object} /\ inRadius' = inRadius \ {object}
  /\ UNCHANGED <<running, core, ticks, navigation, mail, ran, told, started, broken>>

\* CommunicationsModule::OnReceivedMessage
ReceiveMessage ==
  /\ ~mail /\ mail' = TRUE
  /\ UNCHANGED <<running, core, ticks, navigation, radar, ran, told, started, broken>>

\* NavigationSystem::OnUpdate, NavigationComponent::Run on a ship no player
\* controls: the first time it is close to its target, the script will know.
NavigationRun ==
  /\ ~broken /\ "navigation" \notin ran /\ target /\ armed
  /\ Len(queue) < MaxEvents \/ Arrival.event \in pushed
  /\ ran' = ran \cup {"navigation"}
  /\ armed' = FALSE
  /\ PushUnique(Arrival)
  /\ UNCHANGED <<running, ticks, target, radar, mail, told, started, broken>>

-----------------------------------------------------------------------------
(* ScriptSystem *)

\* RadarModule::Run: a scan, if one is due, pushes an event for each object
\* that was not in the radius; then those that left it are forgotten.
Scans == {<<>>} \cup SetToSeqs(near \ inRadius)
\* CommunicationsModule::Run: once a second, all the messages in one event.
Mails == {<<>>} \cup IF mail THEN {<<Messages>>} ELSE {}

\* SpaceshipCore::Run with a scan and a delivery: what the queue becomes.
Pushed(scan, delivery) ==
  Insert([k \in DOMAIN scan |-> Contact(scan[k])] \o delivery, queue)

\* Mutants: the counter is not decreased by a tick, or stays at half a second.
TickDue_Grows == ticks + 1
TickDue_Stays == TickPeriod
\* m_tickCounter at the end of a run that called OnTick.
TickDue == ticks - TickPeriod + 1

\* Mutant: what is told is the event pushed last.
Next_Newest(events) == Head(events)
\* PopCallback takes the back of the queue, if its time has passed.
NextOf(events) == Last(events)

\* What the script does when it is told something: nothing, MoveToPosition or
\* FollowTarget with or without a trigger distance, Stop, or an error.
React(events) ==
  \/ queue' = events /\ UNCHANGED <<running, navigation>>
  \/ queue' = events /\ target' = TRUE /\ armed' \in BOOLEAN /\ UNCHANGED running
  \/ queue' = events /\ target' = FALSE /\ UNCHANGED <<running, armed>>
  \/ queue' = events /\ running' = FALSE /\ UNCHANGED navigation

\* ScriptComponent::Run: the modules, then OnTick if it is due, or else the
\* next event.  Without a script even the modules do not run.
Run ==
  /\ ~broken /\ running /\ "script" \notin ran
  /\ ran' = ran \cup {"script"}
  /\ \E scan \in Scans, delivery \in Mails :
       LET events == Pushed(scan, delivery) IN
         /\ Len(events) <= MaxEvents
         /\ inRadius' = (IF scan = <<>> THEN inRadius ELSE inRadius \cup Range(scan)) \cap near
         /\ mail' = (mail /\ delivery = <<>>)
         /\ IF ticks >= TickPeriod
              THEN /\ ticks' = TickDue /\ told' = Tick
                   /\ React(events)
                   /\ UNCHANGED <<pushed, started, broken>>
            ELSE IF events = <<>> \/ (events # <<>> /\ NextOf(events).fresh)
              THEN /\ ticks' = ticks + 1 /\ told' = Nothing /\ queue' = events
                   /\ UNCHANGED <<running, pushed, navigation, started, broken>>
            ELSE LET e == NextOf(events) IN
                   /\ ticks' = ticks + 1 /\ told' = e
                   /\ broken' = (e.event \in Unique \ pushed)
                   /\ pushed' = Forget(e.event)
                   /\ started' = (started \/ e.event = "OnStart")
                   /\ React(Front(events))
  /\ UNCHANGED near

\* The next turn of the loop: the time changes.
NextTurn ==
  /\ ~broken
  /\ ran' = {} /\ told' = Nothing
  /\ queue' = [k \in DOMAIN queue |-> [queue[k] EXCEPT !.fresh = FALSE]]
  /\ UNCHANGED <<running, pushed, ticks, navigation, radar, mail, started, broken>>

-----------------------------------------------------------------------------
Next ==
  \/ \E object \in Objects : Drift(object) \/ Vanish(object)
  \/ ReceiveMessage
  \/ NavigationRun
  \/ Run
  \/ NextTurn

Spec == Init /\ [][Next]_vars

\* The server's loop runs for ever and the ScriptSystem with it.
FairSpec == Spec /\ WF_vars(Run) /\ WF_vars(NextTurn)

-----------------------------------------------------------------------------
(* Properties *)

\* The variables have their types.
TypeOK ==
  /\ running \in BOOLEAN /\ target \in BOOLEAN /\ armed \in BOOLEAN /\ mail \in BOOLEAN
  /\ started \in BOOLEAN /\ broken \in BOOLEAN
  /\ Len(queue) <= MaxEvents /\ pushed \subseteq Unique
  /\ ticks \in 0..TickPeriod
  /\ near \subseteq Objects /\ inRadius \subseteq Objects
  /\ ran \subseteq {"navigation", "script"}

\* A unique event is in the queue at most once, and exactly when the core
\* says so: what PopCallback asserts and what PushCallback relies on.
UniqueEventsAreOnce ==
  /\ ~broken
  /\ \A name \in Unique :
       Cardinality({k \in DOMAIN queue : queue[k].event = name}) = (IF name \in pushed THEN 1 ELSE 0)

\* docs/Modules/Core.md: OnStart is told once, and before anything else.
StartComesFirst ==
  /\ told # Nothing => started
  /\ started <=> ~Queued("OnStart")

\* However busy the queue, each object the radar pushed and the messages are
\* told to the script in the end, unless an error stops it.
EventsAreTold ==
  \A about \in Objects \cup {"mail"} :
    (\E k \in DOMAIN queue : queue[k].about = about) ~> told.about = about \/ ~running
=============================================================================
