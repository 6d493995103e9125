------------------------------ MODULE Piloting ------------------------------
(***************************************************************************)
(* Who drives a spaceship.  A ship is driven by its navigation, which      *)
(* pushes one input of its own at each update, until the player it belongs *)
(* to takes its control; the inputs are then those the client sends, each  *)
(* with the server's time as the client estimates it.  Both sorts go       *)
(* through the same queue (InputComponent), which InputSystem empties.     *)
(* The same player shoots, at most once per delay; a shot asked too soon   *)
(* waits in m_pendingAction.                                               *)
(*                                                                         *)
(* A turn of the server's loop updates the arena (the systems of the       *)
(* world, the players, the script), runs callbacks, stores the time and    *)
(* handles packets: these come at the time of the update that follows, and *)
(* not of the one before.  Times are kept as ages, so that the model needs *)
(* no last instant: the age of now is 0, that of a time in the future is   *)
(* negative, and Old is as old as the code can tell.  One turn is one unit *)
(* (the loop sleeps a millisecond between two).                            *)
(*                                                                         *)
(* External: the network, the order of the systems of a world and how      *)
(* often each is updated.  At most once per turn is assumed: an engine     *)
(* that makes up for a late turn by several updates of a system of fixed   *)
(* rate would push inputs of equal times.                                  *)
(***************************************************************************)
EXTENDS Integers, Sequences, FiniteSetsExt, SequencesExt

CONSTANTS
  Ahead,      \* how far in the future an input may be when it arrives
  Late,       \* how late an input may be: network and estimate
  ShootDelay, \* between two shots (500 ms in the code)
  MaxInputs   \* bound: inputs in the queue of a ship

ASSUME AgesAssumption == Ahead \in Nat /\ Late \in Nat
ASSUME DelayAssumption == ShootDelay \in Nat \ {0} /\ MaxInputs \in Nat \ {0}

VARIABLES
  alive,      \* the ship exists
  driver,     \* who drives it: PlayerControlledComponent and m_controlledEntity
  inputs,     \* m_inputs of its InputComponent: [age, by]
  shipLast,   \* age of m_lastInputTime of its InputComponent
  shipLastBy, \* history: who had given that input
  playerLast, \* age of m_lastInputTime of the player
  lastShot,   \* age of m_lastShootTime of the player
  pending,    \* whether m_pendingAction is a ShootAction
  turn,       \* how far the turn is: "update", "callbacks" or "packets"
  ran,        \* the systems updated since the time was stored
  fired,      \* history: age of the last projectile
  rapid,      \* history: two projectiles closer than the delay
  givenBack,  \* history: age of the last hand-over to the navigation
  refused     \* history: whose input failed PushInput's assertion, or "nobody"

ship == <<alive, driver, inputs, shipLast, shipLastBy>>
gun == <<lastShot, pending, fired, rapid>>
loop == <<turn, ran>>
vars == <<ship, playerLast, gun, loop, givenBack, refused>>

Old == Max({Ahead, Late, ShootDelay}) + 1
Ages == -Ahead..Old
Older(age) == Min({age + 1, Old})
Drivers == {"navigation", "player"}
Running == refused = "nobody"
UpdatesOver == turn # "update"
Polling == turn = "packets"

\* m_lastShootTime is not set by the constructor: it may hold any time.
Init ==
  /\ alive = TRUE /\ driver = "navigation"
  /\ inputs = <<>> /\ shipLast = Old /\ shipLastBy = "nobody"
  /\ playerLast = Old
  /\ lastShot \in -1..Old
  /\ pending = FALSE
  /\ turn = "update" /\ ran = {}
  /\ fired = Old /\ rapid = FALSE /\ givenBack = Old /\ refused = "nobody"

-----------------------------------------------------------------------------
(* The ship *)

\* InputComponent::PushInput, whose first assertion is that the time is after
\* the last one processed.
PushInput(age, by) ==
  IF age >= shipLast
    THEN refused' = by /\ UNCHANGED inputs
    ELSE inputs' = Append(inputs, [age |-> age, by |-> by]) /\ UNCHANGED refused

\* Mutant: the fixed rate is not respected, the system runs at any time.
NavigationUpdate_AnyTime ==
  /\ Running /\ alive /\ driver = "navigation" /\ Len(inputs) < MaxInputs
  /\ PushInput(0, "navigation")
  /\ UNCHANGED <<alive, driver, shipLast, shipLastBy, playerLast, gun, loop, givenBack>>

\* NavigationSystem::OnUpdate, which excludes the ships a player controls.
NavigationUpdate ==
  /\ Running /\ alive /\ driver = "navigation" /\ Len(inputs) < MaxInputs
  /\ ~UpdatesOver /\ "navigation" \notin ran
  /\ ran' = ran \cup {"navigation"}
  /\ PushInput(0, "navigation")
  /\ UNCHANGED <<alive, driver, shipLast, shipLastBy, playerLast, gun, turn, givenBack>>

\* InputSystem::OnUpdate, InputComponent::ProcessInputs
InputUpdate ==
  /\ Running /\ alive /\ inputs # <<>>
  /\ ~UpdatesOver /\ "inputs" \notin ran
  /\ ran' = ran \cup {"inputs"}
  /\ shipLast' = Last(inputs).age /\ shipLastBy' = Last(inputs).by
  /\ inputs' = <<>>
  /\ UNCHANGED <<alive, driver, playerLast, gun, turn, givenBack, refused>>

\* Mutant: the player keeps its handle.
Destroy_StillControlled ==
  /\ Running /\ alive /\ Polling
  /\ turn' = "update"
  /\ alive' = FALSE
  /\ inputs' = <<>> /\ shipLast' = Old /\ shipLastBy' = "nobody"
  /\ UNCHANGED <<driver, playerLast, gun, ran, givenBack, refused>>

\* The ship, which was killed, is destroyed as the next update begins; the
\* player's handle on it becomes invalid.
Destroy ==
  /\ Running /\ alive /\ Polling
  /\ turn' = "update"
  /\ alive' = FALSE /\ driver' = "navigation"
  /\ inputs' = <<>> /\ shipLast' = Old /\ shipLastBy' = "nobody"
  /\ UNCHANGED <<playerLast, gun, ran, givenBack, refused>>

\* Arena::SpawnSpaceship gives the player another one, with new components,
\* from a callback, the script of the arena or a command.
Spawn ==
  /\ Running /\ ~alive /\ UpdatesOver
  /\ alive' = TRUE
  /\ UNCHANGED <<driver, inputs, shipLast, shipLastBy, playerLast, gun, loop, givenBack, refused>>

-----------------------------------------------------------------------------
(* The player *)

CanShoot == lastShot < 0 \/ lastShot >= ShootDelay

\* The rest of Player::Shoot: a projectile leaves now.
Fire ==
  /\ lastShot' = 0 /\ fired' = 0
  /\ rapid' = (rapid \/ fired < ShootDelay)


\* Player::Update, called for each player once the world is updated: without a
\* ship Shoot does nothing, and the action is over all the same.
PlayerUpdate ==
  /\ Running /\ ~UpdatesOver
  /\ turn' = "callbacks"
  /\ IF pending /\ CanShoot
       THEN /\ pending' = FALSE
            /\ IF driver = "player" THEN Fire ELSE UNCHANGED <<lastShot, fired, rapid>>
       ELSE UNCHANGED gun
  /\ UNCHANGED <<ship, playerLast, ran, givenBack, refused>>

\* Mutant: the pending action is what is looked at, not the last shot.
Shoot_WhenNothingPends ==
  /\ Running /\ Polling /\ driver = "player"
  /\ IF ~pending THEN Fire /\ UNCHANGED pending
     ELSE UNCHANGED gun
  /\ UNCHANGED <<ship, playerLast, loop, givenBack, refused>>

\* HandlePlayerShoot: Player::Shoot.  Only one shot waits.
Shoot ==
  /\ Running /\ Polling /\ driver = "player"
  /\ IF CanShoot THEN Fire /\ UNCHANGED pending
     ELSE pending' = TRUE /\ UNCHANGED <<lastShot, fired, rapid>>
  /\ UNCHANGED <<ship, playerLast, loop, givenBack, refused>>

\* HandleControlEntity, or the script: Player::UpdateControlledEntity
TakeControl ==
  /\ Running /\ UpdatesOver /\ alive /\ driver = "navigation"
  /\ driver' = "player"
  /\ UNCHANGED <<alive, inputs, shipLast, shipLastBy, playerLast, gun, loop, givenBack, refused>>

\* The same with no entity, or Arena::HandlePlayerLeave.
GiveBack ==
  /\ Running /\ UpdatesOver /\ driver = "player"
  /\ driver' = "navigation" /\ givenBack' = 0
  /\ UNCHANGED <<alive, inputs, shipLast, shipLastBy, playerLast, gun, loop, refused>>

\* The ship's part of Player::UpdateInput when allowed, nothing otherwise.
PushIf(allowed, age) ==
  IF allowed THEN PushInput(age, "player") ELSE UNCHANGED <<inputs, refused>>

\* Mutant: the player's own times are not compared.
UpdateInput_NoPlayerTime(age) ==
  /\ Running /\ Polling /\ Len(inputs) < MaxInputs
  /\ playerLast' = age
  /\ PushIf(driver = "player" /\ age < shipLast, age)
  /\ UNCHANGED <<alive, driver, shipLast, shipLastBy, gun, loop, givenBack>>
\* Mutant: the ship's last time is not compared.
UpdateInput_NoShipTime(age) ==
  /\ Running /\ Polling /\ Len(inputs) < MaxInputs
  /\ age < playerLast
  /\ playerLast' = age
  /\ PushIf(driver = "player", age)
  /\ UNCHANGED <<alive, driver, shipLast, shipLastBy, gun, loop, givenBack>>
\* Mutant: the player keeps its handle on a ship it gave back.
UpdateInput_AnyDriver(age) ==
  /\ Running /\ Polling /\ Len(inputs) < MaxInputs
  /\ age < playerLast
  /\ playerLast' = age
  /\ PushIf(alive /\ age < shipLast, age)
  /\ UNCHANGED <<alive, driver, shipLast, shipLastBy, gun, loop, givenBack>>

\* HandlePlayerMovement: Player::UpdateInput with a time of this age, dropped
\* if it is not after the player's last one, or the ship's.
UpdateInput(age) ==
  /\ Running /\ Polling /\ Len(inputs) < MaxInputs
  /\ age < playerLast
  /\ playerLast' = age
  /\ PushIf(driver = "player" /\ age < shipLast, age)
  /\ UNCHANGED <<alive, driver, shipLast, shipLastBy, gun, loop, givenBack>>

-----------------------------------------------------------------------------
(* The loop *)

\* BaseApplication::Run stores the time, once the arenas are updated and the
\* callbacks have run, then polls the reactors.
StoreTime ==
  /\ Running /\ turn = "callbacks"
  /\ turn' = "packets" /\ ran' = {}
  /\ inputs' = [k \in DOMAIN inputs |-> [inputs[k] EXCEPT !.age = Older(@)]]
  /\ shipLast' = Older(shipLast) /\ playerLast' = Older(playerLast)
  /\ lastShot' = Older(lastShot) /\ fired' = Older(fired)
  /\ givenBack' = Older(givenBack)
  /\ UNCHANGED <<alive, driver, shipLastBy, pending, rapid, refused>>

\* The next turn, at the same time, in which the ship is still there.
NextTurn ==
  /\ Running /\ Polling
  /\ turn' = "update"
  /\ UNCHANGED <<ship, playerLast, gun, ran, givenBack, refused>>

Next ==
  \/ NavigationUpdate
  \/ InputUpdate
  \/ Destroy
  \/ Spawn
  \/ PlayerUpdate
  \/ Shoot
  \/ TakeControl
  \/ GiveBack
  \/ \E age \in -Ahead..Late : UpdateInput(age)
  \/ StoreTime
  \/ NextTurn

Spec == Init /\ [][Next]_vars

\* The server's loop runs for ever.
FairSpec == Spec /\ WF_vars(PlayerUpdate) /\ WF_vars(StoreTime) /\ WF_vars(NextTurn)

-----------------------------------------------------------------------------
(* Properties *)

\* The variables have their types; only a ship that exists is controlled.
TypeOK ==
  /\ alive \in BOOLEAN /\ driver \in Drivers /\ (driver = "player" => alive)
  /\ inputs \in BoundedSeq([age : Ages, by : Drivers], MaxInputs)
  /\ shipLast \in Ages /\ shipLastBy \in Drivers \cup {"nobody"}
  /\ playerLast \in Ages
  /\ lastShot \in -1..Old /\ fired \in 0..Old
  /\ pending \in BOOLEAN /\ rapid \in BOOLEAN
  /\ turn \in {"update", "callbacks", "packets"} /\ ran \subseteq {"navigation", "inputs"}
  /\ givenBack \in 0..Old
  /\ refused \in Drivers \cup {"nobody"}

\* InputSystem multiplies an input by the time since the previous one, an
\* unsigned difference: the inputs of one driver are queued in the order of
\* their times, all after the last one processed.  Across a hand-over the queue
\* need not be in order.
InputsInOrder ==
  /\ \A i, j \in DOMAIN inputs :
       i < j /\ inputs[i].by = inputs[j].by /\ inputs[j].age < Old
         => inputs[i].age > inputs[j].age
  /\ \A i \in DOMAIN inputs : inputs[i].age < shipLast \/ inputs[i].age = Old

\* The assertion of PushInput fails for the navigation only, on a ship whose last
\* input was its player's, and no longer after the hand-over than that input
\* could be in the future: at once, if the client's estimate is never ahead.
RefusedAfterAHandOver ==
  refused # "nobody" =>
    refused = "navigation" /\ shipLastBy = "player" /\ givenBack <= Ahead

\* InputComponent.inl:34: an input is pushed after the last one processed.
InputsAreAccepted == refused = "nobody"

\* However shots are asked, through the pending one or not, from one ship or
\* the next, two projectiles of a player are a delay apart.
ShotsAreSpaced == ~rapid

=============================================================================
