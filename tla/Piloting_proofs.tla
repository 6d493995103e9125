--------------------------- MODULE Piloting_proofs ---------------------------
(***************************************************************************)
(* Theorems of Piloting, for any lead of a client's clock, any delay and   *)
(* any length of the queue: the types, the order of the inputs, which      *)
(* input PushInput may refuse and when, and the distance of two shots.     *)
(*                                                                         *)
(* The inductive invariant says how old the inputs in the queue and the    *)
(* last one processed are, by who gave them: those of the navigation by    *)
(* whether it was updated since the time was stored, those of the player   *)
(* by when it gave the ship back (NavigationAges, PlayerAges, LastAges);   *)
(* and that the last projectile left when the player last shot (ShotAges). *)
(***************************************************************************)
EXTENDS Piloting, TLAPS

\* The navigation's inputs are of now once it was updated, else older.
NavigationAges ==
  \A i \in DOMAIN inputs : inputs[i].by = "navigation" =>
    inputs[i].age >= (IF "navigation" \in ran THEN 0 ELSE 1)

\* The age of the soonest of the player's inputs that the ship may have: sent
\* just now while it drives, else as it gave the ship back.
Soonest == (IF driver = "navigation" THEN givenBack ELSE 0) - Ahead

\* The player's inputs are not after the last one it sent, nor after Soonest.
PlayerAges ==
  \A i \in DOMAIN inputs : inputs[i].by = "player" =>
    inputs[i].age >= playerLast /\ inputs[i].age >= Soonest

\* The last input processed came from the queue.
LastAges ==
  /\ shipLastBy = "nobody" => shipLast = Old
  /\ shipLastBy = "navigation" => shipLast >= (IF "navigation" \in ran THEN 0 ELSE 1)
  /\ shipLastBy = "player" => shipLast >= Soonest

ShotAges == fired \in {lastShot, Old}

IInv ==
  /\ TypeOK /\ InputsInOrder /\ RefusedAfterAHandOver /\ ShotsAreSpaced
  /\ NavigationAges /\ PlayerAges /\ LastAges /\ ShotAges

-----------------------------------------------------------------------------
(* Ages and the queue *)

LEMMA OldAge ==
  /\ Old \in Nat /\ Ahead < Old /\ Late < Old /\ ShootDelay < Old /\ 1 < Old
  /\ \A age \in Int : age <= Old => Older(age) = IF age < Old THEN age + 1 ELSE Old
  <1>1. /\ Max({Ahead, Late, ShootDelay}) \in {Ahead, Late, ShootDelay}
        /\ \A y \in {Ahead, Late, ShootDelay} : Max({Ahead, Late, ShootDelay}) >= y
    <2> DEFINE m == IF Late >= ShootDelay THEN Late ELSE ShootDelay
               most == IF Ahead >= m THEN Ahead ELSE m
    <2>1. most \in {Ahead, Late, ShootDelay} /\ \A y \in {Ahead, Late, ShootDelay} : most >= y
      BY AgesAssumption, DelayAssumption
    <2>2. \A x \in {Ahead, Late, ShootDelay} :
            (\A y \in {Ahead, Late, ShootDelay} : x >= y) => x = most
      BY AgesAssumption, DelayAssumption
    <2> HIDE DEF most
    <2>3. Max({Ahead, Late, ShootDelay}) = most
      BY <2>1, <2>2 DEF Max
    <2> QED BY <2>1, <2>3
  <1>2. Old \in Nat /\ Ahead < Old /\ Late < Old /\ ShootDelay < Old /\ 1 < Old
    BY <1>1, AgesAssumption, DelayAssumption DEF Old
  <1>3. ASSUME NEW age \in Int, age <= Old
        PROVE  Older(age) = IF age < Old THEN age + 1 ELSE Old
    <2> DEFINE m == IF age < Old THEN age + 1 ELSE Old
    <2>1. m \in {age + 1, Old} /\ \A y \in {age + 1, Old} : m <= y
      BY <1>2, <1>3
    <2>2. \A x \in {age + 1, Old} : (\A y \in {age + 1, Old} : x <= y) => x = m
      BY <1>2, <1>3
    <2> HIDE DEF m
    <2>3. Min({age + 1, Old}) = m
      BY <2>1, <2>2 DEF Min
    <2> QED BY <2>3 DEF m, Older
  <1> QED BY <1>2, <1>3

\* The queue, as a sequence of bounded length.
Inputs == [age : Ages, by : Drivers]

LEMMA QueueType ==
  ASSUME NEW queue
  PROVE  queue \in BoundedSeq(Inputs, MaxInputs) <=>
           queue \in Seq(Inputs) /\ Len(queue) <= MaxInputs
  <1>1. ASSUME queue \in BoundedSeq(Inputs, MaxInputs)
        PROVE  queue \in Seq(Inputs) /\ Len(queue) <= MaxInputs
    <2>1. PICK m \in 0..MaxInputs : queue \in [1..m -> Inputs]
      BY <1>1 DEF BoundedSeq, SeqOf
    <2>2. m \in Nat /\ m <= MaxInputs
      BY DelayAssumption
    <2>3. queue \in Seq(Inputs) /\ Len(queue) = m
      BY <2>1, <2>2
    <2> QED BY <2>2, <2>3
  <1>2. ASSUME queue \in Seq(Inputs), Len(queue) <= MaxInputs
        PROVE  queue \in BoundedSeq(Inputs, MaxInputs)
    <2>1. Len(queue) \in 0..MaxInputs /\ queue \in [1..Len(queue) -> Inputs]
      BY <1>2, DelayAssumption
    <2> QED BY <2>1 DEF BoundedSeq, SeqOf
  <1> QED BY <1>1, <1>2

\* What is known of the queue and of the times, as integers.
LEMMA Types ==
  ASSUME IInv
  PROVE  /\ inputs \in Seq(Inputs) /\ Len(inputs) <= MaxInputs /\ Len(inputs) \in Nat
         /\ DOMAIN inputs = 1..Len(inputs)
         /\ \A i \in DOMAIN inputs :
              /\ inputs[i].age \in Int /\ inputs[i].age <= Old /\ -Ahead <= inputs[i].age
              /\ inputs[i].by \in Drivers /\ inputs[i] \in Inputs
         /\ shipLast \in Int /\ -Ahead <= shipLast /\ shipLast <= Old
         /\ playerLast \in Int /\ -Ahead <= playerLast /\ playerLast <= Old
         /\ lastShot \in Int /\ -1 <= lastShot /\ lastShot <= Old
         /\ fired \in Int /\ 0 <= fired /\ fired <= Old
         /\ givenBack \in Int /\ 0 <= givenBack /\ givenBack <= Old
         /\ Soonest \in Int /\ -Ahead <= Soonest
  <1>1. inputs \in Seq(Inputs) /\ Len(inputs) <= MaxInputs
    BY QueueType DEF IInv, TypeOK, Inputs
  <1>2. /\ Len(inputs) \in Nat /\ DOMAIN inputs = 1..Len(inputs)
        /\ \A i \in DOMAIN inputs : inputs[i] \in Inputs
    BY <1>1
  <1>3. \A i \in DOMAIN inputs : inputs[i].age \in Ages /\ inputs[i].by \in Drivers
    BY <1>2 DEF Inputs
  <1>4. \A age \in Ages : age \in Int /\ age <= Old /\ -Ahead <= age
    BY OldAge, AgesAssumption DEF Ages
  <1>5. /\ lastShot \in Int /\ -1 <= lastShot /\ lastShot <= Old
        /\ fired \in Int /\ 0 <= fired /\ fired <= Old
    BY OldAge DEF IInv, TypeOK
  <1>6. shipLast \in Ages /\ playerLast \in Ages
    BY DEF IInv, TypeOK
  <1>7. givenBack \in Int /\ 0 <= givenBack /\ givenBack <= Old
    BY OldAge DEF IInv, TypeOK
  <1>8. Soonest \in Int /\ -Ahead <= Soonest
    BY <1>7, AgesAssumption DEF Soonest
  <1> QED BY <1>1, <1>2, <1>3, <1>4, <1>5, <1>6, <1>7, <1>8

\* What the queue must satisfy, of any queue, last times, updates and soonest
\* age.
QueueFits(queue, last, sent, updates, soonest) ==
  /\ queue \in Seq(Inputs) /\ Len(queue) <= MaxInputs
  /\ \A i, j \in DOMAIN queue :
       i < j /\ queue[i].by = queue[j].by /\ queue[j].age < Old
         => queue[i].age > queue[j].age
  /\ \A i \in DOMAIN queue : queue[i].age < last \/ queue[i].age = Old
  /\ \A i \in DOMAIN queue : queue[i].by = "navigation" =>
       queue[i].age >= (IF "navigation" \in updates THEN 0 ELSE 1)
  /\ \A i \in DOMAIN queue : queue[i].by = "player" =>
       queue[i].age >= sent /\ queue[i].age >= soonest

QueueIsFit == QueueFits(inputs, shipLast, playerLast, ran, Soonest)

LEMMA QueueParts ==
  QueueIsFit <=> /\ inputs \in BoundedSeq([age : Ages, by : Drivers], MaxInputs)
                 /\ InputsInOrder /\ NavigationAges /\ PlayerAges
  BY QueueType
  DEF QueueIsFit, QueueFits, Inputs, InputsInOrder, NavigationAges, PlayerAges

LEMMA QueuePartsNext ==
  QueueFits(inputs', shipLast', playerLast', ran', Soonest') =>
    /\ inputs' \in BoundedSeq([age : Ages, by : Drivers], MaxInputs)
    /\ InputsInOrder' /\ NavigationAges' /\ PlayerAges'
  BY QueueType
  DEF QueueFits, Inputs, InputsInOrder, NavigationAges, PlayerAges

LEMMA EmptyQueue ==
  ASSUME NEW last, NEW sent, NEW updates, NEW soonest
  PROVE  QueueFits(<<>>, last, sent, updates, soonest)
  BY DelayAssumption DEF QueueFits

\* The queue stays fit when the updates of a turn go on.
LEMMA UpdatesGoOn ==
  ASSUME IInv, NEW updates, ran \subseteq updates
  PROVE  QueueFits(inputs, shipLast, playerLast, updates, Soonest)
  BY QueueParts, Types, AgesAssumption DEF IInv, TypeOK, QueueIsFit, QueueFits

\* PushInput keeps the order when the new time is after those of its driver.
LEMMA PushKeepsOrder ==
  ASSUME NEW queue, NEW last, NEW sent, NEW updates, NEW soonest,
         QueueFits(queue, last, sent, updates, soonest),
         Len(queue) < MaxInputs, NEW new \in Inputs, new.age < last,
         \A i \in DOMAIN queue : queue[i].by = new.by => queue[i].age > new.age,
         new.by = "navigation" => new.age >= (IF "navigation" \in updates THEN 0 ELSE 1),
         new.by = "player" => new.age >= sent /\ new.age >= soonest
  PROVE  QueueFits(Append(queue, new), last, sent, updates, soonest)
  <1> DEFINE longer == Append(queue, new)
  <1>1. /\ longer \in Seq(Inputs) /\ Len(longer) = Len(queue) + 1 /\ Len(queue) \in Nat
        /\ DOMAIN longer = 1..(Len(queue) + 1) /\ DOMAIN queue = 1..Len(queue)
        /\ \A i \in DOMAIN queue : longer[i] = queue[i]
        /\ longer[Len(queue) + 1] = new
    BY DEF QueueFits
  <1> HIDE DEF longer
  <1>2. Len(longer) <= MaxInputs
    BY <1>1, DelayAssumption
  <1>3. \A i \in DOMAIN longer : i \in DOMAIN queue \/ i = Len(queue) + 1
    BY <1>1
  <1>4. ASSUME NEW i \in DOMAIN longer, NEW j \in DOMAIN longer,
               i < j, longer[i].by = longer[j].by, longer[j].age < Old
        PROVE  longer[i].age > longer[j].age
    <2>1. i \in DOMAIN queue
      BY <1>1, <1>4
    <2>2. CASE j \in DOMAIN queue
      BY <1>1, <1>4, <2>1, <2>2 DEF QueueFits
    <2>3. CASE j = Len(queue) + 1
      BY <1>1, <1>4, <2>1, <2>3
    <2> QED BY <1>3, <2>2, <2>3
  <1>5. \A i \in DOMAIN longer :
          /\ longer[i].age < last \/ longer[i].age = Old
          /\ longer[i].by = "navigation" =>
               longer[i].age >= (IF "navigation" \in updates THEN 0 ELSE 1)
          /\ longer[i].by = "player" =>
               longer[i].age >= sent /\ longer[i].age >= soonest
    BY <1>1, <1>3 DEF QueueFits
  <1>6. QueueFits(longer, last, sent, updates, soonest)
    BY <1>1, <1>2, <1>4, <1>5 DEF QueueFits
  <1> QED BY <1>6 DEF longer

-----------------------------------------------------------------------------
(* The ship *)

LEMMA NavigationUpdateKeeps == IInv /\ NavigationUpdate => IInv'
  <1> SUFFICES ASSUME IInv, NavigationUpdate PROVE IInv'
    OBVIOUS
  <1>1. /\ ran' = ran \cup {"navigation"} /\ "navigation" \notin ran
        /\ Len(inputs) < MaxInputs
        /\ refused = "nobody" /\ PushInput(0, "navigation") /\ driver = "navigation"
        /\ UNCHANGED <<alive, driver, shipLast, shipLastBy, playerLast, gun, turn, givenBack>>
        /\ Soonest' = Soonest
    BY DEF NavigationUpdate, Running, Soonest
  <1>2. QueueFits(inputs, shipLast, playerLast, ran', Soonest)
    BY <1>1, UpdatesGoOn
  <1>3. CASE /\ 0 < shipLast /\ refused' = refused
             /\ inputs' = Append(inputs, [age |-> 0, by |-> "navigation"])
    <2> DEFINE new == [age |-> 0, by |-> "navigation"]
    <2>1. new \in Inputs /\ new.age = 0 /\ new.by = "navigation"
      BY OldAge, AgesAssumption DEF Inputs, Ages, Drivers
    <2> HIDE DEF new
    <2>2. \A i \in DOMAIN inputs : inputs[i].by = "navigation" => inputs[i].age > 0
      BY <1>1, Types DEF IInv, NavigationAges
    <2>3. QueueFits(Append(inputs, new), shipLast, playerLast, ran', Soonest)
      BY <1>1, <1>2, <1>3, <2>1, <2>2, PushKeepsOrder
    <2>4. QueueFits(inputs', shipLast', playerLast', ran', Soonest')
      BY <1>1, <1>3, <2>3 DEF new
    <2>5. RefusedAfterAHandOver' /\ ShotsAreSpaced' /\ ShotAges'
      BY <1>1, <1>3 DEF IInv, RefusedAfterAHandOver, ShotsAreSpaced, ShotAges, gun
    <2>6. LastAges'
      BY <1>1, Types DEF IInv, LastAges
    <2> QED BY <1>1, <1>3, <2>4, <2>5, <2>6, QueuePartsNext DEF IInv, TypeOK, gun
  <1>4. CASE 0 >= shipLast /\ refused' = "navigation" /\ inputs' = inputs
    <2>1. shipLastBy = "player"
      BY <1>1, <1>4, OldAge, Types DEF IInv, LastAges, TypeOK, Drivers
    <2>5. givenBack <= Ahead
      BY <1>1, <1>4, <2>1, Types, AgesAssumption DEF IInv, LastAges, Soonest
    <2>2. QueueFits(inputs', shipLast', playerLast', ran', Soonest')
      BY <1>1, <1>2, <1>4
    <2>3. RefusedAfterAHandOver' /\ ShotsAreSpaced' /\ ShotAges'
      BY <1>1, <1>4, <2>1, <2>5 DEF IInv, RefusedAfterAHandOver, ShotsAreSpaced, ShotAges, gun
    <2>4. LastAges'
      BY <1>1, Types DEF IInv, LastAges
    <2> QED BY <1>1, <1>4, <2>2, <2>3, <2>4, QueuePartsNext DEF IInv, TypeOK, gun, Drivers
  <1> QED BY <1>1, <1>3, <1>4, Types DEF PushInput

LEMMA InputUpdateKeeps == IInv /\ InputUpdate => IInv'
  <1> SUFFICES ASSUME IInv, InputUpdate PROVE IInv'
    OBVIOUS
  <1>1. /\ inputs # <<>> /\ ran' = ran \cup {"inputs"}
        /\ shipLast' = Last(inputs).age /\ shipLastBy' = Last(inputs).by /\ inputs' = <<>>
        /\ refused = "nobody"
        /\ UNCHANGED <<alive, driver, playerLast, gun, turn, givenBack, refused>>
        /\ Soonest' = Soonest
    BY DEF InputUpdate, Running, Soonest
  <1>2. Len(inputs) \in DOMAIN inputs /\ Last(inputs) = inputs[Len(inputs)]
    BY <1>1, Types DEF Last
  <1>3. shipLast' \in Ages /\ shipLastBy' \in Drivers
    BY <1>1, <1>2, Types DEF Inputs
  <1>4. LastAges'
    BY <1>1, <1>2, <1>3, Types DEF IInv, LastAges, NavigationAges, PlayerAges, Drivers
  <1>5. QueueFits(inputs', shipLast', playerLast', ran', Soonest')
    BY <1>1, EmptyQueue
  <1>6. RefusedAfterAHandOver' /\ ShotsAreSpaced' /\ ShotAges'
    BY <1>1 DEF IInv, RefusedAfterAHandOver, ShotsAreSpaced, ShotAges, gun
  <1> QED BY <1>1, <1>3, <1>4, <1>5, <1>6, QueuePartsNext DEF IInv, TypeOK, gun

LEMMA DestroyKeeps == IInv /\ Destroy => IInv'
  <1> SUFFICES ASSUME IInv, Destroy PROVE IInv'
    OBVIOUS
  <1>1. /\ alive' = FALSE /\ driver' = "navigation" /\ refused = "nobody"
        /\ inputs' = <<>> /\ shipLast' = Old /\ shipLastBy' = "nobody"
        /\ turn' = "update" /\ UNCHANGED <<playerLast, gun, ran, givenBack, refused>>
    BY DEF Destroy, Running
  <1>2. QueueFits(inputs', shipLast', playerLast', ran', Soonest')
    BY <1>1, EmptyQueue
  <1>3. Old \in Ages
    BY OldAge, AgesAssumption DEF Ages
  <1>4. RefusedAfterAHandOver' /\ ShotsAreSpaced' /\ ShotAges' /\ LastAges'
    BY <1>1 DEF IInv, RefusedAfterAHandOver, ShotsAreSpaced, ShotAges, LastAges, gun
  <1> QED BY <1>1, <1>2, <1>3, <1>4, QueuePartsNext DEF IInv, TypeOK, gun, Drivers

\* The steps that change who drives, that the ship exists, or how far the turn
\* is.
LEMMA DriverKeeps == IInv /\ (Spawn \/ TakeControl \/ GiveBack \/ NextTurn) => IInv'
  <1> SUFFICES ASSUME IInv, Spawn \/ TakeControl \/ GiveBack \/ NextTurn PROVE IInv'
    OBVIOUS
  <1>1. /\ alive' \in BOOLEAN /\ driver' \in Drivers /\ (driver' = "player" => alive')
        /\ turn' \in {"update", "callbacks", "packets"}
        /\ UNCHANGED <<inputs, shipLast, shipLastBy, playerLast, gun, ran, refused>>
        /\ refused = "nobody"
    BY DEF Spawn, TakeControl, GiveBack, NextTurn, IInv, TypeOK, Drivers, loop, ship, Running
  <1>2. /\ givenBack' \in 0..Old
        /\ Soonest' \in Int /\ Soonest' <= Soonest
    <2>1. CASE UNCHANGED <<driver, givenBack>>
      BY <2>1, Types DEF Soonest
    <2>2. CASE TakeControl
      BY <2>2, Types, AgesAssumption DEF TakeControl, Soonest
    <2>3. CASE GiveBack
      BY <2>3, OldAge, Types, AgesAssumption DEF GiveBack, Soonest
    <2> QED BY <2>1, <2>2, <2>3 DEF Spawn, NextTurn, ship
  <1>3. PlayerAges' /\ LastAges'
    BY <1>1, <1>2, Types DEF IInv, PlayerAges, LastAges
  <1> QED
    BY <1>1, <1>2, <1>3
    DEF IInv, TypeOK, InputsInOrder, RefusedAfterAHandOver, ShotsAreSpaced, NavigationAges,
        ShotAges, gun

-----------------------------------------------------------------------------
(* The player *)

\* A shot that is allowed is a delay after the last one.
LEMMA FireIsSpaced ==
  ASSUME IInv, CanShoot, Fire
  PROVE  ~rapid' /\ rapid' \in BOOLEAN /\ lastShot' = 0 /\ fired' = 0
  <1>1. fired >= ShootDelay
    BY Types, OldAge, DelayAssumption DEF IInv, ShotAges, CanShoot
  <1>2. ~(fired < ShootDelay)
    BY <1>1, Types, DelayAssumption
  <1>3. ~rapid
    BY DEF IInv, ShotsAreSpaced
  <1>4. ~rapid' /\ rapid' \in BOOLEAN
    <2>1. rapid' = (rapid \/ fired < ShootDelay)
      BY DEF Fire
    <2> QED BY <1>2, <1>3, <2>1
  <1> QED BY <1>4 DEF Fire

\* What the steps of the player's gun leave alone.
LEMMA GunKeeps ==
  ASSUME IInv, UNCHANGED <<ship, playerLast, ran, givenBack, refused>>,
         turn' \in {"update", "callbacks", "packets"}, pending' \in BOOLEAN,
         \/ CanShoot /\ Fire
         \/ UNCHANGED <<lastShot, fired, rapid>>
  PROVE  IInv'
  <1>1. /\ ~rapid' /\ rapid' \in BOOLEAN /\ lastShot' \in -1..Old /\ fired' \in 0..Old
        /\ fired' \in {lastShot', Old}
    <2>1. CASE CanShoot /\ Fire
      BY <2>1, FireIsSpaced, OldAge
    <2>2. CASE UNCHANGED <<lastShot, fired, rapid>>
      BY <2>2 DEF IInv, TypeOK, ShotsAreSpaced, ShotAges
    <2> QED BY <2>1, <2>2
  <1>2. QueueFits(inputs', shipLast', playerLast', ran', Soonest')
    BY UpdatesGoOn DEF ship, Soonest
  <1>3. LastAges' /\ RefusedAfterAHandOver'
    BY DEF IInv, LastAges, RefusedAfterAHandOver, ship, Soonest
  <1>4. TypeOK'
    BY <1>1, <1>2, QueuePartsNext DEF IInv, TypeOK, ship
  <1> QED BY <1>1, <1>2, <1>3, <1>4, QueuePartsNext DEF IInv, ShotsAreSpaced, ShotAges

LEMMA PlayerUpdateKeeps == IInv /\ PlayerUpdate => IInv'
  BY GunKeeps DEF PlayerUpdate, gun, IInv, TypeOK

LEMMA ShootKeeps == IInv /\ Shoot => IInv'
  BY GunKeeps DEF Shoot, loop, IInv, TypeOK

LEMMA UpdateInputKeeps ==
  ASSUME IInv, NEW age \in -Ahead..Late, UpdateInput(age)
  PROVE  IInv'
  <1>1. /\ refused = "nobody" /\ Len(inputs) < MaxInputs
        /\ age < playerLast /\ playerLast' = age
        /\ UNCHANGED <<alive, driver, shipLast, shipLastBy, gun, turn, ran, givenBack>>
        /\ Soonest' = Soonest
    BY DEF UpdateInput, Running, loop, Soonest
  <1>2. age \in Ages /\ age \in Int /\ -Ahead <= age
    BY OldAge, AgesAssumption DEF Ages
  <1>3. QueueFits(inputs, shipLast, age, ran, Soonest)
    <2>1. QueueFits(inputs, shipLast, playerLast, ran, Soonest)
      BY UpdatesGoOn
    <2>2. \A i \in DOMAIN inputs : inputs[i].age >= playerLast => inputs[i].age >= age
      BY <1>1, <1>2, Types
    <2> QED BY <2>1, <2>2 DEF QueueFits
  <1>4. /\ refused' = refused
        /\ \/ inputs' = inputs
           \/ /\ driver = "player" /\ age < shipLast
              /\ inputs' = Append(inputs, [age |-> age, by |-> "player"])
    BY <1>2, Types DEF UpdateInput, PushIf, PushInput
  <1>5. QueueFits(inputs', shipLast', playerLast', ran', Soonest')
    <2>1. CASE inputs' = inputs
      BY <1>1, <1>3, <2>1
    <2>2. CASE /\ driver = "player" /\ age < shipLast
               /\ inputs' = Append(inputs, [age |-> age, by |-> "player"])
      <3> DEFINE new == [age |-> age, by |-> "player"]
      <3>1. new \in Inputs /\ new.age = age /\ new.by = "player"
        BY <1>2 DEF Inputs, Drivers
      <3> HIDE DEF new
      <3>2. \A i \in DOMAIN inputs : inputs[i].by = "player" => inputs[i].age > age
        BY <1>1, <1>2, Types DEF IInv, PlayerAges
      <3>3. new.age >= age /\ new.age >= Soonest
        BY <1>2, <2>2, <3>1, AgesAssumption DEF Soonest
      <3>4. QueueFits(Append(inputs, new), shipLast, age, ran, Soonest)
        BY <1>1, <1>3, <2>2, <3>1, <3>2, <3>3, PushKeepsOrder
      <3> QED BY <1>1, <2>2, <3>4 DEF new
    <2> QED BY <1>4, <2>1, <2>2
  <1>6. RefusedAfterAHandOver' /\ ShotsAreSpaced' /\ ShotAges' /\ LastAges'
    BY <1>1, <1>4 DEF IInv, RefusedAfterAHandOver, ShotsAreSpaced, ShotAges, LastAges, gun
  <1> QED BY <1>1, <1>2, <1>4, <1>5, <1>6, QueuePartsNext DEF IInv, TypeOK, gun

-----------------------------------------------------------------------------
(* The time *)

\* Everything grows older at once, up to Old.
LEMMA OlderKeepsOrder ==
  /\ \A age \in Ages : Older(age) \in Ages /\ Older(age) >= age
  /\ \A age \in Ages : age < Old => Older(age) = age + 1
  /\ \A x, y \in Ages : x < y => Older(x) < Older(y) \/ Older(x) = Old
  /\ \A x, y \in Ages : x > y /\ Older(y) < Old => Older(x) > Older(y)
  /\ \A x, y \in Ages : x >= y => Older(x) >= Older(y)
  <1>1. \A age \in Ages : age \in Int /\ -Ahead <= age /\ age <= Old
    BY OldAge, AgesAssumption DEF Ages
  <1>2. \A age \in Ages : Older(age) = IF age < Old THEN age + 1 ELSE Old
    BY <1>1, OldAge
  <1>3. \A age \in Int : -Ahead <= age /\ age <= Old => age \in Ages
    BY OldAge, AgesAssumption DEF Ages
  <1>4. \A age \in Ages : Older(age) \in Ages /\ Older(age) >= age
    BY <1>1, <1>2, <1>3, OldAge, AgesAssumption
  <1> QED BY <1>1, <1>2, <1>4, OldAge

LEMMA StoreTimeKeeps == IInv /\ StoreTime => IInv'
  <1> SUFFICES ASSUME IInv, StoreTime PROVE IInv'
    OBVIOUS
  <1>1. /\ refused = "nobody" /\ turn' = "packets" /\ ran' = {}
        /\ inputs' = [k \in DOMAIN inputs |-> [inputs[k] EXCEPT !.age = Older(@)]]
        /\ shipLast' = Older(shipLast) /\ playerLast' = Older(playerLast)
        /\ lastShot' = Older(lastShot) /\ fired' = Older(fired)
        /\ givenBack' = Older(givenBack)
        /\ UNCHANGED <<alive, driver, shipLastBy, pending, rapid, refused>>
    BY DEF StoreTime, Running
  <1>2. /\ shipLast \in Ages /\ playerLast \in Ages /\ 0 \in Ages
        /\ \A i \in DOMAIN inputs : inputs[i] \in Inputs /\ inputs[i].age \in Ages
    BY Types, OldAge, AgesAssumption DEF IInv, TypeOK, Ages, Inputs
  <1>3. \A i \in DOMAIN inputs :
          /\ inputs'[i] \in Inputs
          /\ inputs'[i].age = Older(inputs[i].age) /\ inputs'[i].by = inputs[i].by
    <2> SUFFICES ASSUME NEW i \in DOMAIN inputs
                 PROVE  /\ inputs'[i] \in Inputs
                        /\ inputs'[i].age = Older(inputs[i].age)
                        /\ inputs'[i].by = inputs[i].by
      OBVIOUS
    <2>1. inputs'[i] = [inputs[i] EXCEPT !.age = Older(inputs[i].age)]
      BY <1>1
    <2>2. Older(inputs[i].age) \in Ages
      BY <1>2, OlderKeepsOrder
    <2> QED BY <1>2, <2>1, <2>2 DEF Inputs
  <1>4. /\ inputs' \in Seq(Inputs) /\ Len(inputs') = Len(inputs)
        /\ DOMAIN inputs' = DOMAIN inputs
    <2>1. inputs' \in [1..Len(inputs) -> Inputs] /\ Len(inputs) \in Nat
      BY <1>1, <1>3, Types
    <2> QED BY <2>1, Types
  <1>5. /\ \A i, j \in DOMAIN inputs' :
             i < j /\ inputs'[i].by = inputs'[j].by /\ inputs'[j].age < Old
               => inputs'[i].age > inputs'[j].age
        /\ \A i \in DOMAIN inputs' : inputs'[i].age < shipLast' \/ inputs'[i].age = Old
    <2>1. ASSUME NEW i \in DOMAIN inputs', NEW j \in DOMAIN inputs',
                 i < j, inputs'[i].by = inputs'[j].by, inputs'[j].age < Old
          PROVE  inputs'[i].age > inputs'[j].age
      <3>1. /\ inputs[i].age \in Ages /\ inputs[j].age \in Ages
            /\ inputs[i].by = inputs[j].by
            /\ Older(inputs[j].age) < Old
        BY <1>2, <1>3, <1>4, <2>1
      <3>2. inputs[j].age < Old
        BY <3>1, OldAge, Types, <1>4
      <3>3. inputs[i].age > inputs[j].age
        BY <1>4, <2>1, <3>1, <3>2 DEF IInv, InputsInOrder
      <3> QED BY <1>3, <1>4, <3>1, <3>3, OlderKeepsOrder
    <2>2. ASSUME NEW i \in DOMAIN inputs'
          PROVE  inputs'[i].age < shipLast' \/ inputs'[i].age = Old
      <3>1. inputs[i].age < shipLast \/ inputs[i].age = Old
        BY <1>4 DEF IInv, InputsInOrder
      <3>2. Older(Old) = Old
        BY OldAge
      <3> QED BY <1>1, <1>2, <1>3, <1>4, <3>1, <3>2, OlderKeepsOrder
    <2> QED BY <2>1, <2>2
  <1>6. \A age \in Ages : age >= Soonest => Older(age) >= Soonest'
    <2>1. \A age \in Int : age <= Old => Older(age) = IF age < Old THEN age + 1 ELSE Old
      BY OldAge
    <2>2. givenBack' = IF givenBack < Old THEN givenBack + 1 ELSE Old
      BY <1>1, <2>1, Types
    <2>3. \A age \in Ages : age \in Int /\ age <= Old
      BY OldAge, AgesAssumption DEF Ages
    <2> QED BY <1>1, <2>1, <2>2, <2>3, OldAge, Types, AgesAssumption DEF Soonest
  <1>7. /\ \A i \in DOMAIN inputs' : inputs'[i].by = "navigation" => inputs'[i].age >= 1
        /\ \A i \in DOMAIN inputs' : inputs'[i].by = "player" =>
             inputs'[i].age >= playerLast' /\ inputs'[i].age >= Soonest'
    <2>1. \A age \in Ages : age \in Int /\ (age >= 0 => Older(age) >= 1)
      BY OldAge, AgesAssumption, OlderKeepsOrder DEF Ages
    <2>2. \A i \in DOMAIN inputs' :
            /\ inputs[i].age \in Ages /\ inputs[i].age \in Int
            /\ inputs'[i].age = Older(inputs[i].age) /\ inputs'[i].by = inputs[i].by
            /\ inputs[i].by = "navigation" => inputs[i].age >= 0
            /\ inputs[i].by = "player" =>
                 inputs[i].age >= playerLast /\ inputs[i].age >= Soonest
      BY <1>1, <1>2, <1>3, <1>4, Types DEF IInv, NavigationAges, PlayerAges
    <2> QED BY <1>1, <1>2, <1>6, <2>1, <2>2, OlderKeepsOrder
  <1>8. QueueFits(inputs', shipLast', playerLast', ran', Soonest')
    BY <1>1, <1>4, <1>5, <1>7, Types DEF QueueFits
  <1>9. LastAges'
    BY <1>1, <1>2, <1>6, OldAge, AgesAssumption, OlderKeepsOrder, Types DEF IInv, LastAges
  <1>10. RefusedAfterAHandOver' /\ ShotsAreSpaced'
    BY <1>1 DEF IInv, RefusedAfterAHandOver, ShotsAreSpaced
  <1>11. lastShot' \in -1..Old /\ fired' \in 0..Old /\ ShotAges'
    BY <1>1, OldAge, Types DEF IInv, ShotAges
  <1>12. shipLast' \in Ages /\ playerLast' \in Ages /\ givenBack' \in 0..Old
    BY <1>1, <1>2, OldAge, OlderKeepsOrder, Types
  <1> QED BY <1>1, <1>8, <1>9, <1>10, <1>11, <1>12, QueuePartsNext DEF IInv, TypeOK

-----------------------------------------------------------------------------
(* The theorems *)

LEMMA InitInvariant == Init => IInv
  <1> SUFFICES ASSUME Init PROVE IInv
    OBVIOUS
  <1>1. inputs \in BoundedSeq([age : Ages, by : Drivers], MaxInputs)
    <2>1. inputs \in Seq(Inputs) /\ Len(inputs) = 0
      BY DEF Init
    <2>2. inputs \in BoundedSeq(Inputs, MaxInputs)
      <3>1. Len(inputs) <= MaxInputs
        BY <2>1, DelayAssumption
      <3> QED BY <2>1, <3>1, QueueType
    <2> QED BY <2>2 DEF Inputs
  <1>2. Old \in Ages /\ Old \in 0..Old
    BY OldAge, AgesAssumption DEF Ages
  <1>3. TypeOK
    BY <1>1, <1>2 DEF Init, TypeOK, Drivers
  <1>4. InputsInOrder /\ NavigationAges /\ PlayerAges
    BY DEF Init, InputsInOrder, NavigationAges, PlayerAges
  <1> QED
    BY <1>3, <1>4 DEF Init, IInv, RefusedAfterAHandOver, ShotsAreSpaced, LastAges, ShotAges

LEMMA StepInvariant == IInv /\ [Next]_vars => IInv'
  <1> SUFFICES ASSUME IInv, [Next]_vars PROVE IInv'
    OBVIOUS
  <1>1. CASE UNCHANGED vars
    BY <1>1
    DEF vars, ship, gun, loop, IInv, TypeOK, InputsInOrder, RefusedAfterAHandOver,
        ShotsAreSpaced, NavigationAges, PlayerAges, LastAges, ShotAges, Soonest
  <1> QED
    BY <1>1, NavigationUpdateKeeps, InputUpdateKeeps, DestroyKeeps, DriverKeeps,
       PlayerUpdateKeeps, ShootKeeps, UpdateInputKeeps, StoreTimeKeeps
    DEF Next

\* The inductive invariant holds of every behaviour, however turns, packets and
\* deaths of ships follow each other.
THEOREM Invariant == Spec => []IInv
  BY InitInvariant, StepInvariant, PTL DEF Spec

\* Every variable keeps its type; only a ship that exists is controlled.
THEOREM TypeCorrect == Spec => []TypeOK
  <1>1. IInv => TypeOK
    BY DEF IInv
  <1> QED BY <1>1, Invariant, PTL

\* The inputs of one driver wait in the order of their times, all of them after
\* the last one processed (InputComponent).
THEOREM OrderedInputs == Spec => []InputsInOrder
  <1>1. IInv => InputsInOrder
    BY DEF IInv
  <1> QED BY <1>1, Invariant, PTL

\* PushInput's assertion fails for the navigation only, after a player gave it
\* the ship, and no longer after that than a player's input may be in the future
\* (InputComponent.inl:34, NavigationSystem::OnUpdate).
THEOREM OnlyAfterAHandOver == Spec => []RefusedAfterAHandOver
  <1>1. IInv => RefusedAfterAHandOver
    BY DEF IInv
  <1> QED BY <1>1, Invariant, PTL

\* Two projectiles of a player are a delay apart (Player::Shoot).
THEOREM SpacedShots == Spec => []ShotsAreSpaced
  <1>1. IInv => ShotsAreSpaced
    BY DEF IInv
  <1> QED BY <1>1, Invariant, PTL
=============================================================================
