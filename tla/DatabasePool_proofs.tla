------------------------ MODULE DatabasePool_proofs ------------------------
(***************************************************************************)
(* Theorems of DatabasePool, for any number of workers, requests, lost     *)
(* connections and statements: the types, the safety properties and the    *)
(* implementation of RequestService.                                       *)
(*                                                                         *)
(* The inductive invariant follows a request from the request queue to a   *)
(* worker and to the result queue: it is in one place at a time, only once *)
(* (Placement), and its effect agrees with the place (Effects).            *)
(***************************************************************************)
EXTENDS DatabasePool, TLAPS

Undecided == {"taken", "query", "begin", "statement", "rollback"}
Busy == Undecided \cup {"submit"}
Online == Undecided \cup {"dequeue", "timedOut", "notify", "ping"}

\* Where a worker is says whether it has a request, a connection and an open
\* transaction.  A worker that std::terminate ended keeps its last job.
ControlOf(w) ==
  /\ pc[w] \in Busy => job[w].request \in Requests
  /\ pc[w] \notin Busy \cup {"exited"} => job[w] = NoJob
  /\ pc[w] \in Undecided => ~job[w].succeeded
  /\ pc[w] \in Online => connected[w]
  /\ inTransaction[w] => connected[w] /\ pc[w] \in {"statement", "rollback"}

Control == \A w \in Workers : ControlOf(w)

Pending(r) == r \in submitted /\ calls[r] = 0

\* A request is pending wherever it is.
PlacedArePending ==
  /\ \A i \in 1..Len(requestQueue) : Pending(requestQueue[i])
  /\ \A w \in Workers : job[w].request \in Requests => Pending(job[w].request)
  /\ \A w \in Workers : \A i \in 1..Len(resultQueue[w]) :
       Pending(resultQueue[w][i].request)

\* A request is only once in the request queue, with the workers, and in the
\* result queue.
PlacedOnce ==
  /\ \A i, j \in 1..Len(requestQueue) :
       requestQueue[i] = requestQueue[j] => i = j
  /\ \A v, w \in Workers :
       job[v].request \in Requests /\ job[v].request = job[w].request => v = w
  /\ \A v, w \in Workers :
       \A i \in 1..Len(resultQueue[v]), j \in 1..Len(resultQueue[w]) :
         resultQueue[v][i].request = resultQueue[w][j].request => v = w /\ i = j

\* A request is in one of the three only.
PlacedApart ==
  /\ \A i \in 1..Len(requestQueue), w \in Workers :
       requestQueue[i] # job[w].request
  /\ \A i \in 1..Len(requestQueue), w \in Workers :
       \A j \in 1..Len(resultQueue[w]) :
         requestQueue[i] # resultQueue[w][j].request
  /\ \A v, w \in Workers : \A j \in 1..Len(resultQueue[w]) :
       job[v].request # resultQueue[w][j].request

Placement == PlacedArePending /\ PlacedOnce /\ PlacedApart

\* What a report says of request r agrees with the database.
HonestIn(r, succeeded, a, c) == IF succeeded THEN r \in a ELSE r \notin a \/ r \in c
Honest(r, succeeded) == HonestIn(r, succeeded, applied, cut)

UntouchedIn(r, a, c) == r \notin a \cup c
Untouched(r) == UntouchedIn(r, applied, cut)

\* A request has no effect before the statement that decides; afterwards every
\* report of it is honest.
Effects ==
  /\ \A i \in 1..Len(requestQueue) : Untouched(requestQueue[i])
  /\ \A w \in Workers :
       /\ pc[w] \in Undecided => Untouched(job[w].request)
       /\ pc[w] = "submit" => Honest(job[w].request, job[w].succeeded)
  /\ \A w \in Workers : \A i \in 1..Len(resultQueue[w]) :
       Honest(resultQueue[w][i].request, resultQueue[w][i].succeeded)
  /\ applied \cup cut \subseteq submitted

Answers ==
  \A r \in Requests :
    /\ calls[r] \in {0, 1}
    /\ r \notin submitted => calls[r] = 0
    /\ answer[r] = "none" <=> calls[r] = 0
    /\ answer[r] # "none" => Honest(r, answer[r] = "ok")

IInv == TypeOK /\ Control /\ Placement /\ Effects /\ Answers /\ NothingLost

-----------------------------------------------------------------------------
(* Types and control *)

\* Appending to a queue adds an element behind the others.
LEMMA AppendIsLast ==
  ASSUME NEW S, NEW s \in Seq(S), NEW e \in S
  PROVE  /\ Append(s, e) \in Seq(S)
         /\ Len(Append(s, e)) = Len(s) + 1
         /\ \A i \in 1..Len(s) : Append(s, e)[i] = s[i]
         /\ Append(s, e)[Len(s) + 1] = e
  OBVIOUS

\* Taking the first element of a queue shifts the others.
LEMMA TailShifts ==
  ASSUME NEW S, NEW s \in Seq(S), s # <<>>
  PROVE  /\ Head(s) \in S /\ Head(s) = s[1] /\ 1 \in 1..Len(s)
         /\ Tail(s) \in Seq(S)
         /\ Len(Tail(s)) = Len(s) - 1
         /\ \A i \in 1..Len(Tail(s)) : i + 1 \in 1..Len(s) /\ Tail(s)[i] = s[i + 1]
  OBVIOUS

\* The first worker is a worker, and so is the next one after each but the last.
LEMMA WorkersInOrder ==
  /\ 1 \in Workers
  /\ \A w \in Workers : w # NumWorkers => w + 1 \in Workers
  BY WorkersAssumption DEF Workers

\* The program starts with well-typed variables, every worker connecting.
LEMMA InitTypes == Init => TypeOK /\ Control
  <1> SUFFICES ASSUME Init PROVE TypeOK /\ Control
    OBVIOUS
  <1>1. TypeOK
    BY WorkersInOrder, BoundsAssumption
    DEF Init, TypeOK, MainSteps, WorkerSteps, NoJob, Jobs
  <1>2. Control
    BY DEF Init, Control, ControlOf, Busy, Undecided, Online, NoJob
  <1> QED BY <1>1, <1>2

\* Changing one field of a job keeps it a job.
LEMMA JobFields ==
  ASSUME NEW j \in Jobs
  PROVE  /\ [j EXCEPT !.succeeded = TRUE] \in Jobs
         /\ \A r \in Requests : [j EXCEPT !.request = r] \in Jobs
         /\ \A n \in 0..MaxStatements :
              /\ [j EXCEPT !.size = n] \in Jobs
              /\ j.position + 1 \in 0..MaxStatements =>
                   [j EXCEPT !.position = @ + 1, !.size = n] \in Jobs
  BY DEF Jobs

\* A worker without a request holds a job all the same.
LEMMA NoJobIsJob == NoJob \in Jobs
  BY BoundsAssumption DEF NoJob, Jobs

\* A statement keeps the types of the connection.
LEMMA ConnectionTypes ==
  ASSUME TypeOK, NEW w \in Workers, NEW open \in BOOLEAN,
         KeepConnection(w, open) \/ LoseConnection(w)
  PROVE  /\ losses' \in 0..MaxLosses
         /\ connected' \in [Workers -> BOOLEAN]
         /\ inTransaction' \in [Workers -> BOOLEAN]
  <1>1. CASE KeepConnection(w, open)
    BY <1>1 DEF TypeOK, KeepConnection
  <1>2. CASE LoseConnection(w)
    BY <1>2, BoundsAssumption DEF TypeOK, LoseConnection
  <1> QED BY <1>1, <1>2

\* The statement that decides keeps the types.
LEMMA DecideTypes ==
  ASSUME TypeOK, NEW w \in Workers, Decide(w), job[w].request \in Requests
  PROVE  /\ job' \in [Workers -> Jobs]
         /\ applied' \subseteq Requests /\ cut' \subseteq Requests
         /\ losses' \in 0..MaxLosses
         /\ connected' \in [Workers -> BOOLEAN]
         /\ inTransaction' \in [Workers -> BOOLEAN]
  <1> USE DEF TypeOK
  <1>1. job' \in [Workers -> Jobs]
    <2>1. job' = job \/ job' = [job EXCEPT ![w] = [job[w] EXCEPT !.succeeded = TRUE]]
      BY DEF Decide
    <2>2. job[w] \in Jobs
      OBVIOUS
    <2>3. [job[w] EXCEPT !.succeeded = TRUE] \in Jobs
      BY <2>2, JobFields
    <2> QED BY <2>1, <2>3
  <1>2. applied' \subseteq Requests /\ cut' \subseteq Requests
    BY DEF Decide
  <1>3. losses' \in 0..MaxLosses
    BY BoundsAssumption DEF Decide, KeepConnection, LoseConnection
  <1>4. connected' \in [Workers -> BOOLEAN] /\ inTransaction' \in [Workers -> BOOLEAN]
    BY DEF Decide, KeepConnection, LoseConnection
  <1> QED BY <1>1, <1>2, <1>3, <1>4

\* A step keeps the types.
LEMMA StepTypes ==
  ASSUME TypeOK, Control, [Next]_vars
  PROVE  TypeOK'
  <1> USE DEF TypeOK, MainSteps, WorkerSteps, mainVars, queueVars,
              connectionVars, databaseVars, callerVars
  <1>1. CASE UNCHANGED vars
    BY <1>1 DEF vars, workerVars
  <1>2. ASSUME NEW r \in Requests, Execute(r) PROVE TypeOK'
    BY <1>2, AppendIsLast DEF Execute, workerVars
  <1>3. ASSUME NEW w \in Workers, HandleResult(w) PROVE TypeOK'
    <2> DEFINE result == Head(resultQueue[w])
    <2>0. resultQueue[w] \in Seq(Results) /\ resultQueue[w] # <<>>
      BY <1>3 DEF HandleResult
    <2>1. result \in Results
      BY <2>0, TailShifts
    <2>3. calls' \in [Requests -> Nat]
      BY <1>3, <2>1 DEF HandleResult, Results
    <2>4. answer' \in [Requests -> {"none", "ok", "failed"}]
      BY <1>3, <2>1 DEF HandleResult, Results
    <2>2. resultQueue' \in [Workers -> Seq(Results)]
      BY <1>3, TailShifts DEF HandleResult
    <2> QED BY <1>3, <2>2, <2>3, <2>4 DEF HandleResult, workerVars
  <1>4. CASE BeginWait
    BY <1>4, WorkersInOrder DEF BeginWait, MainGoes
  <1>5. CASE ResetIdle
    BY <1>5, WorkersInOrder DEF ResetIdle, MainGoes, MainLoops
  <1>6. CASE FindIdle
    BY <1>6, WorkersInOrder DEF FindIdle, MainGoes, MainLoops
  <1>7. CASE FindBusy
    BY <1>7, WorkersInOrder DEF FindBusy, MainGoes
  <1>8. CASE Block
    BY <1>8, WorkersInOrder DEF Block, MainGoes
  <1>9. CASE SpuriousWakeup
    BY <1>9, WorkersInOrder DEF SpuriousWakeup, MainGoes
  <1>10. CASE EndDrain
    BY <1>10, WorkersInOrder DEF EndDrain, MainGoes
  <1>11. CASE CheckResults
    BY <1>11, WorkersInOrder DEF CheckResults, MainGoes
  <1>12. CASE BeginShutdown
    BY <1>12, WorkersInOrder DEF BeginShutdown, MainGoes
  <1>13. CASE StopWorker
    BY <1>13, WorkersInOrder DEF StopWorker, MainGoes
  <1>14. CASE JoinWorker
    BY <1>14, WorkersInOrder DEF JoinWorker, MainGoes, MainLoops
  <1>15. ASSUME NEW w \in Workers, Connect(w) PROVE TypeOK'
    BY <1>15 DEF Connect, WorkerGoes, OthersUnchanged
  <1>16. ASSUME NEW w \in Workers, ConnectFails(w) PROVE TypeOK'
    BY <1>16 DEF ConnectFails, WorkerGoes, OthersUnchanged
  <1>17. ASSUME NEW w \in Workers, PrepareThrows(w) PROVE TypeOK'
    BY <1>17 DEF PrepareThrows
  <1>18. ASSUME NEW w \in Workers, Exit(w) PROVE TypeOK'
    BY <1>18 DEF Exit, WorkerGoes, OthersUnchanged
  <1>19. ASSUME NEW w \in Workers, LoopTop(w) PROVE TypeOK'
    BY <1>19 DEF LoopTop, WorkerGoes, OthersUnchanged
  <1>20. ASSUME NEW w \in Workers, DequeueTimeout(w) PROVE TypeOK'
    BY <1>20 DEF DequeueTimeout, WorkerGoes, OthersUnchanged
  <1>21. ASSUME NEW w \in Workers, SetIdle(w) PROVE TypeOK'
    BY <1>21 DEF SetIdle, WorkerGoes
  <1>22. ASSUME NEW w \in Workers, NotifyIdle(w) PROVE TypeOK'
    BY <1>22 DEF NotifyIdle, WorkerGoes
  <1>23. ASSUME NEW w \in Workers, Ping(w) PROVE TypeOK'
    <2>1. \E open \in BOOLEAN : KeepConnection(w, open) \/ LoseConnection(w)
      BY <1>23 DEF Ping
    <2>3. /\ losses' \in 0..MaxLosses
          /\ connected' \in [Workers -> BOOLEAN]
          /\ inTransaction' \in [Workers -> BOOLEAN]
      BY <2>1, ConnectionTypes
    <2>2. pc' \in [Workers -> WorkerSteps]
      BY <1>23 DEF Ping, WorkerGoes
    <2> QED BY <1>23, <2>2, <2>3 DEF Ping, OthersUnchanged
  <1>24. ASSUME NEW w \in Workers, Dequeue(w) PROVE TypeOK'
    <2>1. Head(requestQueue) \in Requests /\ Tail(requestQueue) \in Seq(Requests)
      BY <1>24, TailShifts DEF Dequeue
    <2>2. job[w] \in Jobs /\ job' = [job EXCEPT ![w] = [job[w] EXCEPT !.request = Head(requestQueue)]]
      BY <1>24 DEF Dequeue
    <2>3. job' \in [Workers -> Jobs]
      BY <2>1, <2>2, JobFields
    <2> QED BY <1>24, <2>1, <2>3 DEF Dequeue, WorkerGoes
  <1>25. ASSUME NEW w \in Workers, StartRequest(w) PROVE TypeOK'
    <2>1. PICK n \in 0..MaxStatements :
            job' = job \/ job' = [job EXCEPT ![w] = [job[w] EXCEPT !.size = n]]
      BY <1>25, BoundsAssumption DEF StartRequest
    <2>2. job[w] \in Jobs
      OBVIOUS
    <2>3. [job[w] EXCEPT !.size = n] \in Jobs
      BY <2>2, JobFields
    <2>4. job' \in [Workers -> Jobs]
      <3>1. CASE job' = job
        BY <3>1
      <3>2. CASE job' = [job EXCEPT ![w] = [job[w] EXCEPT !.size = n]]
        BY <2>3, <3>2
      <3> QED BY <2>1, <3>1, <3>2
    <2> QED BY <1>25, <2>4 DEF StartRequest, WorkerGoes
  <1>26. ASSUME NEW w \in Workers, ExecQuery(w) PROVE TypeOK'
    <2>1. Decide(w) /\ job[w].request \in Requests
      BY <1>26 DEF ExecQuery, WorkerGoes, Control, ControlOf, Busy, Undecided
    <2>2. pc' \in [Workers -> WorkerSteps]
      BY <1>26 DEF ExecQuery, WorkerGoes
    <2> QED BY <2>1, <2>2, DecideTypes DEF Decide, OthersUnchanged
  <1>27. ASSUME NEW w \in Workers, SubmitResult(w) PROVE TypeOK'
    <2>1. [request |-> job[w].request, succeeded |-> job[w].succeeded] \in Results
      BY <1>27 DEF SubmitResult, WorkerGoes, Results, Jobs, Control,
         ControlOf, Busy
    <2>2. resultQueue' \in [Workers -> Seq(Results)]
      BY <1>27, <2>1, AppendIsLast DEF SubmitResult
    <2>3. job' \in [Workers -> Jobs]
      BY <1>27, NoJobIsJob DEF SubmitResult
    <2> QED BY <1>27, <2>2, <2>3 DEF SubmitResult, WorkerGoes
  <1>28. ASSUME NEW w \in Workers, Begin(w) PROVE TypeOK'
    <2>1. \E open \in BOOLEAN : KeepConnection(w, open) \/ LoseConnection(w)
      BY <1>28 DEF Begin
    <2>3. /\ losses' \in 0..MaxLosses
          /\ connected' \in [Workers -> BOOLEAN]
          /\ inTransaction' \in [Workers -> BOOLEAN]
      BY <2>1, ConnectionTypes
    <2>2. pc' \in [Workers -> WorkerSteps]
      BY <1>28 DEF Begin, WorkerGoes
    <2> QED BY <1>28, <2>2, <2>3 DEF Begin, OthersUnchanged
  <1>29. ASSUME NEW w \in Workers, StatementSucceeds(w) PROVE TypeOK'
    <2>1. PICK n \in {job[w].size, job[w].size + 1} :
            /\ n <= MaxStatements
            /\ job' = [job EXCEPT ![w].position = @ + 1, ![w].size = n]
      BY <1>29 DEF StatementSucceeds
    <2>2. job[w] \in Jobs /\ job[w].position < job[w].size
      BY <1>29 DEF StatementSucceeds
    <2>3. n \in 0..MaxStatements /\ job[w].position + 1 \in 0..MaxStatements
      BY <2>1, <2>2, BoundsAssumption DEF Jobs
    <2>4. job' = [job EXCEPT ![w] = [job[w] EXCEPT !.position = @ + 1, !.size = n]]
      BY <2>1
    <2>5. job' \in [Workers -> Jobs]
      BY <2>2, <2>3, <2>4, JobFields
    <2> QED BY <1>29, <2>5 DEF StatementSucceeds, WorkerGoes, OthersUnchanged
  <1>30. ASSUME NEW w \in Workers, StatementFails(w) PROVE TypeOK'
    <2>1. \E open \in BOOLEAN : KeepConnection(w, open) \/ LoseConnection(w)
      BY <1>30 DEF StatementFails
    <2>3. /\ losses' \in 0..MaxLosses
          /\ connected' \in [Workers -> BOOLEAN]
          /\ inTransaction' \in [Workers -> BOOLEAN]
      BY <2>1, ConnectionTypes
    <2>2. pc' \in [Workers -> WorkerSteps]
      BY <1>30 DEF StatementFails, WorkerGoes
    <2> QED BY <1>30, <2>2, <2>3 DEF StatementFails, OthersUnchanged
  <1>31. ASSUME NEW w \in Workers, Rollback(w) PROVE TypeOK'
    <2>1. \E open \in BOOLEAN : KeepConnection(w, open) \/ LoseConnection(w)
      BY <1>31 DEF Rollback
    <2>3. /\ losses' \in 0..MaxLosses
          /\ connected' \in [Workers -> BOOLEAN]
          /\ inTransaction' \in [Workers -> BOOLEAN]
      BY <2>1, ConnectionTypes
    <2>2. pc' \in [Workers -> WorkerSteps]
      BY <1>31 DEF Rollback, WorkerGoes
    <2> QED BY <1>31, <2>2, <2>3 DEF Rollback, OthersUnchanged
  <1>32. ASSUME NEW w \in Workers, Commit(w) PROVE TypeOK'
    <2>1. Decide(w) /\ job[w].request \in Requests
      BY <1>32 DEF Commit, WorkerGoes, Control, ControlOf, Busy, Undecided
    <2>2. pc' \in [Workers -> WorkerSteps]
      BY <1>32 DEF Commit, WorkerGoes
    <2> QED BY <2>1, <2>2, DecideTypes DEF Decide, OthersUnchanged
  <1> QED
    BY <1>1, <1>2, <1>3, <1>4, <1>5, <1>6, <1>7, <1>8, <1>9, <1>10, <1>11,
       <1>12, <1>13, <1>14, <1>15, <1>16, <1>17, <1>18, <1>19, <1>20, <1>21,
       <1>22, <1>23, <1>24, <1>25, <1>26, <1>27, <1>28, <1>29, <1>30, <1>31, <1>32
       DEF Next, MainStep, WorkerStep

\* A worker's step leaves the other workers alone.
OthersStay(w) ==
  \A v \in Workers \ {w} :
    /\ pc'[v] = pc[v] /\ job'[v] = job[v]
    /\ connected'[v] = connected[v] /\ inTransaction'[v] = inTransaction[v]

\* A step keeps what the place of a worker says of it.
LEMMA StepControl ==
  ASSUME TypeOK, Control, [Next]_vars
  PROVE  Control'
  <1> USE DEF TypeOK
  <1>1. CASE UNCHANGED <<pc, job, connected, inTransaction>>
    BY <1>1 DEF Control, ControlOf
  <1>2. SUFFICES ASSUME NEW w \in Workers, WorkerStep(w), ~PrepareThrows(w)
                 PROVE  OthersStay(w) /\ ControlOf(w)'
    <2>1. CASE UNCHANGED vars
      BY <1>1, <2>1 DEF vars, workerVars, connectionVars
    <2>2. CASE MainStep
      BY <1>1, <2>2 DEF MainStep, Execute, HandleResult, workerVars,
         connectionVars, MainGoes, MainLoops, BeginWait, ResetIdle, FindIdle,
         FindBusy, Block, SpuriousWakeup, EndDrain, CheckResults, BeginShutdown,
         StopWorker, JoinWorker
    <2>3. ASSUME NEW w \in Workers, WorkerStep(w), ~PrepareThrows(w)
          PROVE  Control'
      BY <1>2, <2>3 DEF OthersStay, Control, ControlOf
    <2>4. ASSUME NEW w \in Workers, PrepareThrows(w)
          PROVE  Control'
      BY <2>4 DEF PrepareThrows, Control, ControlOf, Busy, Undecided, Online
    <2> QED BY <2>1, <2>2, <2>3, <2>4 DEF Next
  <1> ControlOf(w)
    BY DEF Control
  <1> USE DEF OthersStay, ControlOf, Busy, Undecided, Online, connectionVars
  <1>3. CASE Connect(w)
    BY <1>3 DEF Connect, WorkerGoes, OthersUnchanged
  <1>4. CASE ConnectFails(w)
    BY <1>4 DEF ConnectFails, WorkerGoes, OthersUnchanged
  <1>5. CASE Exit(w)
    BY <1>5 DEF Exit, WorkerGoes, OthersUnchanged
  <1>6. CASE LoopTop(w)
    BY <1>6 DEF LoopTop, WorkerGoes, OthersUnchanged
  <1>7. CASE DequeueTimeout(w)
    BY <1>7 DEF DequeueTimeout, WorkerGoes, OthersUnchanged
  <1>8. CASE SetIdle(w)
    BY <1>8 DEF SetIdle, WorkerGoes
  <1>9. CASE NotifyIdle(w)
    BY <1>9 DEF NotifyIdle, WorkerGoes
  <1>10. CASE Ping(w)
    BY <1>10 DEF Ping, WorkerGoes, OthersUnchanged, KeepConnection,
       LoseConnection
  <1>11. CASE Dequeue(w)
    <2>1. job'[w].request \in Requests
      BY <1>11, TailShifts DEF Dequeue, Jobs
    <2>2. ~job'[w].succeeded
      BY <1>11 DEF Dequeue, WorkerGoes, NoJob
    <2> QED BY <1>11, <2>1, <2>2 DEF Dequeue, WorkerGoes
  <1>12. CASE StartRequest(w)
    <2>1. job'[w].request = job[w].request /\ job'[w].succeeded = job[w].succeeded
      BY <1>12 DEF StartRequest, Jobs
    <2> QED BY <1>12, <2>1 DEF StartRequest, WorkerGoes
  <1>13. CASE ExecQuery(w)
    <2>1. job'[w].request = job[w].request
      BY <1>13 DEF ExecQuery, Decide, Jobs
    <2>2. ~inTransaction'[w]
      BY <1>13 DEF ExecQuery, Decide, KeepConnection, LoseConnection
    <2> QED
      BY <1>13, <2>1, <2>2 DEF ExecQuery, WorkerGoes, OthersUnchanged,
         KeepConnection, LoseConnection, Decide
  <1>14. CASE SubmitResult(w)
    BY <1>14, RequestsAssumption DEF SubmitResult, WorkerGoes, NoJob
  <1>15. CASE Begin(w)
    BY <1>15 DEF Begin, WorkerGoes, OthersUnchanged, KeepConnection,
       LoseConnection
  <1>16. CASE StatementSucceeds(w)
    BY <1>16 DEF StatementSucceeds, WorkerGoes, OthersUnchanged
  <1>17. CASE StatementFails(w)
    BY <1>17 DEF StatementFails, WorkerGoes, OthersUnchanged, KeepConnection,
       LoseConnection
  <1>18. CASE Rollback(w)
    BY <1>18 DEF Rollback, WorkerGoes, OthersUnchanged, KeepConnection,
       LoseConnection
  <1>19. CASE Commit(w)
    <2>1. job'[w].request = job[w].request
      BY <1>19 DEF Commit, Decide, Jobs
    <2>2. ~inTransaction'[w]
      BY <1>19 DEF Commit, Decide, KeepConnection, LoseConnection
    <2> QED
      BY <1>19, <2>1, <2>2 DEF Commit, WorkerGoes, OthersUnchanged,
         KeepConnection, LoseConnection, Decide
  <1> QED
    BY <1>2, <1>3, <1>4, <1>5, <1>6, <1>7, <1>8, <1>9, <1>10, <1>11, <1>12,
       <1>13, <1>14, <1>15, <1>16, <1>17, <1>18, <1>19 DEF WorkerStep

-----------------------------------------------------------------------------
(* The way of a request *)

\* A step on the way of no request: the queues, the database and the callers
\* stay, and a worker keeps its request and stays on its side of the statement
\* that decides, or leaves it for "submit" without one.
Quiet ==
  /\ UNCHANGED <<queueVars, databaseVars, callerVars>>
  /\ \A w \in Workers :
       /\ job'[w].request = job[w].request
       /\ job'[w].succeeded = job[w].succeeded
       /\ pc'[w] \in Undecided => pc[w] \in Undecided
       /\ pc'[w] = "submit" => pc[w] \in Busy

\* The statement that decides.
Deciding(w) == pc[w] \in {"query", "statement"} /\ WorkerGoes(w, pc[w], "submit") /\ Decide(w)

\* Only five kinds of step move a request or change what is said of it.
LEMMA StepKinds ==
  ASSUME TypeOK, Control, [Next]_vars
  PROVE  \/ \E r \in Requests : Execute(r)
         \/ \E w \in Workers :
              HandleResult(w) \/ Dequeue(w) \/ SubmitResult(w) \/ Deciding(w)
         \/ Quiet
  <1> USE DEF Quiet, Undecided, Busy, queueVars, databaseVars, callerVars
  <1>1. CASE UNCHANGED <<queueVars, databaseVars, callerVars, pc, job>>
    BY <1>1
  <1>2. CASE UNCHANGED vars
    BY <1>1, <1>2 DEF vars, workerVars
  <1>3. CASE MainStep
    BY <1>1, <1>3 DEF MainStep, MainGoes, MainLoops, BeginWait, ResetIdle,
       FindIdle,
       FindBusy, Block, SpuriousWakeup, EndDrain, CheckResults, BeginShutdown,
       StopWorker, JoinWorker
  <1>4. ASSUME NEW w \in Workers, WorkerStep(w),
               ~Dequeue(w), ~SubmitResult(w), ~Deciding(w)
        PROVE  Quiet
    <2>0. pc \in [Workers -> WorkerSteps] /\ job \in [Workers -> Jobs]
      BY DEF TypeOK
    <2> USE <2>0 DEF OthersUnchanged, WorkerGoes
    <2>1. CASE \/ Connect(w) \/ ConnectFails(w) \/ Exit(w) \/ LoopTop(w)
               \/ DequeueTimeout(w) \/ SetIdle(w) \/ NotifyIdle(w) \/ Ping(w)
      BY <2>1 DEF Connect, ConnectFails, Exit, LoopTop, DequeueTimeout, SetIdle,
         NotifyIdle, Ping
    <2>2. CASE PrepareThrows(w)
      BY <2>2 DEF PrepareThrows
    <2>3. CASE StartRequest(w)
      <3>1. \A v \in Workers : /\ job'[v].request = job[v].request
                               /\ job'[v].succeeded = job[v].succeeded
        BY <2>3 DEF StartRequest, Jobs
      <3> QED BY <2>3, <3>1 DEF StartRequest
    <2>4. CASE Begin(w) \/ StatementFails(w) \/ Rollback(w)
      BY <2>4 DEF Begin, StatementFails, Rollback
    <2>5. CASE StatementSucceeds(w)
      <3>1. \A v \in Workers : /\ job'[v].request = job[v].request
                               /\ job'[v].succeeded = job[v].succeeded
        BY <2>5 DEF StatementSucceeds, Jobs
      <3> QED BY <2>5, <3>1 DEF StatementSucceeds
    <2> QED BY <1>4, <2>1, <2>2, <2>3, <2>4, <2>5
        DEF WorkerStep, Deciding, ExecQuery, Commit
  <1> QED BY <1>2, <1>3, <1>4 DEF Next

\* The statement that decides leaves the requests with their workers.
LEMMA DecidingKeepsRequests ==
  ASSUME TypeOK, NEW w \in Workers, Deciding(w)
  PROVE  \A v \in Workers : job'[v].request = job[v].request
  <1>1. job' = job \/ job' = [job EXCEPT ![w].succeeded = TRUE]
    BY DEF Deciding, Decide
  <1>2. job \in [Workers -> Jobs]
    BY DEF TypeOK
  <1> QED BY <1>1, <1>2 DEF Jobs

\* A step keeps every request pending where it is, in one place, only once.
LEMMA StepPlacement ==
  ASSUME TypeOK, Control, Placement, Answers, [Next]_vars
  PROVE  Placement'
  <1> USE DEF Placement
  <1>0. /\ requestQueue \in Seq(Requests)
        /\ resultQueue \in [Workers -> Seq(Results)]
        /\ job \in [Workers -> Jobs]
        /\ pc \in [Workers -> WorkerSteps]
        /\ calls \in [Requests -> Nat]
    BY DEF TypeOK
  <1>1. ASSUME NEW r \in Requests, Execute(r) PROVE Placement'
    <2>1. /\ requestQueue' = Append(requestQueue, r) /\ submitted' = submitted \cup {r}
          /\ resultQueue' = resultQueue /\ job' = job /\ calls' = calls
          /\ r \notin submitted
      BY <1>1 DEF Execute, workerVars
    <2>2. calls[r] = 0
      BY <2>1 DEF Answers
    <2>3. /\ Len(requestQueue') = Len(requestQueue) + 1
          /\ \A i \in 1..Len(requestQueue) : requestQueue'[i] = requestQueue[i]
          /\ requestQueue'[Len(requestQueue) + 1] = r
          /\ Len(requestQueue) \in Nat
      BY <1>0, <2>1, AppendIsLast
    <2>4. \A i \in 1..Len(requestQueue') :
            i \in 1..Len(requestQueue) \/ i = Len(requestQueue) + 1
      BY <2>3
    <2>5. PlacedArePending'
      BY <2>1, <2>2, <2>3, <2>4 DEF PlacedArePending, Pending
    <2>6. PlacedOnce'
      BY <2>1, <2>3, <2>4 DEF PlacedOnce, PlacedArePending, Pending
    <2>7. PlacedApart'
      BY <2>1, <2>3, <2>4 DEF PlacedApart, PlacedArePending, Pending
    <2> QED BY <2>5, <2>6, <2>7
  <1>2. ASSUME NEW w \in Workers, HandleResult(w) PROVE Placement'
    <2> DEFINE result == Head(resultQueue[w])
    <2>1. /\ calls' = [calls EXCEPT ![result.request] = @ + 1]
          /\ resultQueue' = [resultQueue EXCEPT ![w] = Tail(@)]
          /\ requestQueue' = requestQueue /\ job' = job /\ submitted' = submitted
          /\ resultQueue[w] # <<>>
      BY <1>2 DEF HandleResult, workerVars
    <2>2. resultQueue[w] \in Seq(Results)
      BY <1>0
    <2>3. /\ 1 \in 1..Len(resultQueue[w]) /\ result = resultQueue[w][1]
          /\ \A i \in 1..Len(Tail(resultQueue[w])) :
               /\ i + 1 \in 1..Len(resultQueue[w]) /\ i # 0 /\ i \in Nat
               /\ Tail(resultQueue[w])[i] = resultQueue[w][i + 1]
      BY <2>1, <2>2, TailShifts
    <2>4. /\ resultQueue'[w] = Tail(resultQueue[w])
          /\ \A v \in Workers \ {w} : resultQueue'[v] = resultQueue[v]
      BY <1>0, <2>1
    <2>5. \A r \in Requests : r # result.request => calls'[r] = calls[r]
      BY <1>0, <2>1
    <2> DEFINE old(v, i) == IF v = w THEN i + 1 ELSE i
    <2>9. ASSUME NEW v \in Workers, NEW i \in 1..Len(resultQueue'[v])
          PROVE  /\ old(v, i) \in 1..Len(resultQueue[v]) /\ i \in Nat
                 /\ v = w => old(v, i) # 1
                 /\ resultQueue'[v][i] = resultQueue[v][old(v, i)]
      <3>1. CASE v = w
        <4>1. i \in 1..Len(Tail(resultQueue[w])) /\ resultQueue'[v][i] = Tail(resultQueue[w])[i]
          BY <2>4, <3>1
        <4> QED BY <2>3, <3>1, <4>1
      <3>2. CASE v # w
        BY <2>4, <3>2
      <3> QED BY <3>1, <3>2
    <2>6. PlacedOnce'
      <3>1. ASSUME NEW v \in Workers, NEW u \in Workers,
                   NEW i \in 1..Len(resultQueue'[v]), NEW j \in 1..Len(resultQueue'[u]),
                   resultQueue'[v][i].request = resultQueue'[u][j].request
            PROVE  v = u /\ i = j
        <4> DEFINE k == old(v, i)  l == old(u, j)
        <4>1. /\ k \in 1..Len(resultQueue[v]) /\ l \in 1..Len(resultQueue[u])
              /\ resultQueue[v][k].request = resultQueue[u][l].request
              /\ i \in Nat /\ j \in Nat
          <5>1. k \in 1..Len(resultQueue[v]) /\ i \in Nat
                /\ resultQueue'[v][i] = resultQueue[v][k]
            BY <2>9
          <5>2. l \in 1..Len(resultQueue[u]) /\ j \in Nat
                /\ resultQueue'[u][j] = resultQueue[u][l]
            BY <2>9
          <5> QED BY <3>1, <5>1, <5>2
        <4>2. v = u /\ k = l
          <5> HIDE DEF k, l
          <5> QED BY <4>1 DEF PlacedOnce
        <4> QED BY <4>1, <4>2
      <3> QED BY <2>1, <3>1 DEF PlacedOnce
    <2>7. PlacedApart'
      BY <2>1, <2>3, <2>4 DEF PlacedApart
    <2>8. PlacedArePending'
      <3>1. ASSUME NEW i \in 1..Len(requestQueue) PROVE Pending(requestQueue[i])'
        BY <1>0, <2>1, <2>3, <2>5 DEF PlacedArePending, PlacedApart, Pending
      <3>2. ASSUME NEW v \in Workers, job[v].request \in Requests
            PROVE  Pending(job[v].request)'
        BY <3>2, <2>1, <2>3, <2>5 DEF PlacedArePending, PlacedApart, Pending
      <3>3. ASSUME NEW v \in Workers, NEW i \in 1..Len(resultQueue'[v])
            PROVE  Pending(resultQueue[v][i].request)'
        <4>1. PICK k \in 1..Len(resultQueue[v]) :
                resultQueue'[v][i] = resultQueue[v][k] /\ (v = w => k # 1)
          <5>1. old(v, i) \in 1..Len(resultQueue[v])
            BY <2>9
          <5> QED BY <2>9, <5>1
        <4>2. resultQueue[v][k].request # result.request
          BY <2>3, <4>1 DEF PlacedOnce
        <4>3. resultQueue[v][k] \in Results
          BY <1>0
        <4> QED
          BY <2>1, <2>5, <4>1, <4>2, <4>3 DEF PlacedArePending, Pending,
             Results
      <3> QED BY <2>1, <3>1, <3>2, <3>3 DEF PlacedArePending
    <2> QED BY <2>6, <2>7, <2>8
  <1>3. ASSUME NEW w \in Workers, Dequeue(w) PROVE Placement'
    <2> DEFINE r == Head(requestQueue)
    <2>1. /\ requestQueue' = Tail(requestQueue) /\ requestQueue # <<>>
          /\ resultQueue' = resultQueue /\ submitted' = submitted /\ calls' = calls
      BY <1>3 DEF Dequeue, callerVars
    <2>2. /\ job'[w].request = r
          /\ \A v \in Workers \ {w} : job'[v] = job[v]
      BY <1>0, <1>3 DEF Dequeue, Jobs
    <2>3. /\ 1 \in 1..Len(requestQueue) /\ r = requestQueue[1]
          /\ \A i \in 1..Len(requestQueue') :
               /\ i + 1 \in 1..Len(requestQueue) /\ i + 1 # 1
               /\ requestQueue'[i] = requestQueue[i + 1]
      BY <1>0, <2>1, TailShifts
    <2>4. PlacedArePending'
      BY <2>1, <2>2, <2>3 DEF PlacedArePending, Pending
    <2>5. PlacedOnce'
      <3>1. \A i, j \in 1..Len(requestQueue') :
              requestQueue'[i] = requestQueue'[j] => i = j
        BY <2>3 DEF PlacedOnce
      <3>2. \A v, u \in Workers :
              job'[v].request \in Requests /\ job'[v].request = job'[u].request => v = u
        BY <2>2, <2>3 DEF PlacedOnce, PlacedApart
      <3> QED BY <2>1, <3>1, <3>2 DEF PlacedOnce
    <2>6. PlacedApart'
      <3>1. \A i \in 1..Len(requestQueue'), v \in Workers :
              requestQueue'[i] # job'[v].request
        BY <2>2, <2>3 DEF PlacedOnce, PlacedApart
      <3> QED BY <2>1, <2>2, <2>3, <3>1 DEF PlacedApart
    <2> QED BY <2>4, <2>5, <2>6
  <1>4. ASSUME NEW w \in Workers, SubmitResult(w) PROVE Placement'
    <2> DEFINE result == [request |-> job[w].request, succeeded |-> job[w].succeeded]
    <2>1. /\ resultQueue' = [resultQueue EXCEPT ![w] = Append(@, result)]
          /\ requestQueue' = requestQueue /\ submitted' = submitted /\ calls' = calls
          /\ job' = [job EXCEPT ![w] = NoJob]
          /\ job[w].request \in Requests
      BY <1>4 DEF SubmitResult, callerVars, WorkerGoes, Control, ControlOf, Busy
    <2>2. /\ job'[w].request = NoRequest /\ NoRequest \notin Requests
          /\ \A v \in Workers \ {w} : job'[v] = job[v]
      BY <1>0, <2>1, RequestsAssumption DEF NoJob
    <2>3. resultQueue[w] \in Seq(Results) /\ result \in Results
      BY <1>0, <2>1 DEF Results, Jobs
    <2>4. /\ \A v \in Workers \ {w} : resultQueue'[v] = resultQueue[v]
          /\ resultQueue'[w] = Append(resultQueue[w], result)
      BY <1>0, <2>1
    <2>5. \A v \in Workers : \A i \in 1..Len(resultQueue'[v]) :
            \/ i \in 1..Len(resultQueue[v]) /\ resultQueue'[v][i] = resultQueue[v][i]
            \/ v = w /\ i = Len(resultQueue[w]) + 1 /\ resultQueue'[v][i].request = job[w].request
      <3>1. /\ Len(Append(resultQueue[w], result)) = Len(resultQueue[w]) + 1
            /\ \A i \in 1..Len(resultQueue[w]) :
                 Append(resultQueue[w], result)[i] = resultQueue[w][i]
            /\ Append(resultQueue[w], result)[Len(resultQueue[w]) + 1] = result
            /\ Len(resultQueue[w]) \in Nat
        BY <2>3, AppendIsLast
      <3> QED BY <2>4, <3>1
    <2>6. PlacedArePending'
      BY <2>1, <2>2, <2>5 DEF PlacedArePending, Pending
    <2>7. PlacedOnce'
      <3>1. \A v, u \in Workers :
              job'[v].request \in Requests /\ job'[v].request = job'[u].request => v = u
        BY <2>2 DEF PlacedOnce
      <3>2. ASSUME NEW v \in Workers, NEW u \in Workers,
                   NEW i \in 1..Len(resultQueue'[v]), NEW j \in 1..Len(resultQueue'[u]),
                   resultQueue'[v][i].request = resultQueue'[u][j].request
            PROVE  v = u /\ i = j
        <4>1. CASE i \in 1..Len(resultQueue[v]) /\ resultQueue'[v][i] = resultQueue[v][i]
          <5>1. CASE j \in 1..Len(resultQueue[u]) /\ resultQueue'[u][j] = resultQueue[u][j]
            BY <3>2, <4>1, <5>1 DEF PlacedOnce
          <5>2. CASE resultQueue'[u][j].request = job[w].request
            BY <3>2, <4>1, <5>2 DEF PlacedApart
          <5> QED BY <2>5, <5>1, <5>2
        <4>2. CASE ~(i \in 1..Len(resultQueue[v]) /\ resultQueue'[v][i] = resultQueue[v][i])
          <5>1. /\ v = w /\ i = Len(resultQueue[w]) + 1
                /\ resultQueue'[v][i].request = job[w].request
            BY <2>5, <4>2
          <5> QED BY <2>5, <3>2, <5>1 DEF PlacedApart
        <4> QED BY <4>1, <4>2
      <3> QED BY <2>1, <3>1, <3>2 DEF PlacedOnce
    <2>8. PlacedApart'
      <3>1. \A i \in 1..Len(requestQueue), v \in Workers :
              requestQueue[i] # job'[v].request
        <4>1. \A i \in 1..Len(requestQueue) : requestQueue[i] \in Requests
          BY <1>0
        <4> QED BY <2>2, <4>1 DEF PlacedApart
      <3>2. ASSUME NEW i \in 1..Len(requestQueue), NEW v \in Workers,
                   NEW j \in 1..Len(resultQueue'[v])
            PROVE  requestQueue[i] # resultQueue'[v][j].request
        <4>1. CASE j \in 1..Len(resultQueue[v]) /\ resultQueue'[v][j] = resultQueue[v][j]
          BY <4>1 DEF PlacedApart
        <4>2. CASE resultQueue'[v][j].request = job[w].request
          BY <4>2 DEF PlacedApart
        <4> QED BY <2>5, <4>1, <4>2
      <3>3. \A v, u \in Workers : \A j \in 1..Len(resultQueue'[u]) :
              job'[v].request # resultQueue'[u][j].request
        <4>1. \A u \in Workers : \A j \in 1..Len(resultQueue'[u]) :
                job'[w].request # resultQueue'[u][j].request
          <5>1. \A u \in Workers : \A j \in 1..Len(resultQueue[u]) :
                  resultQueue[u][j].request \in Requests
            <6>1. \A u \in Workers : \A j \in 1..Len(resultQueue[u]) :
                    resultQueue[u][j] \in Results
              BY <1>0
            <6> QED BY <6>1 DEF Results
          <5>2. ASSUME NEW u \in Workers, NEW j \in 1..Len(resultQueue'[u])
                PROVE  resultQueue'[u][j].request \in Requests
            <6>1. CASE j \in 1..Len(resultQueue[u]) /\ resultQueue'[u][j] = resultQueue[u][j]
              BY <5>1, <6>1
            <6>2. CASE resultQueue'[u][j].request = job[w].request
              BY <2>1, <6>2
            <6> QED BY <2>5, <6>1, <6>2
          <5> QED BY <2>2, <5>2
        <4>2. \A v \in Workers \ {w}, u \in Workers : \A j \in 1..Len(resultQueue'[u]) :
                job'[v].request # resultQueue'[u][j].request
          BY <2>1, <2>2, <2>5 DEF PlacedOnce, PlacedApart
        <4> QED BY <4>1, <4>2
      <3> QED BY <2>1, <3>1, <3>2, <3>3 DEF PlacedApart
    <2> QED BY <2>6, <2>7, <2>8
  <1>5. ASSUME UNCHANGED <<queueVars, submitted, calls>>,
               \A w \in Workers : job'[w].request = job[w].request
        PROVE  Placement'
    BY <1>5 DEF queueVars, PlacedArePending, PlacedOnce, PlacedApart, Pending
  <1>6. CASE Quiet
    BY <1>5, <1>6 DEF Quiet, callerVars
  <1>7. ASSUME NEW w \in Workers, Deciding(w) PROVE Placement'
    <2>1. \A v \in Workers : job'[v].request = job[v].request
      BY <1>7, DecidingKeepsRequests
    <2> QED
      BY <1>5, <1>7, <2>1 DEF Deciding, Decide, OthersUnchanged, callerVars
  <1> QED BY StepKinds, <1>1, <1>2, <1>3, <1>4, <1>6, <1>7

\* A step keeps the effects of the requests in agreement with their places and
\* with what is said of them.
LEMMA StepEffects ==
  ASSUME TypeOK, Control, Placement, Effects, Answers, [Next]_vars
  PROVE  Effects' /\ Answers'
  <1>0. /\ requestQueue \in Seq(Requests)
        /\ resultQueue \in [Workers -> Seq(Results)]
        /\ job \in [Workers -> Jobs]
        /\ pc \in [Workers -> WorkerSteps]
        /\ calls \in [Requests -> Nat]
        /\ answer \in [Requests -> {"none", "ok", "failed"}]
    BY DEF TypeOK
  <1>1. ASSUME NEW r \in Requests, Execute(r) PROVE Effects' /\ Answers'
    <2>1. /\ requestQueue' = Append(requestQueue, r) /\ submitted' = submitted \cup {r}
          /\ UNCHANGED <<resultQueue, job, pc, applied, cut, calls, answer>>
          /\ r \notin submitted
      BY <1>1 DEF Execute, workerVars, databaseVars
    <2>2. \A i \in 1..Len(requestQueue') :
            \/ i \in 1..Len(requestQueue) /\ requestQueue'[i] = requestQueue[i]
            \/ requestQueue'[i] = r
      BY <1>0, <2>1, AppendIsLast
    <2>3. Untouched(r)
      BY <2>1 DEF Effects, Untouched, UntouchedIn
    <2>4. Effects'
      BY <2>1, <2>2, <2>3 DEF Effects, Untouched, UntouchedIn, Honest, HonestIn
    <2>5. Answers'
      BY <2>1 DEF Answers, Honest, HonestIn
    <2> QED BY <2>4, <2>5
  <1>2. ASSUME NEW w \in Workers, HandleResult(w) PROVE Effects' /\ Answers'
    <2> DEFINE result == Head(resultQueue[w])
    <2>1. /\ calls' = [calls EXCEPT ![result.request] = @ + 1]
          /\ answer' = [answer EXCEPT ![result.request] =
                          IF result.succeeded THEN "ok" ELSE "failed"]
          /\ resultQueue' = [resultQueue EXCEPT ![w] = Tail(@)]
          /\ UNCHANGED <<requestQueue, job, pc, submitted, applied, cut>>
          /\ resultQueue[w] # <<>>
      BY <1>2 DEF HandleResult, workerVars, databaseVars
    <2>2. resultQueue[w] \in Seq(Results)
      BY <1>0
    <2>3. /\ 1 \in 1..Len(resultQueue[w]) /\ result = resultQueue[w][1]
          /\ result \in Results
          /\ \A i \in 1..Len(Tail(resultQueue[w])) :
               /\ i + 1 \in 1..Len(resultQueue[w])
               /\ Tail(resultQueue[w])[i] = resultQueue[w][i + 1]
      BY <2>1, <2>2, TailShifts
    <2>4. /\ resultQueue'[w] = Tail(resultQueue[w])
          /\ \A v \in Workers \ {w} : resultQueue'[v] = resultQueue[v]
      BY <1>0, <2>1
    <2>5. Effects'
      <3>1. ASSUME NEW v \in Workers, NEW i \in 1..Len(resultQueue'[v])
            PROVE  \E k \in 1..Len(resultQueue[v]) : resultQueue'[v][i] = resultQueue[v][k]
        <4>1. CASE v = w
          <5>1. i \in 1..Len(Tail(resultQueue[w])) /\ resultQueue'[v][i] = Tail(resultQueue[w])[i]
            BY <2>4, <4>1
          <5> QED BY <2>3, <4>1, <5>1
        <4>2. CASE v # w
          BY <2>4, <4>2
        <4> QED BY <4>1, <4>2
      <3> QED
        BY <2>1, <3>1 DEF Effects, Untouched, UntouchedIn, Honest, HonestIn
    <2>6. /\ result.request \in Requests /\ result.succeeded \in BOOLEAN
          /\ result.request \in submitted /\ calls[result.request] = 0
          /\ Honest(result.request, result.succeeded)
      BY <2>3 DEF Results, Placement, PlacedArePending, Pending, Effects
    <2>7. Answers'
      <3> SUFFICES ASSUME NEW r \in Requests
                   PROVE  /\ calls'[r] \in {0, 1}
                          /\ r \notin submitted' => calls'[r] = 0
                          /\ answer'[r] = "none" <=> calls'[r] = 0
                          /\ answer'[r] # "none" =>
                               HonestIn(r, answer'[r] = "ok", applied', cut')
        BY DEF Answers, Honest
      <3>1. CASE r = result.request
        <4>1. calls'[r] = 1
          BY <1>0, <2>1, <2>6, <3>1
        <4>2. answer'[r] = IF result.succeeded THEN "ok" ELSE "failed"
          BY <1>0, <2>1, <2>6, <3>1
        <4> QED BY <2>1, <2>6, <3>1, <4>1, <4>2 DEF Honest, HonestIn
      <3>2. CASE r # result.request
        <4>1. calls'[r] = calls[r] /\ answer'[r] = answer[r]
          BY <1>0, <2>1, <3>2
        <4> QED BY <2>1, <4>1 DEF Answers, Honest, HonestIn
      <3> QED BY <3>1, <3>2
    <2> QED BY <2>5, <2>7
  <1>3. ASSUME NEW w \in Workers, Dequeue(w) PROVE Effects' /\ Answers'
    <2> DEFINE r == Head(requestQueue)
    <2>1. /\ requestQueue' = Tail(requestQueue) /\ requestQueue # <<>>
          /\ UNCHANGED <<resultQueue, submitted, calls, answer, applied, cut>>
      BY <1>3 DEF Dequeue, callerVars, databaseVars
    <2>2. /\ job'[w].request = r /\ pc'[w] = "taken"
          /\ \A v \in Workers \ {w} : job'[v] = job[v] /\ pc'[v] = pc[v]
      BY <1>0, <1>3 DEF Dequeue, Jobs, WorkerGoes
    <2>3. /\ 1 \in 1..Len(requestQueue) /\ r = requestQueue[1]
          /\ \A i \in 1..Len(requestQueue') :
               i + 1 \in 1..Len(requestQueue) /\ requestQueue'[i] = requestQueue[i + 1]
      BY <1>0, <2>1, TailShifts
    <2>4. Effects'
      BY <2>1, <2>2, <2>3 DEF Effects, Untouched, UntouchedIn, Honest, HonestIn
    <2>5. Answers'
      BY <2>1 DEF Answers, Honest, HonestIn
    <2> QED BY <2>4, <2>5
  <1>4. ASSUME NEW w \in Workers, SubmitResult(w) PROVE Effects' /\ Answers'
    <2> DEFINE result == [request |-> job[w].request, succeeded |-> job[w].succeeded]
    <2>1. /\ resultQueue' = [resultQueue EXCEPT ![w] = Append(@, result)]
          /\ UNCHANGED <<requestQueue, submitted, calls, answer, applied, cut>>
          /\ job' = [job EXCEPT ![w] = NoJob]
          /\ job[w].request \in Requests /\ pc[w] = "submit"
      BY <1>4 DEF SubmitResult, callerVars, databaseVars, WorkerGoes,
         Control, ControlOf, Busy
    <2>2. /\ pc'[w] = "loop"
          /\ \A v \in Workers \ {w} : job'[v] = job[v] /\ pc'[v] = pc[v]
      BY <1>0, <1>4 DEF SubmitResult, WorkerGoes
    <2>3. resultQueue[w] \in Seq(Results) /\ result \in Results
      BY <1>0, <2>1 DEF Results, Jobs
    <2>4. /\ \A v \in Workers \ {w} : resultQueue'[v] = resultQueue[v]
          /\ resultQueue'[w] = Append(resultQueue[w], result)
      BY <1>0, <2>1
    <2>5. \A v \in Workers : \A i \in 1..Len(resultQueue'[v]) :
            \/ i \in 1..Len(resultQueue[v]) /\ resultQueue'[v][i] = resultQueue[v][i]
            \/ resultQueue'[v][i] = result
      <3>1. \A i \in 1..Len(Append(resultQueue[w], result)) :
              \/ i \in 1..Len(resultQueue[w])
                 /\ Append(resultQueue[w], result)[i] = resultQueue[w][i]
              \/ Append(resultQueue[w], result)[i] = result
        BY <2>3, AppendIsLast
      <3> QED BY <2>4, <3>1
    <2>6. Honest(result.request, result.succeeded)
      BY <2>1 DEF Effects
    <2>7. Effects'
      BY <2>1, <2>2, <2>5, <2>6 DEF Effects, Untouched, UntouchedIn, Honest,
         HonestIn, Undecided
    <2>8. Answers'
      BY <2>1 DEF Answers, Honest, HonestIn
    <2> QED BY <2>7, <2>8
  <1>5. CASE Quiet
    <2>1. /\ UNCHANGED <<requestQueue, resultQueue, submitted, calls, answer, applied, cut>>
          /\ \A w \in Workers :
               /\ job'[w].request = job[w].request
               /\ job'[w].succeeded = job[w].succeeded
               /\ pc'[w] \in Undecided => pc[w] \in Undecided
               /\ pc'[w] = "submit" => pc[w] \in Busy
      BY <1>5 DEF Quiet, queueVars, callerVars, databaseVars
    <2>2. Effects'
      BY <2>1 DEF Effects, Untouched, UntouchedIn, Honest, HonestIn, Control,
         ControlOf, Busy
    <2> QED BY <2>1, <2>2 DEF Answers, Honest, HonestIn
  <1>6. ASSUME NEW w \in Workers, Deciding(w) PROVE Effects' /\ Answers'
    <2> DEFINE r == job[w].request
    <2>1. /\ UNCHANGED <<requestQueue, resultQueue, submitted, calls, answer>>
          /\ pc' = [pc EXCEPT ![w] = "submit"]
          /\ pc[w] \in Undecided
      BY <1>6 DEF Deciding, Decide, OthersUnchanged, queueVars, callerVars,
         WorkerGoes, Undecided
    <2>2. r \in Requests /\ ~job[w].succeeded /\ Untouched(r) /\ Pending(r)
      BY <2>1 DEF Control, ControlOf, Effects, Placement, PlacedArePending, Busy
    <2>3. /\ applied' \in {applied, applied \cup {r}}
          /\ cut' \in {cut, cut \cup {r}}
      BY <1>6 DEF Deciding, Decide
    <2>4. /\ job'[w].request = r /\ HonestIn(r, job'[w].succeeded, applied', cut')
          /\ \A v \in Workers \ {w} : job'[v] = job[v] /\ pc'[v] = pc[v]
      <3>1. \/ /\ applied' = applied \cup {r} /\ cut' = cut
               /\ job' = [job EXCEPT ![w].succeeded = TRUE]
            \/ applied' = applied /\ cut' = cut /\ job' = job
            \/ cut' = cut \cup {r} /\ job' = job
        BY <1>6 DEF Deciding, Decide
      <3>2. job'[w].request = r /\ \A v \in Workers \ {w} : job'[v] = job[v]
        BY <1>0, <3>1 DEF Jobs
      <3>3. HonestIn(r, job'[w].succeeded, applied', cut')
        BY <1>0, <2>2, <3>1 DEF Jobs, HonestIn, Untouched, UntouchedIn
      <3> QED BY <1>0, <2>1, <3>2, <3>3
    <2>5. \A s : s # r =>
            /\ Untouched(s) => UntouchedIn(s, applied', cut')
            /\ \A b \in BOOLEAN : Honest(s, b) => HonestIn(s, b, applied', cut')
      BY <2>3 DEF Untouched, UntouchedIn, Honest, HonestIn
    <2>6. Effects'
      <3>1. \A i \in 1..Len(requestQueue') : UntouchedIn(requestQueue'[i], applied', cut')
        BY <2>1, <2>5 DEF Effects, Placement, PlacedApart
      <3>2. ASSUME NEW v \in Workers
            PROVE  /\ pc'[v] \in Undecided => UntouchedIn(job'[v].request, applied', cut')
                   /\ pc'[v] = "submit" =>
                        HonestIn(job'[v].request, job'[v].succeeded, applied', cut')
        <4>1. CASE v = w
          BY <1>0, <2>1, <2>4, <4>1 DEF Undecided
        <4>2. CASE v # w /\ pc[v] \in Busy
          <5>1. job[v].request # r /\ job[v].succeeded \in BOOLEAN
            BY <1>0, <2>2, <4>2 DEF Placement, PlacedOnce, Jobs
          <5> QED BY <2>4, <2>5, <4>2, <5>1 DEF Effects
        <4>3. CASE v # w /\ pc[v] \notin Busy
          BY <2>4, <4>3 DEF Busy
        <4> QED BY <4>1, <4>2, <4>3
      <3>3. ASSUME NEW v \in Workers, NEW i \in 1..Len(resultQueue'[v])
            PROVE  HonestIn(resultQueue'[v][i].request, resultQueue'[v][i].succeeded,
                            applied', cut')
        <4>1. resultQueue[v][i] \in Results /\ i \in 1..Len(resultQueue[v])
          BY <1>0, <2>1
        <4>2. resultQueue[v][i].request # r
          BY <4>1 DEF Placement, PlacedApart
        <4> QED BY <2>1, <2>5, <4>1, <4>2 DEF Effects, Results
      <3>4. (applied \cup cut)' \subseteq submitted'
        BY <2>1, <2>2, <2>3 DEF Effects, Pending
      <3> QED BY <3>1, <3>2, <3>3, <3>4 DEF Effects, Untouched, Honest
    <2>7. Answers'
      <3>1. \A s \in Requests : answer[s] # "none" => s # r
        BY <2>2 DEF Answers, Pending
      <3> QED BY <2>1, <2>5, <3>1 DEF Answers, Honest
    <2> QED BY <2>6, <2>7
  <1> QED BY StepKinds, <1>1, <1>2, <1>3, <1>4, <1>5, <1>6

\* A step loses no pending request.
LEMMA StepNothingLost ==
  ASSUME TypeOK, Control, Answers, NothingLost, [Next]_vars
  PROVE  NothingLost'
  <1>0. /\ requestQueue \in Seq(Requests)
        /\ resultQueue \in [Workers -> Seq(Results)]
        /\ job \in [Workers -> Jobs]
        /\ calls \in [Requests -> Nat]
        /\ submitted \subseteq Requests
    BY DEF TypeOK
  <1>1. SUFFICES ASSUME NEW r \in submitted', calls'[r] = 0
                 PROVE  Queued(r)' \/ Held(r)' \/ Finished(r)'
    BY DEF NothingLost
  <1>2. ASSUME UNCHANGED <<submitted, calls>>
        PROVE  Queued(r) \/ Held(r) \/ Finished(r)
    BY <1>1, <1>2 DEF NothingLost
  <1>3. ASSUME NEW s \in Requests, Execute(s)
        PROVE  Queued(r)' \/ Held(r)' \/ Finished(r)'
    <2>1. /\ requestQueue' = Append(requestQueue, s) /\ submitted' = submitted \cup {s}
          /\ UNCHANGED <<resultQueue, job, calls>>
      BY <1>3 DEF Execute, workerVars
    <2>2. /\ Len(requestQueue') = Len(requestQueue) + 1
          /\ \A i \in 1..Len(requestQueue) :
               i \in 1..Len(requestQueue') /\ requestQueue'[i] = requestQueue[i]
          /\ requestQueue'[Len(requestQueue) + 1] = s
          /\ Len(requestQueue) + 1 \in 1..Len(requestQueue')
      BY <1>0, <2>1, AppendIsLast
    <2>3. CASE r = s
      BY <2>2, <2>3 DEF Queued
    <2>4. CASE r # s
      <3>1. Queued(r) \/ Held(r) \/ Finished(r)
        BY <1>1, <2>1, <2>4 DEF NothingLost
      <3> QED BY <2>1, <2>2, <3>1 DEF Queued, Held, Finished
    <2> QED BY <2>3, <2>4
  <1>4. ASSUME NEW w \in Workers, HandleResult(w)
        PROVE  Queued(r)' \/ Held(r)' \/ Finished(r)'
    <2> DEFINE result == Head(resultQueue[w])
    <2>1. /\ calls' = [calls EXCEPT ![result.request] = @ + 1]
          /\ resultQueue' = [resultQueue EXCEPT ![w] = Tail(@)]
          /\ UNCHANGED <<requestQueue, job, submitted>>
          /\ resultQueue[w] # <<>>
      BY <1>4 DEF HandleResult, workerVars
    <2>2. resultQueue[w] \in Seq(Results)
      BY <1>0
    <2>3. /\ result = resultQueue[w][1]
          /\ \A i \in 1..Len(resultQueue[w]) : i # 1 =>
               /\ i - 1 \in 1..Len(Tail(resultQueue[w]))
               /\ Tail(resultQueue[w])[i - 1] = resultQueue[w][i]
      BY <2>1, <2>2
    <2>4. r # result.request /\ calls[r] = 0
      BY <1>0, <1>1, <2>1
    <2>5. CASE Queued(r) \/ Held(r)
      BY <2>1, <2>5 DEF Queued, Held
    <2>6. CASE Finished(r)
      <3>0. PICK v \in Workers :
              \E i \in 1..Len(resultQueue[v]) : resultQueue[v][i].request = r
        BY <2>6 DEF Finished
      <3>1. PICK i \in 1..Len(resultQueue[v]) : resultQueue[v][i].request = r
        BY <3>0
      <3>2. CASE v = w
        <4>1. /\ i - 1 \in 1..Len(resultQueue'[w])
              /\ resultQueue'[w][i - 1].request = r
          BY <1>0, <2>1, <2>3, <2>4, <3>1, <3>2
        <4> QED BY <4>1 DEF Finished
      <3>3. CASE v # w
        BY <1>0, <2>1, <3>1, <3>3 DEF Finished
      <3> QED BY <3>2, <3>3
    <2> QED BY <1>1, <2>1, <2>4, <2>5, <2>6 DEF NothingLost
  <1>5. ASSUME NEW w \in Workers, Dequeue(w)
        PROVE  Queued(r)' \/ Held(r)' \/ Finished(r)'
    <2>1. /\ requestQueue' = Tail(requestQueue) /\ requestQueue # <<>>
          /\ UNCHANGED <<resultQueue, submitted, calls>>
          /\ job[w].request = NoRequest /\ NoRequest \notin Requests
      BY <1>5, RequestsAssumption
      DEF Dequeue, callerVars, WorkerGoes, Control, ControlOf, Busy, Undecided, NoJob
    <2>2. /\ job'[w].request = Head(requestQueue)
          /\ \A v \in Workers \ {w} : job'[v] = job[v]
      BY <1>0, <1>5 DEF Dequeue, Jobs
    <2>3. /\ Head(requestQueue) = requestQueue[1]
          /\ \A i \in 1..Len(requestQueue) : i # 1 =>
               /\ i - 1 \in 1..Len(requestQueue')
               /\ requestQueue'[i - 1] = requestQueue[i]
      BY <1>0, <2>1
    <2>4. CASE Queued(r)
      <3>1. PICK i \in 1..Len(requestQueue) : requestQueue[i] = r
        BY <2>4 DEF Queued
      <3>2. CASE i = 1
        BY <2>2, <2>3, <3>1, <3>2 DEF Held
      <3>3. CASE i # 1
        BY <2>3, <3>1, <3>3 DEF Queued
      <3> QED BY <3>2, <3>3
    <2>5. CASE Held(r)
      <3>1. r \in Requests
        BY <1>0, <2>1
      <3> QED BY <2>1, <2>2, <2>5, <3>1 DEF Held
    <2>6. CASE Finished(r)
      BY <2>1, <2>6 DEF Finished
    <2> QED BY <1>2, <2>1, <2>4, <2>5, <2>6
  <1>6. ASSUME NEW w \in Workers, SubmitResult(w)
        PROVE  Queued(r)' \/ Held(r)' \/ Finished(r)'
    <2> DEFINE result == [request |-> job[w].request, succeeded |-> job[w].succeeded]
    <2>1. /\ resultQueue' = [resultQueue EXCEPT ![w] = Append(@, result)]
          /\ UNCHANGED <<requestQueue, submitted, calls>>
          /\ job' = [job EXCEPT ![w] = NoJob]
          /\ job[w].request \in Requests
      BY <1>6 DEF SubmitResult, callerVars, WorkerGoes, Control, ControlOf, Busy
    <2>2. resultQueue[w] \in Seq(Results) /\ result \in Results
      BY <1>0, <2>1 DEF Results, Jobs
    <2>3. /\ \A i \in 1..Len(resultQueue[w]) :
               /\ i \in 1..Len(resultQueue'[w])
               /\ resultQueue'[w][i] = resultQueue[w][i]
          /\ Len(resultQueue[w]) + 1 \in 1..Len(resultQueue'[w])
          /\ resultQueue'[w][Len(resultQueue[w]) + 1] = result
      <3>1. resultQueue'[w] = Append(resultQueue[w], result)
        BY <1>0, <2>1
      <3> QED BY <2>2, <3>1, AppendIsLast
    <2>4. \A v \in Workers \ {w} : resultQueue'[v] = resultQueue[v] /\ job'[v] = job[v]
      BY <1>0, <2>1
    <2>5. CASE Queued(r)
      BY <2>1, <2>5 DEF Queued
    <2>6. CASE Held(r)
      BY <2>3, <2>4, <2>6 DEF Held, Finished
    <2>7. CASE Finished(r)
      <3>0. PICK v \in Workers :
              \E i \in 1..Len(resultQueue[v]) : resultQueue[v][i].request = r
        BY <2>7 DEF Finished
      <3>1. PICK i \in 1..Len(resultQueue[v]) : resultQueue[v][i].request = r
        BY <3>0
      <3>2. i \in 1..Len(resultQueue'[v]) /\ resultQueue'[v][i] = resultQueue[v][i]
        BY <2>3, <2>4
      <3> QED BY <3>1, <3>2 DEF Finished
    <2> QED BY <1>2, <2>1, <2>5, <2>6, <2>7
  <1>7. ASSUME UNCHANGED <<requestQueue, resultQueue, submitted, calls>>,
               \A w \in Workers : job'[w].request = job[w].request
        PROVE  Queued(r)' \/ Held(r)' \/ Finished(r)'
    BY <1>2, <1>7 DEF Queued, Held, Finished
  <1>8. CASE Quiet
    BY <1>7, <1>8 DEF Quiet, queueVars, callerVars
  <1>9. ASSUME NEW w \in Workers, Deciding(w)
        PROVE  Queued(r)' \/ Held(r)' \/ Finished(r)'
    <2>1. \A v \in Workers : job'[v].request = job[v].request
      BY <1>9, DecidingKeepsRequests
    <2> QED
      BY <1>7, <1>9, <2>1 DEF Deciding, Decide, OthersUnchanged, queueVars,
         callerVars
  <1> QED BY StepKinds, <1>3, <1>4, <1>5, <1>6, <1>8, <1>9

-----------------------------------------------------------------------------
(* The theorems *)

\* The program starts in the inductive invariant.
LEMMA InitInvariant == Init => IInv
  <1> SUFFICES ASSUME Init PROVE IInv
    OBVIOUS
  <1>1. /\ requestQueue = <<>> /\ submitted = {} /\ applied = {} /\ cut = {}
        /\ resultQueue = [w \in Workers |-> <<>>]
        /\ job = [w \in Workers |-> NoJob]
        /\ pc = [w \in Workers |-> "connect"]
        /\ calls = [r \in Requests |-> 0]
        /\ answer = [r \in Requests |-> "none"]
        /\ NoRequest \notin Requests
    BY RequestsAssumption DEF Init
  <1>2. Placement
    BY <1>1 DEF Placement, PlacedArePending, PlacedOnce, PlacedApart, NoJob
  <1>3. Effects
    BY <1>1 DEF Effects, Undecided
  <1>4. Answers /\ NothingLost
    BY <1>1 DEF Answers, NothingLost
  <1> QED BY InitTypes, <1>2, <1>3, <1>4 DEF IInv

\* Every step of every thread keeps the inductive invariant.
LEMMA StepInvariant == IInv /\ [Next]_vars => IInv'
  BY StepTypes, StepControl, StepPlacement, StepEffects, StepNothingLost DEF
     IInv

\* The inductive invariant holds in every reachable state.
THEOREM Invariant == Spec => []IInv
  BY InitInvariant, StepInvariant, PTL DEF Spec

\* Every variable of the pool keeps its type, for any number of workers.
THEOREM TypeCorrect == Spec => []TypeOK
  <1>1. IInv => TypeOK
    BY DEF IInv
  <1> QED BY Invariant, <1>1, PTL

\* No callback runs twice or without a request.
THEOREM AtMostOneAnswer == Spec => []AnsweredAtMostOnce
  <1>1. IInv => AnsweredAtMostOnce
    BY DEF IInv, Answers, AnsweredAtMostOnce
  <1> QED BY Invariant, <1>1, PTL

\* No submitted request disappears before its callback ran.
THEOREM NoRequestLost == Spec => []NothingLost
  <1>1. IInv => NothingLost
    BY DEF IInv
  <1> QED BY Invariant, <1>1, PTL

\* What a callback is told agrees with the database.
THEOREM AnswersAreHonest == Spec => []HonestAnswers
  <1>1. IInv => HonestAnswers
    BY DEF IInv, Answers, HonestAnswers, AnsweredAtMostOnce, Honest, HonestIn
  <1> QED BY Invariant, <1>1, PTL

\* No transaction stays open on a connection that takes another request.
THEOREM TransactionsAreClosed == Spec => []NoTransactionLeftOpen
  <1>1. IInv => NoTransactionLeftOpen
    BY DEF IInv, Control, ControlOf, NoTransactionLeftOpen
  <1> QED BY Invariant, <1>1, PTL

-----------------------------------------------------------------------------
(* The implementation of RequestService *)

\* What a pool state means to the service.
Status == [r \in Requests |-> IF calls[r] > 0 THEN "answered"
                              ELSE IF r \in submitted THEN "sent"
                              ELSE "unsent"]

\* The pool starts where the request service starts.
LEMMA InitImplements == Init => Service!Init
  BY DEF Init, Service!Init

\* Running a callback is an answer of the service: the report is honest.
LEMMA AnswerImplements ==
  ASSUME NEW r \in Requests, NEW o,
         Status[r] = "sent", Status' = [Status EXCEPT ![r] = "answered"],
         answer' = [answer EXCEPT ![r] = o], applied' = applied, cut' = cut,
         o = "ok" => r \in applied,
         o = "failed" => r \notin applied \/ r \in cut
  PROVE  Service!Answer(r, o)
  BY DEF Status, Service!Answer

\* Every step of the pool is a step of the service, or none at all.
LEMMA StepImplements == IInv /\ [Next]_vars => [Service!Next]_(Service!vars)
  <1> SUFFICES ASSUME IInv, [Next]_vars
               PROVE  [Service!Next]_(Service!vars)
    OBVIOUS
  <1> USE DEF IInv
  <1>0. /\ resultQueue \in [Workers -> Seq(Results)]
        /\ job \in [Workers -> Jobs]
        /\ calls \in [Requests -> Nat]
        /\ answer \in [Requests -> {"none", "ok", "failed"}]
    BY DEF TypeOK
  <1>1. ASSUME UNCHANGED <<submitted, calls, answer, applied, cut>>
        PROVE  UNCHANGED Service!vars
    BY <1>1 DEF Service!vars
  <1>2. ASSUME NEW r \in Requests, Execute(r) PROVE Service!Submit(r)
    <2>1. /\ submitted' = submitted \cup {r} /\ r \notin submitted
          /\ UNCHANGED <<calls, answer, applied, cut>>
      BY <1>2 DEF Execute, databaseVars
    <2>2. calls[r] = 0
      BY <2>1 DEF Answers
    <2>3. Status[r] = "unsent" /\ Status' = [Status EXCEPT ![r] = "sent"]
      <3>1. \A q \in Requests \ {r} : q \in submitted' <=> q \in submitted
        BY <2>1
      <3>2. Status[r] = "unsent" /\ Status'[r] = "sent"
        BY <1>0, <2>1, <2>2 DEF Status
      <3>3. \A q \in Requests \ {r} : Status'[q] = Status[q]
        BY <2>1, <3>1 DEF Status
      <3> QED BY <3>2, <3>3 DEF Status
    <2> QED BY <2>1, <2>3 DEF Status, Service!Submit
  <1>3. ASSUME NEW w \in Workers, HandleResult(w)
        PROVE  \E r \in Requests, o \in {"ok", "failed"} : Service!Answer(r, o)
    <2> DEFINE result == Head(resultQueue[w])
               o == IF result.succeeded THEN "ok" ELSE "failed"
    <2>1. /\ calls' = [calls EXCEPT ![result.request] = @ + 1]
          /\ answer' = [answer EXCEPT ![result.request] = o]
          /\ UNCHANGED <<submitted, applied, cut>>
          /\ resultQueue[w] # <<>>
      BY <1>3 DEF HandleResult, databaseVars
    <2>2. resultQueue[w] \in Seq(Results)
      BY <1>0
    <2>3. /\ 1 \in 1..Len(resultQueue[w]) /\ result = resultQueue[w][1]
          /\ result \in Results
      BY <2>1, <2>2, TailShifts
    <2>4. /\ result.request \in Requests
          /\ result.request \in submitted /\ calls[result.request] = 0
          /\ Honest(result.request, result.succeeded)
      BY <2>3 DEF Results, Placement, PlacedArePending, Pending, Effects
    <2>5. /\ Status[result.request] = "sent"
          /\ Status' = [Status EXCEPT ![result.request] = "answered"]
      <3>1. calls'[result.request] = 1
        BY <1>0, <2>1, <2>4
      <3>2. \A r \in Requests : r # result.request => calls'[r] = calls[r]
        BY <1>0, <2>1
      <3> QED BY <2>1, <2>4, <3>1, <3>2 DEF Status
    <2>6. o \in {"ok", "failed"}
      OBVIOUS
    <2>7. /\ o = "ok" => result.request \in applied
          /\ o = "failed" => result.request \notin applied \/ result.request \in cut
      BY <2>4 DEF Honest, HonestIn
    <2> HIDE DEF o, result
    <2>8. PICK r \in Requests, p \in {"ok", "failed"} : r = result.request /\ p = o
      BY <2>4, <2>6
    <2>9. Service!Answer(r, p)
      BY <2>1, <2>5, <2>7, <2>8, AnswerImplements
    <2> QED BY <2>9
  <1>4. ASSUME NEW w \in Workers, Deciding(w)
        PROVE  \/ \E r \in Requests : Service!Apply(r) \/ Service!Cut(r)
               \/ UNCHANGED Service!vars
    <2> DEFINE r == job[w].request
    <2>1. UNCHANGED <<submitted, calls, answer>> /\ pc[w] \in Undecided
      BY <1>4 DEF Deciding, Decide, OthersUnchanged, callerVars, Undecided
    <2>2. r \in Requests /\ r \in submitted /\ calls[r] = 0 /\ r \notin applied \cup cut
      BY <2>1 DEF Control, ControlOf, Effects, Placement, PlacedArePending,
         Pending, Busy, Untouched, UntouchedIn
    <2>3. \/ applied' = applied \cup {r} /\ cut' = cut
          \/ applied' = applied /\ cut' = cut
          \/ cut' = cut \cup {r} /\ applied' \in {applied, applied \cup {r}}
      BY <1>4 DEF Deciding, Decide
    <2>4. Service!Undecided(r)
      BY <1>0, <2>2 DEF Service!Undecided
    <2> QED
      BY <2>1, <2>2, <2>3, <2>4 DEF Service!Apply, Service!Cut, Service!vars
  <1>5. CASE \E w \in Workers : Dequeue(w) \/ SubmitResult(w)
    BY <1>1, <1>5 DEF Dequeue, SubmitResult, databaseVars, callerVars
  <1>6. CASE Quiet
    BY <1>1, <1>6 DEF Quiet, databaseVars, callerVars
  <1> QED BY StepKinds, <1>2, <1>3, <1>4, <1>5, <1>6 DEF Service!Next

\* The pool implements the request service, however many workers it has.
THEOREM Implementation == Spec => ImplementsService
  BY Invariant, InitImplements, StepImplements, PTL
  DEF Spec, ImplementsService, Service!Spec
=============================================================================
