---------------------------- MODULE DatabasePool ----------------------------
(***************************************************************************)
(* The server's database pool: the main thread submits requests to one     *)
(* queue, DatabaseWorker threads take them, run them as a statement or as  *)
(* a transaction on a connection of their own and hand the results back    *)
(* through a second queue that the main thread polls.                      *)
(*                                                                         *)
(* The main thread first loads the stores: DatabaseLoader submits one      *)
(* query per store and blocks in Database::WaitForCompletion.  It then     *)
(* runs (submits and polls) until ~ServerApplication joins the workers.    *)
(*                                                                         *)
(* External: PostgreSQL and libpq (a statement succeeds, fails, or breaks  *)
(* the connection), the moodycamel queues (FIFO per producer), the clock   *)
(* (a timed wait gives up only when the queue is empty).                   *)
(***************************************************************************)
EXTENDS Naturals, Sequences

CONSTANTS
  NumWorkers,     \* Database::SpawnWorkers(workerCount)
  Requests,       \* the requests submitted in a behaviour
  Stores,         \* those DatabaseLoader submits before WaitForCompletion
  Transactions,   \* those that are transactions; the others are statements
  NoRequest,
  MaxStatements,  \* bound: statements of a transaction, appended ones included
  MaxLosses       \* bound: connections that break

ASSUME WorkersAssumption == NumWorkers \in Nat \ {0}
ASSUME RequestsAssumption ==
  /\ NoRequest \notin Requests
  /\ Stores \subseteq Requests
  /\ Transactions \subseteq Requests \ Stores
ASSUME BoundsAssumption == MaxStatements \in Nat \ {0} /\ MaxLosses \in Nat

VARIABLES
  mainPc, mainWorker,        \* main thread: where it is, the worker its loop is at
  requestQueue, resultQueue, \* m_requestQueue; m_resultQueue, one FIFO per producer
  pc, idle, running,         \* worker: where it is, m_idle, m_running
  connected, inTransaction,  \* its connection, and a transaction left open on it
  job,                       \* the request it runs and how far it is
  applied, cut, losses,      \* the database, and the connections that broke
  submitted, calls, answer   \* requests submitted; callback calls; last outcome

mainVars == <<mainPc, mainWorker>>
queueVars == <<requestQueue, resultQueue>>
connectionVars == <<connected, inTransaction, losses>>
workerVars == <<pc, idle, running, connectionVars, job>>
databaseVars == <<applied, cut>>
callerVars == <<submitted, calls, answer>>
vars == <<mainVars, queueVars, workerVars, databaseVars, callerVars>>

Workers == 1..NumWorkers
MainSteps == {"load", "reset", "eval", "block", "asleep", "drain", "check",
              "run", "stop", "join", "stopped", "terminated"}
WorkerSteps == {"connect", "loop", "dequeue", "timedOut", "notify", "ping",
                "taken", "query", "begin", "statement", "rollback", "submit",
                "exited"}
NoJob == [request |-> NoRequest, size |-> 0, position |-> 0, succeeded |-> FALSE]

Init ==
  /\ mainPc = "load" /\ mainWorker = 1
  /\ requestQueue = <<>>
  /\ resultQueue = [w \in Workers |-> <<>>]
  /\ pc = [w \in Workers |-> "connect"]
  /\ idle = [w \in Workers |-> FALSE]
  /\ running = [w \in Workers |-> TRUE]
  /\ connected = [w \in Workers |-> FALSE]
  /\ inTransaction = [w \in Workers |-> FALSE]
  /\ job = [w \in Workers |-> NoJob]
  /\ applied = {} /\ cut = {} /\ losses = 0
  /\ submitted = {}
  /\ calls = [r \in Requests |-> 0]
  /\ answer = [r \in Requests |-> "none"]

-----------------------------------------------------------------------------
(* Main thread *)

\* ExecuteStatement and ExecuteTransaction; the queries of the stores come
\* first, from LoadFromDatabase.
Execute(r) ==
  /\ mainPc = IF r \in Stores THEN "load" ELSE "run"
  /\ r \notin submitted
  /\ submitted' = submitted \cup {r}
  /\ requestQueue' = Append(requestQueue, r)
  /\ UNCHANGED <<mainVars, resultQueue, workerVars, databaseVars, calls, answer>>

\* One turn of the loop of Poll, or of the last loop of WaitForCompletion, on a
\* result of worker w: HandleResult runs the callback.
HandleResult(w) ==
  /\ mainPc \in {"run", "drain"}
  /\ resultQueue[w] # <<>>
  /\ LET result == Head(resultQueue[w])
     IN  /\ calls' = [calls EXCEPT ![result.request] = @ + 1]
         /\ answer' = [answer EXCEPT ![result.request] =
                         IF result.succeeded THEN "ok" ELSE "failed"]
  /\ resultQueue' = [resultQueue EXCEPT ![w] = Tail(@)]
  /\ UNCHANGED <<mainVars, requestQueue, workerVars, databaseVars, submitted>>

\* The other steps of the main thread move it from one step to another.
MainGoes(from, to) ==
  /\ mainPc = from
  /\ mainPc' = to
  /\ UNCHANGED <<queueVars, pc, connectionVars, job, databaseVars, callerVars>>

\* The same at the end of a turn of a loop over m_workers.
MainLoops(from, to, after) ==
  /\ MainGoes(from, IF mainWorker = NumWorkers THEN after ELSE to)
  /\ mainWorker' = IF mainWorker = NumWorkers THEN 1 ELSE mainWorker + 1

BeginWait ==
  /\ Stores \subseteq submitted
  /\ MainGoes("load", "reset")
  /\ UNCHANGED <<mainWorker, idle, running>>

ResetIdle ==
  /\ idle' = [idle EXCEPT ![mainWorker] = FALSE]
  /\ MainLoops("reset", "reset", "eval")
  /\ UNCHANGED running

\* WaitForIdle evaluates its predicate and then blocks: the worker notifies
\* without the mutex, so it may do so in between.
FindIdle ==
  /\ idle[mainWorker]
  /\ MainLoops("eval", "eval", "drain")
  /\ UNCHANGED <<idle, running>>

FindBusy ==
  /\ ~idle[mainWorker]
  /\ MainGoes("eval", "block")
  /\ UNCHANGED <<mainWorker, idle, running>>

Block == MainGoes("block", "asleep") /\ UNCHANGED <<mainWorker, idle, running>>

SpuriousWakeup ==
  MainGoes("asleep", "eval") /\ UNCHANGED <<mainWorker, idle, running>>

EndDrain ==
  /\ \A w \in Workers : resultQueue[w] = <<>>
  /\ MainGoes("drain", "check")
  /\ UNCHANGED <<mainWorker, idle, running>>

\* A store without a valid result makes the server give up.
CheckResults ==
  /\ MainGoes("check", IF \A r \in Stores : answer[r] = "ok" THEN "run" ELSE "stop")
  /\ UNCHANGED <<mainWorker, idle, running>>

BeginShutdown ==
  MainGoes("run", "stop") /\ UNCHANGED <<mainWorker, idle, running>>

\* Mutant: the destructor joins without clearing m_running.
StopWorker_FlagKept ==
  MainGoes("stop", "join") /\ UNCHANGED <<mainWorker, idle, running>>

\* ~DatabaseWorker, for one worker after the other.
StopWorker ==
  /\ running' = [running EXCEPT ![mainWorker] = FALSE]
  /\ MainGoes("stop", "join")
  /\ UNCHANGED <<mainWorker, idle>>

JoinWorker ==
  /\ pc[mainWorker] = "exited"
  /\ MainLoops("join", "stop", "stopped")
  /\ UNCHANGED <<idle, running>>

-----------------------------------------------------------------------------
(* Worker threads *)

WorkerGoes(w, from, to) == pc[w] = from /\ pc' = [pc EXCEPT ![w] = to]

\* What no step of a worker that uses its connection changes.
OthersUnchanged == UNCHANGED <<mainVars, queueVars, idle, running, callerVars>>

\* A statement leaves the connection up, with or without an open transaction,
\* or the connection breaks under it.
KeepConnection(w, open) ==
  /\ inTransaction' = [inTransaction EXCEPT ![w] = open]
  /\ UNCHANGED <<connected, losses>>

LoseConnection(w) ==
  /\ losses < MaxLosses
  /\ losses' = losses + 1
  /\ connected' = [connected EXCEPT ![w] = FALSE]
  /\ inTransaction' = [inTransaction EXCEPT ![w] = FALSE]

\* CreateConnection, when the thread starts and after every loss.
Connect(w) ==
  /\ WorkerGoes(w, "connect", "loop")
  /\ connected' = [connected EXCEPT ![w] = TRUE]
  /\ OthersUnchanged /\ UNCHANGED <<inTransaction, losses, job, databaseVars>>

ConnectFails(w) ==
  /\ WorkerGoes(w, "connect", "loop")
  /\ OthersUnchanged /\ UNCHANGED <<connectionVars, job, databaseVars>>

\* PrepareStatement throws on a refused statement, and no one catches it in the
\* worker thread: std::terminate ends every thread.
PrepareThrows(w) ==
  /\ pc[w] = "connect"
  /\ mainPc' = "terminated"
  /\ pc' = [v \in Workers |-> "exited"]
  /\ connected' = [v \in Workers |-> FALSE]
  /\ inTransaction' = [v \in Workers |-> FALSE]
  /\ UNCHANGED <<mainWorker, queueVars, idle, running, losses, job,
                 databaseVars, callerVars>>

\* The thread function returns, which closes its connection.
Exit(w) ==
  /\ ~running[w]
  /\ WorkerGoes(w, "loop", "exited")
  /\ connected' = [connected EXCEPT ![w] = FALSE]
  /\ OthersUnchanged /\ UNCHANGED <<inTransaction, losses, job, databaseVars>>

LoopTop(w) ==
  /\ running[w]
  /\ WorkerGoes(w, "loop", IF connected[w] THEN "dequeue" ELSE "connect")
  /\ OthersUnchanged /\ UNCHANGED <<connectionVars, job, databaseVars>>

\* wait_dequeue_timed gives up; then the worker says that it is idle.
DequeueTimeout(w) ==
  /\ requestQueue = <<>>
  /\ WorkerGoes(w, "dequeue", "timedOut")
  /\ OthersUnchanged /\ UNCHANGED <<connectionVars, job, databaseVars>>

\* Mutant: the worker only notifies when m_idle changes.
SetIdle_NotifyOnChange(w) ==
  /\ WorkerGoes(w, "timedOut", IF idle[w] THEN "ping" ELSE "notify")
  /\ idle' = [idle EXCEPT ![w] = TRUE]
  /\ UNCHANGED <<mainVars, queueVars, running, connectionVars, job,
                 databaseVars, callerVars>>

SetIdle(w) ==
  /\ WorkerGoes(w, "timedOut", "notify")
  /\ idle' = [idle EXCEPT ![w] = TRUE]
  /\ UNCHANGED <<mainVars, queueVars, running, connectionVars, job,
                 databaseVars, callerVars>>

NotifyIdle(w) ==
  /\ WorkerGoes(w, "notify", "ping")
  /\ mainPc' = IF mainPc = "asleep" /\ mainWorker = w THEN "eval" ELSE mainPc
  /\ UNCHANGED <<mainWorker, queueVars, idle, running, connectionVars, job,
                 databaseVars, callerVars>>

\* A ping that is not due, or that is answered, changes nothing.
Ping(w) ==
  /\ WorkerGoes(w, "ping", "loop")
  /\ KeepConnection(w, inTransaction[w]) \/ LoseConnection(w)
  /\ OthersUnchanged /\ UNCHANGED <<job, databaseVars>>

Dequeue(w) ==
  /\ requestQueue # <<>>
  /\ WorkerGoes(w, "dequeue", "taken")
  /\ job' = [job EXCEPT ![w].request = Head(requestQueue)]
  /\ requestQueue' = Tail(requestQueue)
  /\ UNCHANGED <<mainVars, resultQueue, idle, running, connectionVars,
                 databaseVars, callerVars>>

\* m_idle.store(false), then the visit of the request.
StartRequest(w) ==
  /\ idle' = [idle EXCEPT ![w] = FALSE]
  /\ \/ /\ job[w].request \notin Transactions
        /\ WorkerGoes(w, "taken", "query")
        /\ UNCHANGED job
     \/ /\ job[w].request \in Transactions
        /\ WorkerGoes(w, "taken", "begin")
        /\ \E n \in 1..MaxStatements : job' = [job EXCEPT ![w].size = n]
  /\ UNCHANGED <<mainVars, queueVars, running, connectionVars, databaseVars,
                 callerVars>>

\* Mutants: the result of COMMIT is not looked at; a success is not recorded.
Decide_ResultIgnored(w) ==
  /\ job' = [job EXCEPT ![w].succeeded = TRUE]
  /\ \/ /\ KeepConnection(w, FALSE)
        /\ applied' \in {applied, applied \cup {job[w].request}}
        /\ UNCHANGED cut
     \/ LoseConnection(w) /\ cut' = cut \cup {job[w].request} /\ UNCHANGED applied
  /\ OthersUnchanged

Decide_SuccessForgotten(w) ==
  /\ KeepConnection(w, FALSE)
  /\ applied' = applied \cup {job[w].request}
  /\ OthersUnchanged /\ UNCHANGED <<job, cut>>

\* The statement that decides over the request: it takes effect, is refused,
\* or breaks the connection before or after it took effect.
Decide(w) ==
  /\ \/ /\ KeepConnection(w, FALSE)
        /\ applied' = applied \cup {job[w].request}
        /\ job' = [job EXCEPT ![w].succeeded = TRUE]
        /\ UNCHANGED cut
     \/ /\ KeepConnection(w, FALSE)
        /\ UNCHANGED <<applied, cut, job>>
     \/ /\ LoseConnection(w)
        /\ applied' \in {applied, applied \cup {job[w].request}}
        /\ cut' = cut \cup {job[w].request}
        /\ UNCHANGED job
  /\ OthersUnchanged

ExecQuery(w) == WorkerGoes(w, "query", "submit") /\ Decide(w)

\* Mutant: a connection found broken by BEGIN drops the request.
Begin_Drops(w) ==
  /\ \/ KeepConnection(w, TRUE) /\ WorkerGoes(w, "begin", "statement")
     \/ KeepConnection(w, FALSE) /\ WorkerGoes(w, "begin", "submit")
     \/ LoseConnection(w) /\ WorkerGoes(w, "begin", "loop")
  /\ OthersUnchanged /\ UNCHANGED <<job, databaseVars>>

Begin(w) ==
  /\ \/ KeepConnection(w, TRUE) /\ WorkerGoes(w, "begin", "statement")
     \/ KeepConnection(w, FALSE) /\ WorkerGoes(w, "begin", "submit")
     \/ LoseConnection(w) /\ WorkerGoes(w, "begin", "submit")
  /\ OthersUnchanged /\ UNCHANGED <<job, databaseVars>>

\* Mutant: the loop over the statements runs once too often.
StatementSucceeds_OneMore(w) ==
  /\ job[w].position <= job[w].size
  /\ WorkerGoes(w, "statement", "statement")
  /\ job' = [job EXCEPT ![w].position = @ + 1]
  /\ OthersUnchanged /\ UNCHANGED <<connectionVars, databaseVars>>

\* HandleTransactionStatement: the operator of a statement may append one, or
\* turn its result into a failure.
StatementSucceeds(w) ==
  /\ job[w].position < job[w].size
  /\ WorkerGoes(w, "statement", "statement")
  /\ \E n \in {job[w].size, job[w].size + 1} :
       /\ n <= MaxStatements
       /\ job' = [job EXCEPT ![w].position = @ + 1, ![w].size = n]
  /\ OthersUnchanged /\ UNCHANGED <<connectionVars, databaseVars>>

\* Mutant: no ROLLBACK after a failed statement.
StatementFails_NoRollback(w) ==
  /\ job[w].position < job[w].size
  /\ WorkerGoes(w, "statement", "submit")
  /\ KeepConnection(w, inTransaction[w]) \/ LoseConnection(w)
  /\ OthersUnchanged /\ UNCHANGED <<job, databaseVars>>

StatementFails(w) ==
  /\ job[w].position < job[w].size
  /\ \/ /\ KeepConnection(w, inTransaction[w])
        /\ WorkerGoes(w, "statement", "rollback")
     \/ /\ LoseConnection(w)
        /\ WorkerGoes(w, "statement", "submit")
  /\ OthersUnchanged /\ UNCHANGED <<job, databaseVars>>

\* A ROLLBACK only fails with its connection.
Rollback(w) ==
  /\ WorkerGoes(w, "rollback", "submit")
  /\ KeepConnection(w, FALSE) \/ LoseConnection(w)
  /\ OthersUnchanged /\ UNCHANGED <<job, databaseVars>>

\* COMMIT, once the loop over the statements ended without a failure.
Commit(w) ==
  /\ job[w].position = job[w].size
  /\ WorkerGoes(w, "statement", "submit")
  /\ Decide(w)

\* Mutant: a failed request is reported and queued again.
SubmitResult_Retry(w) ==
  /\ WorkerGoes(w, "submit", "loop")
  /\ resultQueue' = [resultQueue EXCEPT ![w] =
       Append(@, [request |-> job[w].request, succeeded |-> job[w].succeeded])]
  /\ requestQueue' = IF job[w].succeeded THEN requestQueue
                      ELSE Append(requestQueue, job[w].request)
  /\ job' = [job EXCEPT ![w] = NoJob]
  /\ UNCHANGED <<mainVars, idle, running, connectionVars, databaseVars, callerVars>>

SubmitResult(w) ==
  /\ WorkerGoes(w, "submit", "loop")
  /\ resultQueue' = [resultQueue EXCEPT ![w] =
       Append(@, [request |-> job[w].request, succeeded |-> job[w].succeeded])]
  /\ job' = [job EXCEPT ![w] = NoJob]
  /\ UNCHANGED <<mainVars, requestQueue, idle, running, connectionVars,
                 databaseVars, callerVars>>

-----------------------------------------------------------------------------

MainStep ==
  \/ \E r \in Requests : Execute(r)
  \/ \E w \in Workers : HandleResult(w)
  \/ BeginWait \/ ResetIdle \/ FindIdle \/ FindBusy \/ Block \/ SpuriousWakeup
  \/ EndDrain \/ CheckResults \/ BeginShutdown \/ StopWorker \/ JoinWorker

WorkerStep(w) ==
  \/ Connect(w) \/ ConnectFails(w) \/ PrepareThrows(w) \/ Exit(w) \/ LoopTop(w)
  \/ DequeueTimeout(w) \/ SetIdle(w) \/ NotifyIdle(w) \/ Ping(w)
  \/ Dequeue(w) \/ StartRequest(w) \/ ExecQuery(w) \/ SubmitResult(w)
  \/ Begin(w) \/ StatementSucceeds(w) \/ StatementFails(w) \/ Rollback(w)
  \/ Commit(w)

Next == MainStep \/ \E w \in Workers : WorkerStep(w)

Spec == Init /\ [][Next]_vars

\* Every thread keeps running and the main thread keeps polling, but nothing
\* forces a request, a shutdown or a spurious wake-up; a connection attempt
\* that is repeated forever succeeds in the end.
Fairness ==
  /\ WF_vars(BeginWait \/ ResetIdle \/ FindIdle \/ FindBusy \/ Block \/ EndDrain
             \/ CheckResults \/ StopWorker \/ JoinWorker)
  /\ WF_vars(\E r \in Stores : Execute(r))
  /\ WF_vars(\E w \in Workers : HandleResult(w))
  /\ \A w \in Workers : WF_vars(WorkerStep(w)) /\ SF_vars(Connect(w))

FairSpec == Spec /\ Fairness

-----------------------------------------------------------------------------
(* Properties *)

Results == [request : Requests, succeeded : BOOLEAN]
Jobs == [request : Requests \cup {NoRequest}, size : 0..MaxStatements,
         position : 0..MaxStatements, succeeded : BOOLEAN]

\* The type of every variable (Database and DatabaseWorker members).
TypeOK ==
  /\ mainPc \in MainSteps /\ mainWorker \in Workers
  /\ requestQueue \in Seq(Requests)
  /\ resultQueue \in [Workers -> Seq(Results)]
  /\ pc \in [Workers -> WorkerSteps]
  /\ idle \in [Workers -> BOOLEAN] /\ running \in [Workers -> BOOLEAN]
  /\ connected \in [Workers -> BOOLEAN]
  /\ inTransaction \in [Workers -> BOOLEAN]
  /\ job \in [Workers -> Jobs]
  /\ applied \subseteq Requests /\ cut \subseteq Requests
  /\ losses \in 0..MaxLosses
  /\ submitted \subseteq Requests
  /\ calls \in [Requests -> Nat]
  /\ answer \in [Requests -> {"none", "ok", "failed"}]

\* A callback never runs twice and never for a request that was not submitted,
\* whatever connections break on the way (HandleResult, SubmitResult).
AnsweredAtMostOnce ==
  \A r \in Requests : calls[r] <= 1 /\ (calls[r] = 1 => r \in submitted)

Queued(r) == \E i \in 1..Len(requestQueue) : requestQueue[i] = r
Held(r) == \E w \in Workers : job[w].request = r
Finished(r) ==
  \E w \in Workers : \E i \in 1..Len(resultQueue[w]) :
    resultQueue[w][i].request = r

\* A submitted request whose callback did not run yet is still somewhere: in
\* the request queue, in the hands of a worker or in the result queue.
NothingLost ==
  \A r \in submitted : calls[r] = 0 => Queued(r) \/ Held(r) \/ Finished(r)

\* A callback that hears of a success speaks of a request that took effect,
\* although the effect and the report are made by different threads; one that
\* hears of a failure, of a request that had no effect, unless the connection
\* broke on the statement that decides; and it hears of one of them only.
HonestAnswers ==
  /\ AnsweredAtMostOnce
  /\ \A r \in Requests :
       /\ answer[r] = "ok" => r \in applied
       /\ answer[r] = "failed" => r \notin applied \/ r \in cut

\* A worker never takes a request on a connection on which a transaction of an
\* earlier request is still open.
NoTransactionLeftOpen ==
  \A w \in Workers :
    inTransaction[w] => connected[w] /\ pc[w] \in {"statement", "rollback"}

Ended == {"stop", "join", "stopped", "terminated"}

\* Every request is answered in the end, unless the server shuts down.
EveryRequestAnswered ==
  \A r \in Requests : r \in submitted ~> calls[r] = 1 \/ mainPc \in Ended

LoadingEnds == <>(mainPc \in {"run"} \cup Ended)
ShutdownEnds == mainPc = "stop" ~> mainPc \in {"stopped", "terminated"}

\* The main thread waits for its workers twice, never for ever: when it loads
\* the stores WaitForCompletion returns, although the workers notify without
\* the mutex and a wake-up can fall before the wait; when it shuts down it
\* joins every worker.
MainThreadWaitsEnd == LoadingEnds /\ ShutdownEnds

\* LoadFromDatabase checks the results "for failed results": at that point a
\* store without a valid result is one whose query failed.
MissingResultMeansFailure ==
  mainPc = "check" => \A r \in Stores : answer[r] # "none"

\* The pool implements the abstract request service.
Service == INSTANCE RequestService WITH
  status <- [r \in Requests |-> IF calls[r] > 0 THEN "answered"
                                ELSE IF r \in submitted THEN "sent"
                                ELSE "unsent"],
  outcome <- answer

\* Whatever the threads interleave, the code that submits requests sees the
\* request service: one effect and one callback per request.
ImplementsService == Service!Spec
=============================================================================
