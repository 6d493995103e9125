------------------------------ MODULE TimeSync ------------------------------
(***************************************************************************)
(* How a client estimates the server's time, before it enters an arena:    *)
(* TimeSyncState sends numbered requests, one at a time, again after a     *)
(* second without an answer; the server answers with its time.  From each  *)
(* answer the client takes the difference between the two clocks, without  *)
(* its sign, and from their mean the delta that EstimateServerTime adds to *)
(* its own time.                                                           *)
(*                                                                         *)
(* Requests and answers are unreliable and sequenced: they may be lost,    *)
(* not reordered.  Clocks are not kept, only their difference (offset) and *)
(* the ages of what depends on them.  An UInt64 below zero is written as   *)
(* the negative integer it is congruent to modulo 2^64, which is what the  *)
(* addition of EstimateServerTime makes of it.                             *)
(***************************************************************************)
EXTENDS Integers, Sequences, FiniteSets

CONSTANTS
  Offsets,     \* how much the server's time may be above the client's
  MaxLatency,  \* bound: a packet later than that counts as lost
  Samples,     \* DesiredRequestCount (30 in the code)
  RetryDelay,  \* before a request is sent again (1 s in the code)
  NextDelay,   \* between an answer and the next request (0.1 s)
  FinishDelay  \* before the arena is entered (2 s)

ASSUME OffsetsAssumption == Offsets \subseteq Int
ASSUME LatencyAssumption == MaxLatency \in Nat
\* Were it 1, an answer that comes after the last sample would be a first one.
ASSUME SamplesAssumption == Samples \in Nat /\ Samples > 1
ASSUME DelaysAssumption ==
  RetryDelay \in Nat \ {0} /\ NextDelay \in Nat \ {0} /\ FinishDelay \in Nat \ {0}

VARIABLES
  offset,      \* the server's time minus the client's: it does not change
  requests,    \* TimeSyncRequest on their way: [id, age]
  responses,   \* TimeSyncResponse on their way: [id, age], of its serverTime
  sinceSent,   \* age of m_requestTime
  wait,        \* m_nextStepTime - m_accumulator
  expected,    \* m_expectedRequestId
  younger,     \* m_isClientYounger
  total,       \* sum of m_results
  count,       \* their number
  finished,    \* m_finished
  delta,       \* m_deltaTime of the ServerConnection
  entered      \* the client has left for the ArenaState

network == <<requests, responses>>
measures == <<younger, total, count, delta>>
vars == <<offset, network, sinceSent, wait, expected, measures, finished, entered>>

Abs(n) == IF n < 0 THEN -n ELSE n
Larger(m, n) == IF m > n THEN m ELSE n
Aged(packets) == [k \in DOMAIN packets |-> [packets[k] EXCEPT !.age = @ + 1]]
MayWait(packets) == \A k \in DOMAIN packets : packets[k].age < MaxLatency

\* TimeSyncState::Enter; the first wait (0.2 s in the code) is a short one too.
Init ==
  /\ offset \in Offsets
  /\ requests = <<>> /\ responses = <<>>
  /\ sinceSent = 0 /\ wait = NextDelay /\ expected = 0
  /\ younger = FALSE /\ total = 0 /\ count = 0 /\ finished = FALSE
  /\ delta = 0 /\ entered = FALSE

-----------------------------------------------------------------------------
(* The client *)

\* Mutant: a request is sent once, its answer waited for.
SendRequest_Once ==
  /\ ~entered /\ ~finished /\ wait = 0
  /\ requests' = Append(requests, [id |-> expected, age |-> 0])
  /\ sinceSent' = 0
  /\ wait' = -1
  /\ UNCHANGED <<offset, responses, expected, measures, finished, entered>>

\* TimeSyncState::Update
SendRequest ==
  /\ ~entered /\ ~finished /\ wait = 0
  /\ requests' = Append(requests, [id |-> expected, age |-> 0])
  /\ sinceSent' = 0
  /\ wait' = RetryDelay
  /\ UNCHANGED <<offset, responses, expected, measures, finished, entered>>

EnterArena ==
  /\ ~entered /\ finished /\ wait = 0
  /\ entered' = TRUE
  /\ requests' = <<>> /\ responses' = <<>>
  /\ UNCHANGED <<offset, sinceSent, wait, expected, measures, finished>>

\* serverTime - appTime of a response.
Difference(response) == offset - response.age
YoungerThanServer(response) == Difference(response) >= 0
\* diff, with the ping of the last request sent
Diff(response) == Abs(Difference(response)) + sinceSent \div 2
\* Mutant: the sign of the difference is lost.
DeltaOf_Unsigned(isYounger, mean) == mean
\* What UpdateServerTimeDelta is given: the mean, or max() less the mean.
DeltaOf(isYounger, mean) == IF isYounger THEN mean ELSE -1 - mean

\* An answer that says who is younger differently from the first: all over,
\* but for m_finished, if it is a late one.
Restart ==
  /\ expected' = 0 /\ wait' = RetryDelay
  /\ total' = 0 /\ count' = 0
  /\ UNCHANGED <<younger, delta, finished>>

\* Mutant: the last answer too makes the client expect another.
Measure_AlwaysNext(response) ==
  /\ younger' = (IF expected = 0 THEN YoungerThanServer(response) ELSE younger)
  /\ total' = total + Diff(response)
  /\ count' = count + 1
  /\ expected' = expected + 1
  /\ delta' = DeltaOf(younger', total' \div count')
  /\ finished' = (count' >= Samples) /\ wait' = NextDelay

\* An answer in accordance with the others.
Measure(response) ==
  /\ younger' = (IF expected = 0 THEN YoungerThanServer(response) ELSE younger)
  /\ total' = total + Diff(response)
  /\ count' = count + 1
  /\ IF count' >= Samples
       THEN /\ delta' = DeltaOf(younger', total' \div count')
            /\ finished' = TRUE /\ wait' = FinishDelay
            /\ UNCHANGED expected
       ELSE /\ wait' = NextDelay /\ expected' = expected + 1
            /\ UNCHANGED <<delta, finished>>

\* OnTimeSyncResponse of the request expected, even if it was sent again since.
OnExpected ==
  /\ ~entered /\ responses # <<>> /\ Head(responses).id = expected
  /\ responses' = Tail(responses)
  /\ IF expected # 0 /\ YoungerThanServer(Head(responses)) # younger
       THEN Restart ELSE Measure(Head(responses))
  /\ UNCHANGED <<offset, requests, sinceSent, entered>>

OnUnexpected ==
  /\ ~entered /\ responses # <<>> /\ Head(responses).id # expected
  /\ responses' = Tail(responses)
  /\ UNCHANGED <<offset, requests, sinceSent, wait, expected, measures, finished, entered>>

-----------------------------------------------------------------------------
(* The server and the network *)

\* ClientSession::HandleTimeSyncRequest
HandleTimeSyncRequest ==
  /\ requests # <<>>
  /\ requests' = Tail(requests)
  /\ responses' = Append(responses, [id |-> Head(requests).id, age |-> 0])
  /\ UNCHANGED <<offset, sinceSent, wait, expected, measures, finished, entered>>

LoseRequest ==
  /\ requests # <<>> /\ requests' = Tail(requests)
  /\ UNCHANGED <<offset, responses, sinceSent, wait, expected, measures, finished, entered>>

LoseResponse ==
  /\ responses # <<>> /\ responses' = Tail(responses)
  /\ UNCHANGED <<offset, requests, sinceSent, wait, expected, measures, finished, entered>>

\* Time passes on both sides.  The client does not miss the end of a wait.
Pass ==
  /\ ~entered /\ wait # 0 /\ MayWait(requests) /\ MayWait(responses)
  /\ requests' = Aged(requests) /\ responses' = Aged(responses)
  /\ sinceSent' = IF sinceSent < 2 * MaxLatency + RetryDelay THEN sinceSent + 1 ELSE sinceSent
  /\ wait' = IF wait > 0 THEN wait - 1 ELSE wait
  /\ UNCHANGED <<offset, expected, measures, finished, entered>>

-----------------------------------------------------------------------------
Next ==
  \/ SendRequest
  \/ EnterArena
  \/ OnExpected
  \/ OnUnexpected
  \/ HandleTimeSyncRequest
  \/ LoseRequest
  \/ LoseResponse
  \/ Pass

Spec == Init /\ [][Next]_vars

\* Both programs run, a packet does not stay on its way, and a network that is
\* tried again and again does not lose everything.
Fairness ==
  /\ WF_vars(SendRequest) /\ WF_vars(EnterArena) /\ WF_vars(Pass)
  /\ WF_vars(HandleTimeSyncRequest \/ LoseRequest)
  /\ WF_vars(OnExpected \/ OnUnexpected \/ LoseResponse)
  /\ SF_vars(HandleTimeSyncRequest) /\ SF_vars(OnExpected)
FairSpec == Spec /\ Fairness

-----------------------------------------------------------------------------
(* Properties *)

\* The variables have their types.
TypeOK ==
  /\ offset \in Offsets /\ younger \in BOOLEAN /\ finished \in BOOLEAN /\ entered \in BOOLEAN
  /\ \A packets \in {requests, responses} : \A k \in DOMAIN packets :
       packets[k].id \in 0..Samples - 1 /\ packets[k].age \in 0..MaxLatency
  /\ sinceSent \in Nat /\ total \in Nat /\ count \in Nat /\ delta \in Int
  /\ expected \in 0..Samples - 1 /\ wait \in 0..Larger(RetryDelay, Larger(NextDelay, FinishDelay))

\* How far the estimate of the server's time is ahead of it.
Error == delta - offset

\* A client older than the server adds half the ping to the difference where
\* it should remove it, and a late answer to a request sent again makes a ping
\* too small.  Still the estimate is never ahead by more than half a latency,
\* nor behind by more than two of them and a unit.
EstimateIsBounded ==
  entered => Error <= MaxLatency \div 2 /\ Error >= -(2 * MaxLatency + 1)

\* Unless the two clocks are so close that a latency changes which is the
\* younger, the client ends up entering the arena.
SyncEnds == offset \notin 0..MaxLatency - 1 => <>entered
=============================================================================
