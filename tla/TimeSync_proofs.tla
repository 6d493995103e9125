--------------------------- MODULE TimeSync_proofs ---------------------------
(***************************************************************************)
(* Theorems of TimeSync, for any difference of the clocks, any latency and *)
(* any number of samples: the types, and how far the estimate of the       *)
(* server's time may be from it.                                           *)
(*                                                                         *)
(* The inductive invariant says that the last request was sent after every *)
(* packet on its way (SentLast), that each answer counted so far was       *)
(* within bounds of the offset, whichever its sign (TotalFits), and that a *)
(* delta that was set is the mean of such answers (DeltaFits).             *)
(***************************************************************************)
EXTENDS TimeSync, TLAPS

Packets == [id : 0..Samples - 1, age : 0..MaxLatency]

\* The request sent last is younger than any on its way; an answer left when
\* its request was MaxLatency old at most.
SentLast ==
  /\ requests \in Seq(Packets) /\ responses \in Seq(Packets)
  /\ \A k \in DOMAIN requests : sinceSent <= requests[k].age
  /\ \A k \in DOMAIN responses : sinceSent <= responses[k].age + MaxLatency

\* The bounds of one answer's difference, and of the mean of several.
Least == IF younger THEN offset - MaxLatency ELSE -offset
Most == IF younger THEN offset + MaxLatency \div 2 ELSE 2 * MaxLatency - offset

\* Until the last sample the client expects as many as it has.
TotalFits ==
  /\ expected = IF count < Samples THEN count ELSE Samples - 1
  /\ count = 0 => total = 0
  /\ count * Least <= total /\ total <= count * Most

DeltaIsBounded == Error <= MaxLatency \div 2 /\ Error >= -(2 * MaxLatency + 1)
DeltaFits == finished => DeltaIsBounded

IInv ==
  /\ TypeOK /\ SentLast /\ TotalFits /\ DeltaFits
  /\ entered => finished

-----------------------------------------------------------------------------
(* Means *)

LEMMA Product ==
  ASSUME NEW n \in Nat, NEW x \in Int
  PROVE  n * x \in Int /\ (n + 1) * x = n * x + x
  OBVIOUS

LEMMA ProductsInOrder ==
  ASSUME NEW n \in Nat, NEW x \in Int, NEW y \in Int, x <= y
  PROVE  n * x <= n * y
  OBVIOUS

\* A mean is between the bounds of what it is the mean of.
LEMMA MeanIsBetween ==
  ASSUME NEW n \in Nat, n > 0, NEW sum \in Nat, NEW least \in Int, NEW most \in Int,
         n * least <= sum, sum <= n * most
  PROVE  sum \div n \in Int /\ least <= sum \div n /\ sum \div n <= most
  <1> DEFINE mean == sum \div n
  <1>1. mean \in Int /\ n * mean <= sum /\ sum < n * mean + n
    OBVIOUS
  <1> HIDE DEF mean
  <1>2. ASSUME mean < least PROVE FALSE
    <2>1. n * (mean + 1) <= n * least
      BY <1>1, <1>2, ProductsInOrder
    <2>2. n * (mean + 1) = n * mean + n
      BY <1>1
    <2> QED BY <1>1, <2>1, <2>2, Product
  <1>3. ASSUME most < mean PROVE FALSE
    <2>1. n * (most + 1) <= n * mean
      BY <1>1, <1>3, ProductsInOrder
    <2>2. n * (most + 1) = n * most + n
      OBVIOUS
    <2> QED BY <1>1, <2>1, <2>2, Product
  <1>4. least <= mean /\ mean <= most
    BY <1>1, <1>2, <1>3
  <1> QED BY <1>1, <1>4 DEF mean

LEMMA Halves ==
  ASSUME NEW n \in Nat
  PROVE  /\ n \div 2 \in Nat /\ 2 * (n \div 2) <= n /\ n < 2 * (n \div 2) + 2
  OBVIOUS

LEMMA BoundsAreIntegers ==
  ASSUME TypeOK
  PROVE  offset \in Int /\ Least \in Int /\ Most \in Int
  BY OffsetsAssumption, LatencyAssumption, Halves DEF TypeOK, Least, Most

-----------------------------------------------------------------------------
(* Packets *)

LEMMA TailOfPackets ==
  ASSUME NEW packets \in Seq(Packets), packets # <<>>
  PROVE  /\ Tail(packets) \in Seq(Packets) /\ Head(packets) \in Packets
         /\ 1 \in DOMAIN packets /\ Head(packets) = packets[1]
         /\ \A k \in DOMAIN Tail(packets) :
              k + 1 \in DOMAIN packets /\ Tail(packets)[k] = packets[k + 1]
  OBVIOUS

LEMMA AppendToPackets ==
  ASSUME NEW packets \in Seq(Packets), NEW packet \in Packets
  PROVE  /\ Append(packets, packet) \in Seq(Packets)
         /\ \A k \in DOMAIN Append(packets, packet) :
              \/ k \in DOMAIN packets /\ Append(packets, packet)[k] = packets[k]
              \/ Append(packets, packet)[k] = packet
  OBVIOUS

LEMMA AgedPackets ==
  ASSUME NEW packets \in Seq(Packets), MayWait(packets)
  PROVE  /\ Aged(packets) \in Seq(Packets) /\ DOMAIN Aged(packets) = DOMAIN packets
         /\ \A k \in DOMAIN packets : Aged(packets)[k].age = packets[k].age + 1
  <1> DEFINE aged == Aged(packets)
  <1>1. \A k \in DOMAIN packets : packets[k] \in Packets /\ packets[k].age < MaxLatency
    BY DEF MayWait
  <1>2. \A k \in DOMAIN packets : aged[k] \in Packets /\ aged[k].age = packets[k].age + 1
    <2> SUFFICES ASSUME NEW k \in DOMAIN packets
                 PROVE  aged[k] \in Packets /\ aged[k].age = packets[k].age + 1
      OBVIOUS
    <2>1. aged[k] = [packets[k] EXCEPT !.age = packets[k].age + 1]
      BY DEF Aged
    <2>2. packets[k].age + 1 \in 0..MaxLatency
      BY <1>1, LatencyAssumption DEF Packets
    <2> QED BY <1>1, <2>1, <2>2 DEF Packets
  <1>3. DOMAIN aged = DOMAIN packets /\ aged \in [DOMAIN packets -> Packets]
    BY <1>2 DEF Aged
  <1>4. aged \in Seq(Packets)
    <2> HIDE DEF aged
    <2>1. DOMAIN packets = 1..Len(packets) /\ Len(packets) \in Nat
      OBVIOUS
    <2> QED BY <1>3, <2>1
  <1> QED BY <1>2, <1>3, <1>4

LEMMA AgesOfPackets ==
  \A packet \in Packets : packet.age \in Nat /\ packet.age <= MaxLatency
  BY LatencyAssumption DEF Packets

\* SentLast of the state after a step.
LEMMA SentLastNext ==
  ASSUME requests' \in Seq(Packets), responses' \in Seq(Packets),
         \A k \in DOMAIN requests' : sinceSent' <= requests'[k].age,
         \A k \in DOMAIN responses' : sinceSent' <= responses'[k].age + MaxLatency
  PROVE  /\ SentLast'
         /\ \A packets \in {requests', responses'} : \A k \in DOMAIN packets :
              packets[k].id \in 0..Samples - 1 /\ packets[k].age \in 0..MaxLatency
  <1>1. \A packet \in Packets : packet.id \in 0..Samples - 1 /\ packet.age \in 0..MaxLatency
    BY DEF Packets
  <1>2. /\ \A k \in DOMAIN requests' : requests'[k] \in Packets
        /\ \A k \in DOMAIN responses' : responses'[k] \in Packets
    OBVIOUS
  <1> QED BY <1>1, <1>2 DEF SentLast

\* What the steps that touch the measures or the state leave to show.
Others ==
  /\ offset \in Offsets /\ younger \in BOOLEAN /\ finished \in BOOLEAN /\ entered \in BOOLEAN
  /\ sinceSent \in Nat /\ total \in Nat /\ count \in Nat /\ delta \in Int
  /\ expected \in 0..Samples - 1
  /\ wait \in 0..Larger(RetryDelay, Larger(NextDelay, FinishDelay))
  /\ TotalFits /\ DeltaFits /\ (entered => finished)

LEMMA PartsNext ==
  ASSUME Others', requests' \in Seq(Packets), responses' \in Seq(Packets),
         \A k \in DOMAIN requests' : sinceSent' <= requests'[k].age,
         \A k \in DOMAIN responses' : sinceSent' <= responses'[k].age + MaxLatency
  PROVE  IInv'
  BY SentLastNext DEF Others, IInv, TypeOK

LEMMA Waits ==
  /\ RetryDelay \in 0..Larger(RetryDelay, Larger(NextDelay, FinishDelay))
  /\ NextDelay \in 0..Larger(RetryDelay, Larger(NextDelay, FinishDelay))
  /\ FinishDelay \in 0..Larger(RetryDelay, Larger(NextDelay, FinishDelay))
  /\ Larger(RetryDelay, Larger(NextDelay, FinishDelay)) \in Nat
  BY DelaysAssumption DEF Larger

LEMMA OthersHold == IInv => Others
  BY DEF IInv, TypeOK, Others

\* TotalFits and DeltaFits depend on the measures only.
LEMMA MeasuresUnchanged ==
  ASSUME IInv, UNCHANGED <<offset, measures, expected, finished>>
  PROVE  TotalFits' /\ DeltaFits'
  BY DEF IInv, TotalFits, DeltaFits, DeltaIsBounded, Error, Least, Most, measures

-----------------------------------------------------------------------------
(* The steps that measure nothing *)

LEMMA SendRequestKeeps == IInv /\ SendRequest => IInv'
  <1> SUFFICES ASSUME IInv, SendRequest PROVE IInv'
    OBVIOUS
  <1> DEFINE packet == [id |-> expected, age |-> 0]
  <1>1. /\ requests' = Append(requests, packet) /\ sinceSent' = 0 /\ wait' = RetryDelay
        /\ UNCHANGED <<offset, responses, expected, measures, finished, entered>>
    BY DEF SendRequest
  <1>2. packet \in Packets /\ packet.age = 0
    BY LatencyAssumption DEF Packets, IInv, TypeOK
  <1> HIDE DEF packet
  <1>3. /\ requests \in Seq(Packets) /\ responses \in Seq(Packets)
        /\ \A k \in DOMAIN requests : requests[k].age \in Nat
        /\ \A k \in DOMAIN responses : responses[k].age \in Nat
    BY AgesOfPackets DEF IInv, SentLast
  <1>4. Others'
    BY <1>1, MeasuresUnchanged, OthersHold, Waits DEF Others, measures
  <1>5. requests' \in Seq(Packets) /\ \A k \in DOMAIN requests' : sinceSent' <= requests'[k].age
    BY <1>1, <1>2, <1>3, AppendToPackets
  <1>6. \A k \in DOMAIN responses' : sinceSent' <= responses'[k].age + MaxLatency
    BY <1>1, <1>3, LatencyAssumption
  <1> QED BY <1>1, <1>3, <1>4, <1>5, <1>6, PartsNext

LEMMA EnterArenaKeeps == IInv /\ EnterArena => IInv'
  <1> SUFFICES ASSUME IInv, EnterArena PROVE IInv'
    OBVIOUS
  <1>1. /\ finished /\ entered' = TRUE /\ requests' = <<>> /\ responses' = <<>>
        /\ UNCHANGED <<offset, sinceSent, wait, expected, measures, finished>>
    BY DEF EnterArena
  <1>2. Others'
    BY <1>1, MeasuresUnchanged, OthersHold DEF Others, measures
  <1>3. requests' \in Seq(Packets) /\ responses' \in Seq(Packets)
    BY <1>1
  <1>4. DOMAIN requests' = {} /\ DOMAIN responses' = {}
    BY <1>1
  <1> QED BY <1>2, <1>3, <1>4, PartsNext

\* A packet leaves the network, or an answer the client does not expect.
LEMMA LossKeeps == IInv /\ (OnUnexpected \/ LoseRequest \/ LoseResponse) => IInv'
  <1> SUFFICES ASSUME IInv, OnUnexpected \/ LoseRequest \/ LoseResponse PROVE IInv'
    OBVIOUS
  <1>1. /\ UNCHANGED <<offset, sinceSent, wait, expected, measures, finished, entered>>
        /\ \/ requests # <<>> /\ requests' = Tail(requests) /\ responses' = responses
           \/ responses # <<>> /\ responses' = Tail(responses) /\ requests' = requests
    BY DEF OnUnexpected, LoseRequest, LoseResponse
  <1>2. Others'
    BY <1>1, MeasuresUnchanged, OthersHold DEF Others, measures
  <1>3. CASE requests # <<>> /\ requests' = Tail(requests) /\ responses' = responses
    <2>1. requests' \in Seq(Packets) /\ \A k \in DOMAIN requests' : sinceSent' <= requests'[k].age
      BY <1>1, <1>3, TailOfPackets DEF IInv, SentLast
    <2> QED BY <1>1, <1>2, <1>3, <2>1, PartsNext DEF IInv, SentLast
  <1>4. CASE responses # <<>> /\ responses' = Tail(responses) /\ requests' = requests
    <2>1. /\ responses' \in Seq(Packets)
          /\ \A k \in DOMAIN responses' : sinceSent' <= responses'[k].age + MaxLatency
      BY <1>1, <1>4, TailOfPackets DEF IInv, SentLast
    <2> QED BY <1>1, <1>2, <1>4, <2>1, PartsNext DEF IInv, SentLast
  <1> QED BY <1>1, <1>3, <1>4

LEMMA HandleTimeSyncRequestKeeps == IInv /\ HandleTimeSyncRequest => IInv'
  <1> SUFFICES ASSUME IInv, HandleTimeSyncRequest PROVE IInv'
    OBVIOUS
  <1> DEFINE packet == [id |-> Head(requests).id, age |-> 0]
  <1>1. /\ requests # <<>> /\ requests' = Tail(requests)
        /\ responses' = Append(responses, packet)
        /\ UNCHANGED <<offset, sinceSent, wait, expected, measures, finished, entered>>
    BY DEF HandleTimeSyncRequest
  <1>2. /\ requests \in Seq(Packets) /\ responses \in Seq(Packets) /\ sinceSent \in Nat
        /\ Head(requests) \in Packets /\ sinceSent <= Head(requests).age
    BY <1>1, TailOfPackets DEF IInv, SentLast, TypeOK
  <1>3. packet \in Packets /\ packet.age = 0
    BY <1>2, LatencyAssumption DEF Packets
  <1>4. sinceSent <= packet.age + MaxLatency
    BY <1>2, <1>3, AgesOfPackets, LatencyAssumption
  <1> HIDE DEF packet
  <1>5. Others'
    BY <1>1, MeasuresUnchanged, OthersHold DEF Others, measures
  <1>6. requests' \in Seq(Packets) /\ \A k \in DOMAIN requests' : sinceSent' <= requests'[k].age
    BY <1>1, <1>2, TailOfPackets DEF IInv, SentLast
  <1>7. /\ responses' \in Seq(Packets)
        /\ \A k \in DOMAIN responses' : sinceSent' <= responses'[k].age + MaxLatency
    BY <1>1, <1>2, <1>3, <1>4, AppendToPackets DEF IInv, SentLast
  <1> QED BY <1>5, <1>6, <1>7, PartsNext

\* All ages grow together; what stops counting only lags behind.
LEMMA PassKeeps == IInv /\ Pass => IInv'
  <1> SUFFICES ASSUME IInv, Pass PROVE IInv'
    OBVIOUS
  <1>1. /\ wait # 0 /\ MayWait(requests) /\ MayWait(responses)
        /\ requests' = Aged(requests) /\ responses' = Aged(responses)
        /\ sinceSent' \in {sinceSent, sinceSent + 1}
        /\ wait' = IF wait > 0 THEN wait - 1 ELSE wait
        /\ UNCHANGED <<offset, expected, measures, finished, entered>>
    BY DEF Pass
  <1>2. /\ requests \in Seq(Packets) /\ responses \in Seq(Packets)
        /\ sinceSent \in Nat /\ sinceSent' \in Nat /\ sinceSent' <= sinceSent + 1
        /\ \A k \in DOMAIN requests :
             requests[k].age \in Nat /\ sinceSent <= requests[k].age
        /\ \A k \in DOMAIN responses :
             responses[k].age \in Nat /\ sinceSent <= responses[k].age + MaxLatency
    BY <1>1, AgesOfPackets DEF IInv, SentLast, TypeOK
  <1>3. wait' \in 0..Larger(RetryDelay, Larger(NextDelay, FinishDelay))
    BY <1>1, Waits DEF IInv, TypeOK
  <1>4. Others'
    BY <1>1, <1>2, <1>3, MeasuresUnchanged, OthersHold DEF Others, measures
  <1>5. requests' \in Seq(Packets) /\ \A k \in DOMAIN requests' : sinceSent' <= requests'[k].age
    BY <1>1, <1>2, AgedPackets
  <1>6. /\ responses' \in Seq(Packets)
        /\ \A k \in DOMAIN responses' : sinceSent' <= responses'[k].age + MaxLatency
    BY <1>1, <1>2, AgedPackets, LatencyAssumption
  <1> QED BY <1>4, <1>5, <1>6, PartsNext
-----------------------------------------------------------------------------
(* The step that measures *)

\* One answer is within the bounds its sign gives: the ping added to it is
\* that of the last request, sent before the answer's by a latency at most.
LEMMA OneAnswer ==
  ASSUME NEW age \in 0..MaxLatency, NEW since \in Nat, since <= age + MaxLatency,
         NEW off \in Int
  PROVE  LET diff == Abs(off - age) + since \div 2
         IN  /\ diff \in Nat
             /\ off - age >= 0 =>
                  off - MaxLatency <= diff /\ diff <= off + MaxLatency \div 2
             /\ off - age < 0 => -off <= diff /\ diff <= 2 * MaxLatency - off
  <1> DEFINE h == since \div 2  m == MaxLatency \div 2
  <1>1. h \in Nat /\ 2 * h <= since
    BY Halves
  <1>2. m \in Nat /\ MaxLatency < 2 * m + 2
    BY Halves, LatencyAssumption
  <1>3. age \in Nat /\ age <= MaxLatency /\ MaxLatency \in Nat
    BY LatencyAssumption
  <1> HIDE DEF h, m
  <1>4. CASE off - age >= 0
    <2>1. Abs(off - age) = off - age
      BY <1>3, <1>4 DEF Abs
    <2>2. h - age <= m
      BY <1>1, <1>2, <1>3
    <2> QED BY <1>1, <1>2, <1>3, <1>4, <2>1, <2>2 DEF h, m
  <1>5. CASE off - age < 0
    <2>1. Abs(off - age) = age - off
      BY <1>3, <1>5 DEF Abs
    <2>2. h <= MaxLatency
      BY <1>1, <1>3
    <2> QED BY <1>1, <1>3, <1>5, <2>1, <2>2 DEF h
  <1> QED BY <1>3, <1>4, <1>5

LEMMA AnswerFits ==
  ASSUME IInv, responses # <<>>
  PROVE  LET response == Head(responses)
         IN  /\ Diff(response) \in Nat
             /\ YoungerThanServer(response) \in BOOLEAN
             /\ YoungerThanServer(response) =>
                  /\ offset - MaxLatency <= Diff(response)
                  /\ Diff(response) <= offset + MaxLatency \div 2
             /\ ~YoungerThanServer(response) =>
                  -offset <= Diff(response) /\ Diff(response) <= 2 * MaxLatency - offset
  <1> DEFINE response == Head(responses)
  <1>1. response \in Packets /\ sinceSent <= response.age + MaxLatency /\ sinceSent \in Nat
    BY TailOfPackets DEF IInv, SentLast, TypeOK
  <1>2. response.age \in 0..MaxLatency /\ offset \in Int
    BY <1>1, BoundsAreIntegers DEF Packets, IInv
  <1> HIDE DEF response
  <1>3. offset - response.age >= 0 \/ offset - response.age < 0
    BY <1>2, LatencyAssumption
  <1>4. Diff(response) = Abs(offset - response.age) + sinceSent \div 2
    BY DEF Diff, Difference
  <1>5. YoungerThanServer(response) <=> offset - response.age >= 0
    BY DEF YoungerThanServer, Difference
  <1>6. ~YoungerThanServer(response) => offset - response.age < 0
    BY <1>3, <1>5
  <1>7. YoungerThanServer(response) \in BOOLEAN
    BY DEF YoungerThanServer
  <1> QED BY <1>1, <1>2, <1>4, <1>5, <1>6, <1>7, OneAnswer DEF response

LEMMA RestartKeeps ==
  ASSUME IInv, Restart, UNCHANGED <<offset, entered>>, sinceSent' \in Nat
  PROVE  Others'
  <1>1. /\ expected' = 0 /\ wait' = RetryDelay /\ total' = 0 /\ count' = 0
        /\ younger' = younger /\ delta' = delta /\ finished' = finished
    BY DEF Restart
  <1>2. TotalFits'
    <2>1. Least' = Least /\ Most' = Most /\ Least \in Int /\ Most \in Int
      BY <1>1, BoundsAreIntegers DEF Least, Most, IInv
    <2>2. 0 * Least = 0 /\ 0 * Most = 0
      BY <2>1
    <2> QED BY <1>1, <2>1, <2>2, SamplesAssumption DEF TotalFits
  <1>3. DeltaFits'
    BY <1>1 DEF IInv, DeltaFits, DeltaIsBounded, Error
  <1>4. 0 \in 0..Samples - 1
    BY SamplesAssumption
  <1> QED BY <1>1, <1>2, <1>3, <1>4, Waits DEF Others, IInv, TypeOK

\* The mean of answers within the bounds gives a delta within its own.
LEMMA DeltaOfMean ==
  ASSUME NEW off \in Int, NEW mean \in Int, NEW isYounger \in BOOLEAN,
         isYounger => off - MaxLatency <= mean /\ mean <= off + MaxLatency \div 2,
         ~isYounger => -off <= mean /\ mean <= 2 * MaxLatency - off
  PROVE  LET d == DeltaOf(isYounger, mean)
         IN  /\ d \in Int
             /\ d - off <= MaxLatency \div 2 /\ d - off >= -(2 * MaxLatency + 1)
  <1>1. MaxLatency \in Nat /\ MaxLatency \div 2 \in Nat
    BY LatencyAssumption, Halves
  <1>2. CASE isYounger
    <2>1. DeltaOf(isYounger, mean) = mean
      BY <1>2 DEF DeltaOf
    <2>2. off - MaxLatency <= mean /\ mean <= off + MaxLatency \div 2
      BY <1>2
    <2>3. mean - off <= MaxLatency \div 2 /\ mean - off >= -(2 * MaxLatency + 1)
      BY <1>1, <2>2
    <2> QED BY <2>1, <2>3
  <1>3. CASE ~isYounger
    <2>1. DeltaOf(isYounger, mean) = -1 - mean
      BY <1>3 DEF DeltaOf
    <2>2. -off <= mean /\ mean <= 2 * MaxLatency - off
      BY <1>3
    <2>3. -1 - mean - off <= MaxLatency \div 2 /\ -1 - mean - off >= -(2 * MaxLatency + 1)
          /\ -1 - mean \in Int
      BY <1>1, <2>2
    <2> QED BY <1>1, <2>1, <2>3
  <1> QED BY <1>2, <1>3

LEMMA MeasureKeeps ==
  ASSUME IInv, responses # <<>>,
         expected = 0 \/ YoungerThanServer(Head(responses)) = younger,
         Measure(Head(responses)), UNCHANGED <<offset, entered>>, sinceSent' \in Nat
  PROVE  Others'
  <1> DEFINE diff == Diff(Head(responses))  is == YoungerThanServer(Head(responses))
  <1>1. /\ younger' = is /\ total' = total + diff /\ count' = count + 1
        /\ offset' = offset /\ entered' = entered
    BY DEF Measure
  <1>2. /\ offset \in Int /\ total \in Nat /\ count \in Nat /\ delta \in Int
        /\ expected \in 0..Samples - 1 /\ finished \in BOOLEAN /\ younger \in BOOLEAN
        /\ Least \in Int /\ Most \in Int /\ offset \in Offsets /\ entered \in BOOLEAN
    BY BoundsAreIntegers DEF IInv, TypeOK
  <1>3. diff \in Nat /\ is \in BOOLEAN
    BY AnswerFits
  <1>4. Least' \in Int /\ Most' \in Int /\ Least' <= diff /\ diff <= Most'
    <2>1. CASE is
      <3>1. Least' = offset - MaxLatency /\ Most' = offset + MaxLatency \div 2
        BY <1>1, <2>1 DEF Least, Most
      <3> QED BY <1>2, <2>1, <3>1, AnswerFits, LatencyAssumption, Halves
    <2>2. CASE ~is
      <3>1. Least' = -offset /\ Most' = 2 * MaxLatency - offset
        BY <1>1, <2>2 DEF Least, Most
      <3> QED BY <1>2, <2>2, <3>1, AnswerFits, LatencyAssumption
    <2> QED BY <2>1, <2>2
  <1> HIDE DEF diff, is
  \* What was counted before fits the sign of this answer too.
  <1>5. count * Least' <= total /\ total <= count * Most'
    <2>1. CASE count = 0
      <3>1. \A x \in Int : 0 * x = 0
        OBVIOUS
      <3>2. count * Least' = 0 /\ count * Most' = 0
        BY <1>4, <2>1, <3>1
      <3>3. total = 0
        BY <2>1 DEF IInv, TotalFits
      <3> QED BY <3>2, <3>3
    <2>2. CASE count # 0
      <3>1. expected # 0
        BY <1>2, <2>2, SamplesAssumption DEF IInv, TotalFits
      <3>2. younger' = younger
        BY <1>1, <3>1 DEF is
      <3>3. Least' = Least /\ Most' = Most
        BY <1>1, <3>2 DEF Least, Most
      <3> QED BY <3>3 DEF IInv, TotalFits
    <2> QED BY <2>1, <2>2
  <1>6. count' * Least' <= total' /\ total' <= count' * Most'
    <2> DEFINE least == Least'  most == Most'
    <2>1. least \in Int /\ most \in Int /\ least <= diff /\ diff <= most
          /\ count * least <= total /\ total <= count * most
      BY <1>4, <1>5
    <2> HIDE DEF least, most
    <2>2. (count + 1) * least = count * least + least /\ count * least \in Int
      BY <1>2, <2>1, Product
    <2>3. (count + 1) * most = count * most + most /\ count * most \in Int
      BY <1>2, <2>1, Product
    <2>4. (count + 1) * least <= total + diff /\ total + diff <= (count + 1) * most
      BY <1>2, <1>3, <2>1, <2>2, <2>3
    <2> QED BY <1>1, <2>4 DEF least, most
  <1>7. total' \in Nat /\ count' \in Nat /\ count' > 0
    BY <1>1, <1>2, <1>3
  <1>8. CASE count' >= Samples
    <2> DEFINE mean == total' \div count'
    <2>1. /\ delta' = DeltaOf(younger', mean) /\ finished' = TRUE
          /\ wait' = FinishDelay /\ expected' = expected
      BY <1>8 DEF Measure
    <2>2. mean \in Int /\ Least' <= mean /\ mean <= Most'
      BY <1>4, <1>6, <1>7, MeanIsBetween
    <2> HIDE DEF mean
    <2>3. /\ younger' \in BOOLEAN
          /\ younger' => offset - MaxLatency <= mean /\ mean <= offset + MaxLatency \div 2
          /\ ~younger' => -offset <= mean /\ mean <= 2 * MaxLatency - offset
      BY <1>1, <1>3, <2>2 DEF Least, Most
    <2>4. /\ delta' \in Int /\ delta' - offset <= MaxLatency \div 2
          /\ delta' - offset >= -(2 * MaxLatency + 1)
      BY <1>2, <2>1, <2>2, <2>3, DeltaOfMean
    <2>5. DeltaFits'
      BY <1>1, <2>4 DEF DeltaFits, DeltaIsBounded, Error
    <2>6. expected' = IF count' < Samples THEN count' ELSE Samples - 1
      BY <1>1, <1>2, <1>8, <2>1, SamplesAssumption DEF IInv, TotalFits
    <2>7. TotalFits'
      BY <1>6, <1>7, <2>6 DEF TotalFits
    <2> QED BY <1>1, <1>2, <1>7, <2>1, <2>3, <2>4, <2>5, <2>7, Waits DEF Others
  <1>9. CASE ~(count' >= Samples)
    <2>1. /\ wait' = NextDelay /\ expected' = expected + 1
          /\ delta' = delta /\ finished' = finished
      BY <1>9 DEF Measure
    <2>2. count' < Samples
      BY <1>7, <1>9, SamplesAssumption
    <2>3. expected = count
      BY <1>1, <1>2, <2>2, SamplesAssumption DEF IInv, TotalFits
    <2>4. expected' = count' /\ expected' \in 0..Samples - 1
      BY <1>1, <1>2, <2>1, <2>2, <2>3, SamplesAssumption
    <2>5. TotalFits'
      BY <1>6, <1>7, <2>2, <2>4 DEF TotalFits
    <2>6. DeltaFits'
      BY <1>1, <2>1 DEF IInv, DeltaFits, DeltaIsBounded, Error
    <2>7. younger' \in BOOLEAN
      BY <1>1, <1>3
    <2>8. entered' => finished'
      BY <1>1, <2>1 DEF IInv
    <2> QED BY <1>1, <1>2, <1>7, <2>1, <2>4, <2>5, <2>6, <2>7, <2>8, Waits DEF Others
  <1> QED BY <1>8, <1>9

LEMMA OnExpectedKeeps == IInv /\ OnExpected => IInv'
  <1> SUFFICES ASSUME IInv, OnExpected PROVE IInv'
    OBVIOUS
  <1>1. /\ responses # <<>> /\ responses' = Tail(responses) /\ requests' = requests
        /\ sinceSent' = sinceSent /\ UNCHANGED <<offset, entered>>
        /\ IF expected # 0 /\ YoungerThanServer(Head(responses)) # younger
             THEN Restart ELSE Measure(Head(responses))
    BY DEF OnExpected
  <1>2. sinceSent' \in Nat
    BY <1>1 DEF IInv, TypeOK
  <1>3. Others'
    <2>1. CASE expected # 0 /\ YoungerThanServer(Head(responses)) # younger
      BY <1>1, <1>2, <2>1, RestartKeeps
    <2>2. CASE ~(expected # 0 /\ YoungerThanServer(Head(responses)) # younger)
      BY <1>1, <1>2, <2>2, MeasureKeeps
    <2> QED BY <2>1, <2>2
  <1>4. requests' \in Seq(Packets) /\ \A k \in DOMAIN requests' : sinceSent' <= requests'[k].age
    BY <1>1 DEF IInv, SentLast
  <1>5. /\ responses' \in Seq(Packets)
        /\ \A k \in DOMAIN responses' : sinceSent' <= responses'[k].age + MaxLatency
    BY <1>1, TailOfPackets DEF IInv, SentLast
  <1> QED BY <1>3, <1>4, <1>5, PartsNext

-----------------------------------------------------------------------------
(* The invariant *)

LEMMA InitInvariant == Init => IInv
  <1> SUFFICES ASSUME Init PROVE IInv
    OBVIOUS
  <1>1. /\ offset \in Offsets /\ requests = <<>> /\ responses = <<>>
        /\ sinceSent = 0 /\ wait = NextDelay /\ expected = 0
        /\ younger = FALSE /\ total = 0 /\ count = 0 /\ finished = FALSE
        /\ delta = 0 /\ entered = FALSE
    BY DEF Init
  <1>2. 0 \in 0..Samples - 1
    BY SamplesAssumption
  <1>3. /\ requests \in Seq(Packets) /\ responses \in Seq(Packets)
        /\ DOMAIN requests = {} /\ DOMAIN responses = {}
    BY <1>1
  <1>4. SentLast
    BY <1>3 DEF SentLast
  <1>5. TypeOK
    <2>1. \A packets \in {requests, responses} : DOMAIN packets = {}
      BY <1>3
    <2>2. wait \in 0..Larger(RetryDelay, Larger(NextDelay, FinishDelay)) /\ delta \in Int
      BY <1>1, Waits
    <2> QED BY <1>1, <1>2, <2>1, <2>2 DEF TypeOK
  <1>6. TotalFits
    <2>1. Least \in Int /\ Most \in Int
      BY <1>5, BoundsAreIntegers
    <2>2. 0 * Least = 0 /\ 0 * Most = 0
      BY <2>1
    <2> QED BY <1>1, <2>2, SamplesAssumption DEF TotalFits
  <1> QED BY <1>1, <1>4, <1>5, <1>6 DEF IInv, DeltaFits

LEMMA StepInvariant == IInv /\ [Next]_vars => IInv'
  <1> SUFFICES ASSUME IInv, [Next]_vars PROVE IInv'
    OBVIOUS
  <1>1. CASE SendRequest
    BY <1>1, SendRequestKeeps
  <1>2. CASE EnterArena
    BY <1>2, EnterArenaKeeps
  <1>3. CASE OnExpected
    BY <1>3, OnExpectedKeeps
  <1>4. CASE OnUnexpected \/ LoseRequest \/ LoseResponse
    BY <1>4, LossKeeps
  <1>5. CASE HandleTimeSyncRequest
    BY <1>5, HandleTimeSyncRequestKeeps
  <1>6. CASE Pass
    BY <1>6, PassKeeps
  <1>7. CASE UNCHANGED vars
    <2>1. Others'
      BY <1>7, MeasuresUnchanged, OthersHold DEF Others, vars, measures
    <2>2. requests' = requests /\ responses' = responses /\ sinceSent' = sinceSent
      BY <1>7 DEF vars, network
    <2> QED BY <2>1, <2>2, PartsNext DEF IInv, SentLast
  <1> QED BY <1>1, <1>2, <1>3, <1>4, <1>5, <1>6, <1>7 DEF Next

\* The strengthening of the properties below: what packets, counts and sums
\* are in relation to each other while the client measures.
THEOREM Invariant == Spec => []IInv
  <1> QED BY InitInvariant, StepInvariant, PTL DEF Spec

\* The variables keep their types: in particular the request expected is
\* always one of the Samples that are counted.
THEOREM TypeCorrect == Spec => []TypeOK
  <1>1. IInv => TypeOK
    BY DEF IInv
  <1> QED BY <1>1, Invariant, PTL

\* A client that enters an arena estimates the server's time no more than half
\* a latency ahead and two latencies and a unit behind, whatever the clocks,
\* the answers lost and the requests repeated.
THEOREM BoundedEstimate == Spec => []EstimateIsBounded
  <1>1. IInv => EstimateIsBounded
    BY DEF IInv, DeltaFits, DeltaIsBounded, EstimateIsBounded
  <1> QED BY <1>1, Invariant, PTL
=============================================================================
