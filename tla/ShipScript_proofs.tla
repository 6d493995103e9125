-------------------------- MODULE ShipScript_proofs --------------------------
(***************************************************************************)
(* Theorems of ShipScript, for any set of objects, any period of the ticks *)
(* and any bound of the queue: the types, that a unique event is queued    *)
(* once, exactly when the core says so, and that OnStart is told first.    *)
(*                                                                         *)
(* The inductive invariant says which position a unique event has instead  *)
(* of how many (Once), and that until the ship's script was started the    *)
(* event that starts it is the next to be told (StartWaits): events pushed *)
(* before are fresh, so they stay in front of it, and no tick is due.      *)
(***************************************************************************)
EXTENDS ShipScript, FiniteSetTheorems, TLAPS

Events ==
  [event : Unique \cup {"OnRadarNewObjectInRange", "OnCommunicationReceivedMessages"},
   about : Objects \cup {"ship", "target", "mail"}, fresh : BOOLEAN]

\* An event of that name is at one position of q, if there is one.
Once(q, name, there) ==
  IF there
    THEN \E k \in DOMAIN q :
           q[k].event = name /\ \A j \in DOMAIN q : q[j].event = name => j = k
    ELSE \A k \in DOMAIN q : q[k].event # name

StartWaits(q) == q # <<>> /\ ~q[Len(q)].fresh /\ q[Len(q)].event = "OnStart"

QueueFits(q, names) ==
  /\ q \in Seq(Events)
  /\ \A name \in Unique : Once(q, name, name \in names)

IInv ==
  /\ TypeOK /\ ~broken
  /\ QueueFits(queue, pushed)
  /\ started <=> "OnStart" \notin pushed
  /\ ~started => StartWaits(queue) /\ ticks = 0 /\ told = Nothing

-----------------------------------------------------------------------------
(* Sequences *)

LEMMA Joined ==
  ASSUME NEW S, NEW x \in Seq(S), NEW y \in Seq(S)
  PROVE  /\ x \o y \in Seq(S) /\ Len(x \o y) = Len(x) + Len(y)
         /\ Len(x) \in Nat /\ Len(y) \in Nat
         /\ \A k \in 1..Len(x) : (x \o y)[k] = x[k]
         /\ \A k \in Len(x) + 1..Len(x) + Len(y) : (x \o y)[k] = y[k - Len(x)]
  OBVIOUS

Splice(q, n, p) == SubSeq(q, 1, n) \o p \o SubSeq(q, n + 1, Len(q))

LEMMA Spliced ==
  ASSUME NEW S, NEW q \in Seq(S), NEW p \in Seq(S), NEW n \in Nat, n <= Len(q)
  PROVE  /\ Splice(q, n, p) \in Seq(S) /\ Len(Splice(q, n, p)) = Len(q) + Len(p)
         /\ \A k \in 1..Len(Splice(q, n, p)) :
              /\ k <= n => Splice(q, n, p)[k] = q[k]
              /\ n < k /\ k <= n + Len(p) => Splice(q, n, p)[k] = p[k - n]
              /\ n + Len(p) < k => Splice(q, n, p)[k] = q[k - Len(p)]
  <1> DEFINE a == SubSeq(q, 1, n)  c == SubSeq(q, n + 1, Len(q))
  <1>1. a \in Seq(S) /\ Len(a) = n /\ \A k \in 1..n : a[k] = q[k]
    OBVIOUS
  <1>2. c \in Seq(S) /\ Len(c) = Len(q) - n /\ \A k \in 1..Len(q) - n : c[k] = q[n + k]
    OBVIOUS
  <1> HIDE DEF a, c
  <1>3. /\ a \o p \in Seq(S) /\ Len(a \o p) = n + Len(p)
        /\ \A k \in 1..n : (a \o p)[k] = q[k]
        /\ \A k \in n + 1..n + Len(p) : (a \o p)[k] = p[k - n]
    BY <1>1
  <1> DEFINE b == a \o p  s == b \o c
  <1>4. b \in Seq(S) /\ Len(b) = n + Len(p) /\ Len(p) \in Nat /\ Len(q) \in Nat
    BY <1>3
  <1> HIDE DEF b
  <1>5. /\ s \in Seq(S) /\ Len(s) = Len(q) + Len(p)
        /\ \A k \in 1..n + Len(p) : s[k] = b[k]
        /\ \A k \in n + Len(p) + 1..Len(s) : s[k] = c[k - (n + Len(p))]
    <2>1. /\ s \in Seq(S) /\ Len(s) = Len(b) + Len(c)
          /\ \A k \in 1..Len(b) : s[k] = b[k]
          /\ \A k \in Len(b) + 1..Len(b) + Len(c) : s[k] = c[k - Len(b)]
      <3>1. b \in Seq(S) /\ c \in Seq(S)
        BY <1>2, <1>4
      <3> QED BY <3>1, Joined, Zenon
    <2> HIDE DEF s
    <2>2. Len(b) + Len(c) = Len(q) + Len(p)
      BY <1>2, <1>4
    <2> QED BY <1>4, <2>1, <2>2
  <1> HIDE DEF s
  <1>6. ASSUME NEW k \in 1..Len(s)
        PROVE  /\ k <= n => s[k] = q[k]
               /\ n < k /\ k <= n + Len(p) => s[k] = p[k - n]
               /\ n + Len(p) < k => s[k] = q[k - Len(p)]
    <2>1. CASE k <= n
      BY <1>3, <1>4, <1>5, <2>1 DEF b
    <2>2. CASE n < k /\ k <= n + Len(p)
      BY <1>3, <1>4, <1>5, <2>2 DEF b
    <2>3. CASE n + Len(p) < k
      <3>1. s[k] = c[k - (n + Len(p))] /\ k - (n + Len(p)) \in 1..Len(q) - n
        BY <1>4, <1>5, <2>3
      <3>2. c[k - (n + Len(p))] = q[n + (k - (n + Len(p)))]
        BY <1>2, <3>1
      <3>3. n + (k - (n + Len(p))) = k - Len(p)
        BY <1>4
      <3> QED BY <1>4, <2>3, <3>1, <3>2, <3>3
    <2> QED BY <1>4, <2>1, <2>2, <2>3
  <1>7. Splice(q, n, p) = s
    BY DEF Splice, s, b, a, c
  <1> QED BY <1>5, <1>6, <1>7

LEMMA Removed ==
  ASSUME NEW S, NEW q \in Seq(S), NEW k \in DOMAIN q
  PROVE  /\ RemoveAt(q, k) \in Seq(S) /\ Len(RemoveAt(q, k)) = Len(q) - 1
         /\ \A j \in 1..Len(q) - 1 :
              RemoveAt(q, k)[j] = IF j < k THEN q[j] ELSE q[j + 1]
  <1> DEFINE a == SubSeq(q, 1, k - 1)  c == SubSeq(q, k + 1, Len(q))
  <1>0. k \in Nat /\ k >= 1 /\ k <= Len(q) /\ Len(q) \in Nat
    OBVIOUS
  <1>1. a \in Seq(S) /\ Len(a) = k - 1 /\ \A j \in 1..k - 1 : a[j] = q[j]
    BY <1>0
  <1>2. c \in Seq(S) /\ Len(c) = Len(q) - k /\ \A j \in 1..Len(q) - k : c[j] = q[k + j]
    BY <1>0
  <1> HIDE DEF a, c
  <1> DEFINE s == a \o c
  <1>3. /\ s \in Seq(S) /\ Len(s) = Len(q) - 1
        /\ \A j \in 1..k - 1 : s[j] = a[j]
        /\ \A j \in k..Len(q) - 1 : s[j] = c[j - (k - 1)]
    BY <1>0, <1>1, <1>2
  <1> HIDE DEF s
  <1>4. ASSUME NEW j \in 1..Len(q) - 1
        PROVE  s[j] = IF j < k THEN q[j] ELSE q[j + 1]
    <2>1. CASE j < k
      BY <1>0, <1>1, <1>3, <2>1
    <2>2. CASE ~(j < k)
      <3>1. s[j] = c[j - (k - 1)] /\ j - (k - 1) \in 1..Len(q) - k
        BY <1>0, <1>3, <2>2
      <3>2. c[j - (k - 1)] = q[k + (j - (k - 1))] /\ k + (j - (k - 1)) = j + 1
        BY <1>0, <1>2, <3>1
      <3> QED BY <2>2, <3>1, <3>2
    <2> QED BY <2>1, <2>2
  <1>5. RemoveAt(q, k) = s
    BY DEF RemoveAt, s, a, c
  <1> QED BY <1>3, <1>4, <1>5

LEMMA Fronted ==
  ASSUME NEW S, NEW q \in Seq(S), q # <<>>
  PROVE  /\ Front(q) \in Seq(S) /\ Len(Front(q)) = Len(q) - 1 /\ Len(q) \in Nat \ {0}
         /\ \A k \in 1..Len(q) - 1 : Front(q)[k] = q[k]
         /\ Last(q) = q[Len(q)] /\ Last(q) \in S
  BY DEF Front, Last

-----------------------------------------------------------------------------
(* The queue *)

\* The fresh events are not all of a queue that still has the event that starts.
LEMMA FreshCount ==
  ASSUME NEW q \in Seq(Events)
  PROVE  /\ FreshIn(q) \in Nat /\ FreshIn(q) <= Len(q)
         /\ StartWaits(q) => FreshIn(q) < Len(q)
  <1> DEFINE F == {k \in DOMAIN q : q[k].fresh}
  <1>0. Len(q) \in Nat /\ DOMAIN q = 1..Len(q)
    OBVIOUS
  <1>1. F \subseteq 1..Len(q)
    BY <1>0
  <1>2. StartWaits(q) => F \subseteq 1..Len(q) - 1
    BY <1>0 DEF StartWaits
  <1> HIDE DEF F
  <1>3. \A n \in Nat : IsFiniteSet(1..n) /\ Cardinality(1..n) = n
    <2> SUFFICES ASSUME NEW n \in Nat PROVE IsFiniteSet(1..n) /\ Cardinality(1..n) = n
      OBVIOUS
    <2>1. IsFiniteSet(1..n) /\ Cardinality(1..n) = IF 1 > n THEN 0 ELSE n - 1 + 1
      BY FS_Interval
    <2> QED BY <2>1
  <1>4. Cardinality(F) \in Nat /\ Cardinality(F) <= Len(q)
    <2>1. IsFiniteSet(1..Len(q)) /\ Cardinality(1..Len(q)) = Len(q)
      BY <1>0, <1>3
    <2>2. IsFiniteSet(F) /\ Cardinality(F) <= Cardinality(1..Len(q))
      BY <1>1, <2>1, FS_Subset
    <2> QED BY <2>1, <2>2, FS_CardinalityType
  <1>5. ASSUME StartWaits(q) PROVE Cardinality(F) < Len(q)
    <2>1. Len(q) - 1 \in Nat
      BY <1>0, <1>5 DEF StartWaits
    <2>2. Cardinality(F) <= Len(q) - 1
      BY <1>2, <1>3, <1>5, <2>1, FS_Subset, FS_CardinalityType
    <2> QED BY <1>0, <1>4, <2>2
  <1> QED BY <1>4, <1>5 DEF FreshIn, F
\* Spliced, by where an index of the result comes from and where others go.
LEMMA SplicedEvents ==
  ASSUME NEW q \in Seq(Events), NEW p \in Seq(Events), NEW n \in Nat, n <= Len(q)
  PROVE  /\ Splice(q, n, p) \in Seq(Events) /\ Len(Splice(q, n, p)) = Len(q) + Len(p)
         /\ Len(q) \in Nat /\ Len(p) \in Nat
         /\ DOMAIN Splice(q, n, p) = 1..Len(q) + Len(p) /\ DOMAIN q = 1..Len(q) /\ DOMAIN p = 1..Len(p)
         /\ \A k \in 1..Len(q) + Len(p) :
              /\ k <= n => Splice(q, n, p)[k] = q[k]
              /\ n < k /\ k <= n + Len(p) => Splice(q, n, p)[k] = p[k - n]
              /\ n + Len(p) < k => Splice(q, n, p)[k] = q[k - Len(p)]
  <1>1. /\ Splice(q, n, p) \in Seq(Events) /\ Len(Splice(q, n, p)) = Len(q) + Len(p)
        /\ \A k \in 1..Len(q) + Len(p) :
              /\ k <= n => Splice(q, n, p)[k] = q[k]
              /\ n < k /\ k <= n + Len(p) => Splice(q, n, p)[k] = p[k - n]
              /\ n + Len(p) < k => Splice(q, n, p)[k] = q[k - Len(p)]
    <2> DEFINE s == Splice(q, n, p)
    <2>1. /\ s \in Seq(Events) /\ Len(s) = Len(q) + Len(p)
          /\ \A k \in 1..Len(s) :
               /\ k <= n => s[k] = q[k]
               /\ n < k /\ k <= n + Len(p) => s[k] = p[k - n]
               /\ n + Len(p) < k => s[k] = q[k - Len(p)]
      BY Spliced, SMTT(30)
    <2> HIDE DEF s
    <2>2. 1..Len(s) = 1..Len(q) + Len(p)
      BY <2>1
    <2>3. \A k \in 1..Len(q) + Len(p) :
               /\ k <= n => s[k] = q[k]
               /\ n < k /\ k <= n + Len(p) => s[k] = p[k - n]
               /\ n + Len(p) < k => s[k] = q[k - Len(p)]
      BY <2>1, <2>2, Zenon
    <2> QED BY <2>1, <2>3 DEF s
  <1>2. DOMAIN Splice(q, n, p) = 1..Len(Splice(q, n, p))
    BY <1>1
  <1> QED BY <1>1, <1>2

LEMMA SplicedType ==
  ASSUME NEW q \in Seq(Events), NEW p \in Seq(Events), NEW n \in Nat, n <= Len(q)
  PROVE  Splice(q, n, p) \in Seq(Events) /\ Len(Splice(q, n, p)) = Len(q) + Len(p)
  BY SplicedEvents, Zenon

\* Events of other names change nothing to what is once.
LEMMA OnceSpliced ==
  ASSUME NEW q \in Seq(Events), NEW p \in Seq(Events), NEW n \in Nat, n <= Len(q),
         NEW name, NEW there \in BOOLEAN, Once(q, name, there),
         \A k \in DOMAIN p : p[k].event # name
  PROVE  Once(Splice(q, n, p), name, there)
  <1> DEFINE s == Splice(q, n, p)
  <1>1. /\ Len(q) \in Nat /\ Len(p) \in Nat
        /\ DOMAIN s = 1..Len(q) + Len(p) /\ DOMAIN q = 1..Len(q) /\ DOMAIN p = 1..Len(p)
        /\ \A k \in 1..Len(q) + Len(p) :
              /\ k <= n => s[k] = q[k]
              /\ n < k /\ k <= n + Len(p) => s[k] = p[k - n]
              /\ n + Len(p) < k => s[k] = q[k - Len(p)]
    BY SplicedEvents
  <1> HIDE DEF s
  \* Where an event of that name comes from.
  <1>2. ASSUME NEW j \in DOMAIN s, s[j].event = name
        PROVE  \/ j <= n /\ j \in DOMAIN q /\ q[j].event = name
               \/ n + Len(p) < j /\ j - Len(p) \in DOMAIN q /\ q[j - Len(p)].event = name
    <2>1. j \in Nat /\ j >= 1 /\ j <= Len(q) + Len(p)
      BY <1>1
    <2>2. CASE j <= n
      BY <1>1, <1>2, <2>1, <2>2
    <2>3. CASE n < j /\ j <= n + Len(p)
      <3>1. j - n \in DOMAIN p
        BY <1>1, <2>1, <2>3
      <3> QED BY <1>1, <1>2, <2>3, <3>1
    <2>4. CASE n + Len(p) < j
      <3>1. j - Len(p) \in DOMAIN q
        BY <1>1, <2>1, <2>4
      <3> QED BY <1>1, <1>2, <2>4, <3>1
    <2> QED BY <1>1, <2>1, <2>2, <2>3, <2>4
  <1>3. CASE ~there
    BY <1>2, <1>3 DEF Once, s
  <1>4. CASE there
    <2>1. PICK k \in DOMAIN q : q[k].event = name /\ \A j \in DOMAIN q : q[j].event = name => j = k
      BY <1>4 DEF Once
    <2> DEFINE i == IF k <= n THEN k ELSE k + Len(p)
    <2>2. i \in DOMAIN s /\ s[i].event = name
      <3>1. CASE k <= n
        BY <1>1, <2>1, <3>1
      <3>2. CASE ~(k <= n)
        <4>1. k + Len(p) \in DOMAIN s /\ n + Len(p) < k + Len(p) /\ (k + Len(p)) - Len(p) = k
          BY <1>1, <3>2
        <4> QED BY <1>1, <2>1, <3>2, <4>1
      <3> QED BY <3>1, <3>2
    <2>3. \A j \in DOMAIN s : s[j].event = name => j = i
      <3> SUFFICES ASSUME NEW j \in DOMAIN s, s[j].event = name PROVE j = i
        OBVIOUS
      <3>1. \/ j <= n /\ j = k
            \/ n + Len(p) < j /\ j - Len(p) = k
        BY <1>2, <2>1
      <3> QED BY <1>1, <3>1
    <2> HIDE DEF i
    <2> QED BY <1>4, <2>2, <2>3 DEF Once, s
  <1> QED BY <1>3, <1>4

\* One event of a name that was not there is there once.
LEMMA OnceAdded ==
  ASSUME NEW q \in Seq(Events), NEW e \in Events, NEW n \in Nat, n <= Len(q),
         Once(q, e.event, FALSE)
  PROVE  Once(Splice(q, n, <<e>>), e.event, TRUE)
  <1> DEFINE p == <<e>>  s == Splice(q, n, p)
  <1>1. p \in Seq(Events) /\ Len(p) = 1 /\ p[1] = e
    OBVIOUS
  <1> HIDE DEF p
  <1>2. /\ Len(q) \in Nat /\ DOMAIN s = 1..Len(q) + 1 /\ DOMAIN q = 1..Len(q)
        /\ \A k \in 1..Len(q) + 1 :
              /\ k <= n => s[k] = q[k]
              /\ n < k /\ k <= n + 1 => s[k] = p[k - n]
              /\ n + 1 < k => s[k] = q[k - 1]
    <2>1. /\ Len(q) \in Nat /\ DOMAIN s = 1..Len(q) + Len(p) /\ DOMAIN q = 1..Len(q)
          /\ \A k \in 1..Len(q) + Len(p) :
              /\ k <= n => s[k] = q[k]
              /\ n < k /\ k <= n + Len(p) => s[k] = p[k - n]
              /\ n + Len(p) < k => s[k] = q[k - Len(p)]
      BY <1>1, SplicedEvents, Zenon
    <2> HIDE DEF s
    <2> QED BY <1>1, <2>1
  <1> HIDE DEF s
  <1>3. n + 1 \in DOMAIN s /\ s[n + 1] = e
    <2>1. (n + 1) - n = 1 /\ n + 1 \in 1..Len(q) + 1
      BY <1>2
    <2> QED BY <1>1, <1>2, <2>1
  <1>4. ASSUME NEW j \in DOMAIN s, j # n + 1 PROVE s[j].event # e.event
    <2>1. (j <= n /\ j \in DOMAIN q /\ s[j] = q[j]) \/ (j - 1 \in DOMAIN q /\ s[j] = q[j - 1])
      BY <1>2, <1>4
    <2> QED BY <2>1 DEF Once
  <1> QED BY <1>3, <1>4 DEF Once, s, p

LEMMA StartSpliced ==
  ASSUME NEW q \in Seq(Events), NEW p \in Seq(Events), NEW n \in Nat, n < Len(q), StartWaits(q)
  PROVE  StartWaits(Splice(q, n, p))
  <1> DEFINE s == Splice(q, n, p)
  <1>1. /\ Len(q) \in Nat /\ Len(p) \in Nat /\ s \in Seq(Events)
        /\ Len(s) = Len(q) + Len(p)
        /\ \A k \in 1..Len(q) + Len(p) : n + Len(p) < k => s[k] = q[k - Len(p)]
    BY SplicedEvents
  <1> HIDE DEF s
  <1>2. Len(s) \in 1..Len(q) + Len(p) /\ n + Len(p) < Len(s) /\ Len(s) - Len(p) = Len(q)
    BY <1>1
  <1>3. s[Len(s)] = q[Len(q)] /\ s # <<>>
    BY <1>1, <1>2
  <1> QED BY <1>3 DEF StartWaits, s

-----------------------------------------------------------------------------
(* An event leaves *)

LEMMA RemovedEvents ==
  ASSUME NEW q \in Seq(Events), NEW k \in DOMAIN q, NEW name, NEW there \in BOOLEAN,
         Once(q, name, there)
  PROVE  /\ q[k].event # name => Once(RemoveAt(q, k), name, there)
         /\ q[k].event = name => Once(RemoveAt(q, k), name, FALSE)
  <1> DEFINE r == RemoveAt(q, k)
  <1>1. /\ r \in Seq(Events) /\ Len(r) = Len(q) - 1
        /\ \A j \in 1..Len(q) - 1 : r[j] = IF j < k THEN q[j] ELSE q[j + 1]
    BY Removed
  <1> HIDE DEF r
  <1>2. /\ Len(q) \in Nat /\ DOMAIN q = 1..Len(q) /\ DOMAIN r = 1..Len(q) - 1
        /\ k \in Nat /\ 1 <= k /\ k <= Len(q)
    BY <1>1
  <1>3. ASSUME NEW j \in DOMAIN r
        PROVE  \/ j < k /\ j \in DOMAIN q /\ r[j] = q[j]
               \/ j >= k /\ j + 1 \in DOMAIN q /\ r[j] = q[j + 1]
    BY <1>1, <1>2
  <1>4. CASE ~there
    BY <1>3, <1>4 DEF Once, r
  <1>5. CASE there
    <2>1. PICK i \in DOMAIN q : q[i].event = name /\ \A j \in DOMAIN q : q[j].event = name => j = i
      BY <1>5 DEF Once
    <2>2. ASSUME q[k].event = name PROVE Once(r, name, FALSE)
      <3>1. i = k
        BY <2>1, <2>2
      <3>2. ASSUME NEW j \in DOMAIN r PROVE r[j].event # name
        BY <1>2, <1>3, <2>1, <3>1
      <3> QED BY <3>2 DEF Once
    <2>3. ASSUME q[k].event # name PROVE Once(r, name, TRUE)
      <3> DEFINE m == IF i < k THEN i ELSE i - 1
      <3>1. i # k
        BY <2>1, <2>3
      <3>2. m \in DOMAIN r /\ r[m] = q[i]
        <4>1. CASE i < k
          <5>1. i \in 1..Len(q) - 1
            BY <1>2, <4>1
          <5> QED BY <1>1, <1>2, <4>1, <5>1
        <4>2. CASE ~(i < k)
          <5>1. i - 1 \in 1..Len(q) - 1 /\ ~(i - 1 < k) /\ (i - 1) + 1 = i
            BY <1>2, <3>1, <4>2
          <5> QED BY <1>1, <1>2, <4>2, <5>1
        <4> QED BY <4>1, <4>2
      <3>3. \A j \in DOMAIN r : r[j].event = name => j = m
        <4> SUFFICES ASSUME NEW j \in DOMAIN r, r[j].event = name PROVE j = m
          OBVIOUS
        <4>1. (j < k /\ j = i) \/ (j >= k /\ j + 1 = i)
          BY <1>3, <2>1
        <4> QED BY <1>2, <4>1
      <3> HIDE DEF m
      <3> QED BY <2>1, <3>2, <3>3 DEF Once
    <2> QED BY <1>5, <2>2, <2>3 DEF r
  <1> QED BY <1>4, <1>5

LEMMA StartRemoved ==
  ASSUME NEW q \in Seq(Events), NEW k \in DOMAIN q, StartWaits(q), q[k].event # "OnStart"
  PROVE  StartWaits(RemoveAt(q, k))
  <1> DEFINE r == RemoveAt(q, k)
  <1>1. /\ r \in Seq(Events) /\ Len(r) = Len(q) - 1
        /\ \A j \in 1..Len(q) - 1 : r[j] = IF j < k THEN q[j] ELSE q[j + 1]
    BY Removed
  <1> HIDE DEF r
  <1>2. Len(q) \in Nat /\ k \in Nat /\ 1 <= k /\ k < Len(q)
    BY DEF StartWaits
  <1>3. Len(q) - 1 \in 1..Len(q) - 1 /\ ~(Len(q) - 1 < k) /\ (Len(q) - 1) + 1 = Len(q)
    BY <1>2
  <1>4. r[Len(r)] = q[Len(q)] /\ r # <<>>
    BY <1>1, <1>2, <1>3
  <1> QED BY <1>4 DEF StartWaits, r

\* The back of the queue is taken.
LEMMA OnceFronted ==
  ASSUME NEW q \in Seq(Events), q # <<>>, NEW name, NEW there \in BOOLEAN, Once(q, name, there)
  PROVE  /\ Last(q).event # name => Once(Front(q), name, there)
         /\ Last(q).event = name => there /\ Once(Front(q), name, FALSE)
  <1> DEFINE r == Front(q)
  <1>1. /\ r \in Seq(Events) /\ Len(r) = Len(q) - 1 /\ Len(q) \in Nat \ {0}
        /\ \A k \in 1..Len(q) - 1 : r[k] = q[k]
        /\ Last(q) = q[Len(q)]
    BY Fronted
  <1> HIDE DEF r
  <1>2. DOMAIN q = 1..Len(q) /\ DOMAIN r = 1..Len(q) - 1 /\ Len(q) \in DOMAIN q
    BY <1>1
  <1>3. CASE ~there
    BY <1>1, <1>2, <1>3 DEF Once, r
  <1>4. CASE there
    <2>1. PICK i \in DOMAIN q : q[i].event = name /\ \A j \in DOMAIN q : q[j].event = name => j = i
      BY <1>4 DEF Once
    <2>2. ASSUME Last(q).event = name PROVE Once(r, name, FALSE)
      <3>1. i = Len(q)
        BY <1>1, <1>2, <2>1, <2>2
      <3> QED BY <1>1, <1>2, <2>1, <3>1 DEF Once
    <2>3. ASSUME Last(q).event # name PROVE Once(r, name, TRUE)
      <3>1. i # Len(q)
        BY <1>1, <2>1, <2>3
      <3>2. i \in DOMAIN r
        BY <1>1, <1>2, <3>1
      <3>3. \A j \in DOMAIN r : j \in DOMAIN q /\ r[j] = q[j]
        BY <1>1, <1>2
      <3>4. r[i].event = name /\ \A j \in DOMAIN r : r[j].event = name => j = i
        BY <2>1, <3>2, <3>3
      <3> QED BY <3>2, <3>4 DEF Once
    <2> QED BY <1>4, <2>2, <2>3 DEF r
  <1> QED BY <1>3, <1>4
-----------------------------------------------------------------------------
(* Pushes *)

LEMMA InsertIsSplice ==
  /\ \A p, q : Insert(p, q) = Splice(q, FreshIn(q), p)
  /\ \A q, e : \A n \in Nat \ {0} : InsertAt(q, n, e) = Splice(q, n - 1, <<e>>)
  <1>1. \A n \in Nat \ {0} : (n - 1) + 1 = n
    OBVIOUS
  <1> QED BY <1>1 DEF Insert, InsertAt, Splice

LEMMA ArrivalType ==
  /\ Arrival \in Events /\ Arrival.event \in Unique /\ Arrival.event # "OnStart"
  BY DEF Arrival, Event, Events, Unique

\* A sequence of events none of which is unique.
Plain(p) == p \in Seq(Events) /\ \A k \in DOMAIN p : p[k].event \notin Unique

LEMMA InsertKeeps ==
  ASSUME NEW q, NEW names, QueueFits(q, names), NEW p, Plain(p)
  PROVE  /\ QueueFits(Insert(p, q), names)
         /\ StartWaits(q) => StartWaits(Insert(p, q))
  <1>1. q \in Seq(Events) /\ p \in Seq(Events)
    BY DEF QueueFits, Plain
  <1>2. FreshIn(q) \in Nat /\ FreshIn(q) <= Len(q) /\ (StartWaits(q) => FreshIn(q) < Len(q))
    BY <1>1, FreshCount
  <1>3. Insert(p, q) = Splice(q, FreshIn(q), p)
    BY InsertIsSplice
  <1>4. Insert(p, q) \in Seq(Events)
    BY <1>1, <1>2, <1>3, SplicedEvents
  <1>5. ASSUME NEW name \in Unique PROVE Once(Insert(p, q), name, name \in names)
    <2> DEFINE there == name \in names
    <2>1. Once(q, name, there) /\ there \in BOOLEAN
      BY DEF QueueFits
    <2>2. \A k \in DOMAIN p : p[k].event # name
      BY DEF Plain
    <2> HIDE DEF there
    <2>3. Once(Insert(p, q), name, there)
      BY <1>1, <1>2, <1>3, <2>1, <2>2, OnceSpliced
    <2> QED BY <2>3 DEF there
  <1>6. StartWaits(q) => StartWaits(Insert(p, q))
    BY <1>1, <1>2, <1>3, StartSpliced
  <1> QED BY <1>4, <1>5, <1>6 DEF QueueFits

\* The step of the queue when an event other than OnStart is pushed unique.
LEMMA PushUniqueKeeps ==
  ASSUME QueueFits(queue, pushed), pushed \subseteq Unique, NEW e \in Events,
         e.event \in Unique, e.event # "OnStart", PushUnique(e)
  PROVE  /\ QueueFits(queue', pushed') /\ pushed' \subseteq Unique
         /\ "OnStart" \in pushed' <=> "OnStart" \in pushed
         /\ StartWaits(queue) => StartWaits(queue')
         /\ Len(queue') <= Len(queue) + 1
         /\ e.event \in pushed => Len(queue') = Len(queue)
  <1> DEFINE p == <<e>>
  <1>0. queue \in Seq(Events) /\ p \in Seq(Events) /\ Len(p) = 1 /\ Len(queue) \in Nat
        /\ DOMAIN p = {1} /\ p[1] = e
    BY DEF QueueFits
  <1> HIDE DEF p
  <1>1. Once(queue, e.event, e.event \in pushed)
    BY DEF QueueFits
  <1>2. e.event \in pushed => Queued(e.event)
    BY <1>1 DEF Once, Queued
  <1>3. CASE e.event \in pushed
    <2>1. pushed' = pushed
      BY <1>2, <1>3 DEF PushUnique
    <2>2. PICK k \in DOMAIN queue : /\ IsFirst(k, e.event)
             /\ \E n \in 1..FreshIn(RemoveAt(queue, k)) + 1 :
                  queue' = InsertAt(RemoveAt(queue, k), n, e)
      BY <1>2, <1>3 DEF PushUnique
    <2> DEFINE others == RemoveAt(queue, k)
    <2>3. PICK n \in 1..FreshIn(others) + 1 : queue' = InsertAt(others, n, e)
      BY <2>2
    <2>4. queue[k].event = e.event
      BY <2>2 DEF IsFirst
    <2>5. others \in Seq(Events) /\ Len(others) = Len(queue) - 1
      BY <1>0, Removed
    <2>6. StartWaits(queue) => StartWaits(others)
      BY <1>0, <2>4, StartRemoved
    <2>7. Once(others, e.event, FALSE)
      <3>1. Once(queue, e.event, TRUE)
        BY <1>1, <1>3
      <3> QED BY <1>0, <2>4, <3>1, RemovedEvents
    <2>8. ASSUME NEW name \in Unique \ {e.event} PROVE Once(others, name, name \in pushed)
      <3> DEFINE there == name \in pushed
      <3>1. Once(queue, name, there) /\ there \in BOOLEAN
        BY DEF QueueFits
      <3> HIDE DEF there
      <3>2. Once(others, name, there)
        BY <1>0, <2>4, <3>1, RemovedEvents
      <3> QED BY <3>2 DEF there
    <2> HIDE DEF others
    <2>9. FreshIn(others) \in Nat /\ FreshIn(others) <= Len(others)
          /\ (StartWaits(others) => FreshIn(others) < Len(others))
      BY <2>5, FreshCount
    <2>10. n \in Nat \ {0} /\ n - 1 \in Nat /\ n - 1 <= FreshIn(others) /\ n - 1 <= Len(others)
           /\ (StartWaits(others) => n - 1 < Len(others))
      BY <1>0, <2>5, <2>9
    <2>11. queue' = Splice(others, n - 1, p)
      BY <2>3, <2>10, InsertIsSplice DEF p
    <2>12. queue' \in Seq(Events) /\ Len(queue') = Len(others) + 1
      BY <1>0, <2>5, <2>10, <2>11, SplicedType
    <2>13. Once(queue', e.event, TRUE)
      BY <2>5, <2>7, <2>10, <2>11, OnceAdded DEF p
    <2>14. ASSUME NEW name \in Unique \ {e.event} PROVE Once(queue', name, name \in pushed)
      <3> DEFINE there == name \in pushed
      <3>1. Once(others, name, there) /\ there \in BOOLEAN
        BY <2>8
      <3>2. \A j \in DOMAIN p : p[j].event # name
        BY <1>0
      <3> HIDE DEF there
      <3>3. Once(queue', name, there)
        BY <1>0, <2>5, <2>10, <2>11, <3>1, <3>2, OnceSpliced
      <3> QED BY <3>3 DEF there
    <2>15. \A name \in Unique : Once(queue', name, name \in pushed')
      <3>1. (e.event \in pushed') = TRUE
        BY <1>3, <2>1
      <3>2. Once(queue', e.event, e.event \in pushed')
        BY <2>13, <3>1
      <3>3. \A name \in Unique \ {e.event} : Once(queue', name, name \in pushed')
        BY <2>1, <2>14
      <3> QED BY <3>2, <3>3
    <2>16. StartWaits(queue) => StartWaits(queue')
      BY <1>0, <2>5, <2>6, <2>10, <2>11, StartSpliced
    <2>17. Len(queue') = Len(queue)
      BY <1>0, <2>5, <2>12
    <2> QED BY <1>0, <2>1, <2>12, <2>15, <2>16, <2>17 DEF QueueFits
  <1>4. CASE e.event \notin pushed
    <2> DEFINE n == FreshIn(queue)
    <2>1. pushed' = pushed \cup {e.event} /\ queue' = Splice(queue, n, p)
      BY <1>4, InsertIsSplice DEF PushUnique, p
    <2>2. n \in Nat /\ n <= Len(queue) /\ (StartWaits(queue) => n < Len(queue))
      BY <1>0, FreshCount
    <2> HIDE DEF n
    <2>3. queue' \in Seq(Events) /\ Len(queue') = Len(queue) + 1
      <3>1. queue' \in Seq(Events) /\ Len(queue') = Len(queue) + Len(p)
        BY <1>0, <2>1, <2>2, SplicedType, Zenon
      <3> QED BY <1>0, <3>1
    <2>4. Once(queue', e.event, TRUE)
      <3>1. (e.event \in pushed) = FALSE
        BY <1>4
      <3>2. Once(queue, e.event, FALSE)
        BY <1>1, <3>1
      <3> QED BY <1>0, <2>1, <2>2, <3>2, OnceAdded DEF p
    <2>5. ASSUME NEW name \in Unique \ {e.event} PROVE Once(queue', name, name \in pushed)
      <3> DEFINE there == name \in pushed
      <3>1. Once(queue, name, there) /\ there \in BOOLEAN
        BY DEF QueueFits
      <3>2. \A j \in DOMAIN p : p[j].event # name
        BY <1>0
      <3> HIDE DEF there
      <3>3. Once(queue', name, there)
        BY <1>0, <2>1, <2>2, <3>1, <3>2, OnceSpliced
      <3> QED BY <3>3 DEF there
    <2>6. \A name \in Unique : Once(queue', name, name \in pushed')
      <3>1. (e.event \in pushed') = TRUE
        BY <2>1
      <3>2. Once(queue', e.event, e.event \in pushed')
        BY <2>4, <3>1
      <3>3. \A name \in Unique \ {e.event} : (name \in pushed') = (name \in pushed)
        BY <2>1
      <3>4. \A name \in Unique \ {e.event} : Once(queue', name, name \in pushed')
        BY <2>5, <3>3
      <3> QED BY <3>2, <3>4
    <2>7. StartWaits(queue) => StartWaits(queue')
      BY <1>0, <2>1, <2>2, StartSpliced
    <2> QED BY <1>0, <1>4, <2>1, <2>3, <2>6, <2>7 DEF QueueFits
  <1> QED BY <1>3, <1>4

\* What a run of the modules pushes is plain.
LEMMA ScanIsPlain ==
  ASSUME near \subseteq Objects, NEW scan \in Scans, NEW delivery \in Mails
  PROVE  Plain([k \in DOMAIN scan |-> Contact(scan[k])] \o delivery)
  <1>1. scan \in Seq(Objects)
    <2>1. CASE scan = <<>>
      BY <2>1
    <2>2. CASE scan \in SetToSeqs(near \ inRadius)
      <3>1. scan \in [1..Cardinality(near \ inRadius) -> near \ inRadius]
        BY <2>2 DEF SetToSeqs
      <3>2. Cardinality(near \ inRadius) \in Nat
        <4>1. IsFiniteSet(near \ inRadius)
          BY ObjectsAssumption, FS_Subset
        <4> QED BY <4>1, FS_CardinalityType
      <3> DEFINE n == Cardinality(near \ inRadius)
      <3>3. n \in Nat /\ scan \in [1..n -> near \ inRadius]
        BY <3>1, <3>2
      <3> HIDE DEF n
      <3>4. scan \in [1..n -> Objects]
        BY <3>3
      <3>5. \A f \in [1..n -> Objects] : f \in Seq(Objects)
        BY <3>3
      <3> QED BY <3>4, <3>5, Zenon
    <2> QED BY <2>1, <2>2 DEF Scans
  <1> DEFINE a == [k \in DOMAIN scan |-> Contact(scan[k])]
  <1>2. a \in Seq(Events) /\ \A k \in DOMAIN a : a[k].event = "OnRadarNewObjectInRange"
    <2>1. DOMAIN scan = 1..Len(scan) /\ Len(scan) \in Nat
      BY <1>1
    <2>2. ASSUME NEW k \in 1..Len(scan)
          PROVE  Contact(scan[k]) \in Events /\ Contact(scan[k]).event = "OnRadarNewObjectInRange"
      BY <1>1 DEF Contact, Event, Events
    <2>3. a \in [1..Len(scan) -> Events]
      BY <2>1, <2>2
    <2> QED BY <2>1, <2>2, <2>3
  <1>3. delivery \in Seq(Events)
        /\ \A k \in DOMAIN delivery : delivery[k].event = "OnCommunicationReceivedMessages"
    <2>1. Messages \in Events /\ Messages.event = "OnCommunicationReceivedMessages"
      BY DEF Messages, Event, Events
    <2> DEFINE m == Messages
    <2>2. delivery = <<>> \/ delivery = <<m>>
      BY DEF Mails
    <2> HIDE DEF m
    <2>3. m \in Events /\ m.event = "OnCommunicationReceivedMessages"
      BY <2>1 DEF m
    <2>4. CASE delivery = <<>>
      BY <2>4
    <2>5. CASE delivery = <<m>>
      <3>1. delivery \in Seq(Events) /\ DOMAIN delivery = {1} /\ delivery[1] = m
        BY <2>3, <2>5
      <3> QED BY <2>3, <3>1
    <2> QED BY <2>2, <2>4, <2>5
  <1> HIDE DEF a
  <1>4. /\ a \o delivery \in Seq(Events)
        /\ \A k \in DOMAIN (a \o delivery) :
             \/ k \in DOMAIN a /\ (a \o delivery)[k] = a[k]
             \/ k - Len(a) \in DOMAIN delivery /\ (a \o delivery)[k] = delivery[k - Len(a)]
    BY <1>2, <1>3
  <1> DEFINE p == a \o delivery
  <1>5. p \in Seq(Events)
    BY <1>4
  <1>6. ASSUME NEW k \in DOMAIN p PROVE p[k].event \notin Unique
    BY <1>2, <1>3, <1>4 DEF Unique
  <1> HIDE DEF p
  <1> QED BY <1>5, <1>6 DEF Plain, p, a

-----------------------------------------------------------------------------
(* The steps *)

LEMMA InitInvariant == Init => IInv
  <1> SUFFICES ASSUME Init PROVE IInv
    OBVIOUS
  <1> DEFINE e == Event("OnStart", "ship", FALSE)
  <1>1. queue = <<e>> /\ e \in Events /\ e.event = "OnStart" /\ e.fresh = FALSE
    BY DEF Init, Event, Events, Unique
  <1> HIDE DEF e
  <1>2. queue \in Seq(Events) /\ Len(queue) = 1 /\ DOMAIN queue = {1} /\ queue[1] = e /\ queue # <<>>
    BY <1>1
  <1>3. ASSUME NEW name \in Unique PROVE Once(queue, name, name \in pushed)
    <2>1. CASE name = "OnStart"
      <3>1. (name \in pushed) = TRUE
        BY <2>1 DEF Init
      <3>2. Once(queue, name, TRUE)
        BY <1>1, <1>2, <2>1 DEF Once
      <3> QED BY <3>1, <3>2
    <2>2. CASE name # "OnStart"
      <3>1. (name \in pushed) = FALSE
        BY <2>2 DEF Init
      <3>2. Once(queue, name, FALSE)
        BY <1>1, <1>2, <2>2 DEF Once
      <3> QED BY <3>1, <3>2
    <2> QED BY <2>1, <2>2
  <1>4. StartWaits(queue)
    BY <1>1, <1>2 DEF StartWaits
  <1>5. TypeOK
    <2>1. Len(queue) <= MaxEvents /\ ticks \in 0..TickPeriod
      BY <1>2, BoundsAssumption DEF Init
    <2> QED BY <2>1 DEF Init, TypeOK, Unique
  <1> QED BY <1>2, <1>3, <1>4, <1>5 DEF Init, IInv, QueueFits

\* What the queue is kept by what leaves the rest of the core alone.
LEMMA QuietStep ==
  ASSUME IInv, TypeOK', UNCHANGED <<core, ticks, started, broken, told>>
  PROVE  IInv'
  BY DEF IInv, core, QueueFits, Once, StartWaits

LEMMA WorldStep ==
  ASSUME IInv,
         \/ \E object \in Objects : Drift(object) \/ Vanish(object)
         \/ ReceiveMessage
         \/ UNCHANGED vars
  PROVE  IInv'
  <1>1. UNCHANGED <<core, ticks, started, broken, told>>
    BY DEF Drift, Vanish, ReceiveMessage, vars
  <1>2. TypeOK'
    BY DEF IInv, TypeOK, Drift, Vanish, ReceiveMessage, vars, core, navigation, radar
  <1> QED BY <1>1, <1>2, QuietStep

LEMMA NavigationStep ==
  ASSUME IInv, NavigationRun
  PROVE  IInv'
  <1>0. TypeOK /\ ~broken /\ QueueFits(queue, pushed) /\ pushed \subseteq Unique
    BY DEF IInv, TypeOK
  <1>1. PushUnique(Arrival) /\ (Len(queue) < MaxEvents \/ Arrival.event \in pushed)
    BY DEF NavigationRun
  <1>2. /\ QueueFits(queue', pushed') /\ pushed' \subseteq Unique
        /\ "OnStart" \in pushed' <=> "OnStart" \in pushed
        /\ StartWaits(queue) => StartWaits(queue')
        /\ Len(queue') <= Len(queue) + 1
        /\ Arrival.event \in pushed => Len(queue') = Len(queue)
    BY <1>0, <1>1, ArrivalType, PushUniqueKeeps
  <1>3. Len(queue') <= MaxEvents
    <2>1. Len(queue) \in Nat /\ Len(queue') \in Nat /\ MaxEvents \in Nat
      BY <1>0, <1>2, BoundsAssumption DEF QueueFits
    <2>2. Len(queue) <= MaxEvents
      BY <1>0 DEF TypeOK
    <2> QED BY <1>1, <1>2, <2>1, <2>2
  <1>4. TypeOK'
    BY <1>0, <1>2, <1>3 DEF TypeOK, NavigationRun, navigation, radar
  <1>5. UNCHANGED <<ticks, started, broken, told>>
    BY DEF NavigationRun
  <1>6. ~started' => StartWaits(queue')
    BY <1>2, <1>5 DEF IInv
  <1>7. started' <=> "OnStart" \notin pushed'
    BY <1>2, <1>5 DEF IInv
  <1> QED BY <1>2, <1>4, <1>5, <1>6, <1>7 DEF IInv

\* The start of a turn: nothing is fresh any more.
LEMMA TurnStep ==
  ASSUME IInv, NextTurn
  PROVE  IInv'
  <1>1. queue \in Seq(Events) /\ queue' = [k \in DOMAIN queue |-> [queue[k] EXCEPT !.fresh = FALSE]]
    BY DEF IInv, QueueFits, NextTurn
  <1>2. DOMAIN queue = 1..Len(queue) /\ Len(queue) \in Nat
        /\ \A k \in 1..Len(queue) : queue[k] \in Events
    BY <1>1
  <1>3. ASSUME NEW k \in 1..Len(queue)
        PROVE  [queue[k] EXCEPT !.fresh = FALSE] \in Events
               /\ [queue[k] EXCEPT !.fresh = FALSE].event = queue[k].event
               /\ [queue[k] EXCEPT !.fresh = FALSE].fresh = FALSE
    BY <1>2 DEF Events
  <1>4. queue' \in [1..Len(queue) -> Events]
    BY <1>1, <1>2, <1>3
  <1>5. queue' \in Seq(Events) /\ Len(queue') = Len(queue) /\ DOMAIN queue' = DOMAIN queue
    BY <1>2, <1>4
  <1>6. \A k \in DOMAIN queue : queue'[k].event = queue[k].event /\ queue'[k].fresh = FALSE
    BY <1>1, <1>2, <1>3
  <1>7. ASSUME NEW name \in Unique PROVE Once(queue', name, name \in pushed)
    <2> DEFINE there == name \in pushed
    <2>1. Once(queue, name, there)
      BY DEF IInv, QueueFits
    <2> HIDE DEF there
    <2>2. Once(queue', name, there)
      BY <1>5, <1>6, <2>1 DEF Once
    <2> QED BY <2>2 DEF there
  <1>8. StartWaits(queue) => StartWaits(queue')
    <2> SUFFICES ASSUME StartWaits(queue) PROVE StartWaits(queue')
      OBVIOUS
    <2>1. Len(queue) \in DOMAIN queue /\ queue[Len(queue)].event = "OnStart"
      BY <1>2 DEF StartWaits
    <2>2. queue' # <<>>
      BY <1>2, <1>5, <2>1
    <2> QED BY <1>5, <1>6, <2>1, <2>2 DEF StartWaits
  <1>9. TypeOK'
    BY <1>5 DEF IInv, TypeOK, NextTurn, navigation, radar
  <1>10. UNCHANGED <<pushed, ticks, started, broken>> /\ told' = Nothing
    BY DEF NextTurn
  <1>11. QueueFits(queue', pushed')
    BY <1>5, <1>7, <1>10 DEF QueueFits
  <1>12. ~started' => StartWaits(queue') /\ ticks' = 0 /\ told' = Nothing
    BY <1>8, <1>10 DEF IInv
  <1> QED BY <1>9, <1>10, <1>11, <1>12 DEF IInv

\* A reaction leaves the queue it was given.
LEMMA Reaction ==
  ASSUME NEW events, React(events), running \in BOOLEAN, target \in BOOLEAN, armed \in BOOLEAN
  PROVE  queue' = events /\ running' \in BOOLEAN /\ target' \in BOOLEAN /\ armed' \in BOOLEAN
  BY DEF React, navigation

\* The back of the queue is told and forgotten: the flag it had is the only one to go.
LEMMA TakingKeeps ==
  ASSUME NEW q, NEW names, QueueFits(q, names), q # <<>>
  PROVE  /\ QueueFits(Front(q), names \ {Last(q).event})
         /\ Last(q).event \notin Unique \ names
         /\ Len(Front(q)) <= Len(q)
  <1> DEFINE back == Last(q).event
  <1>1. q \in Seq(Events)
    BY DEF QueueFits
  <1>2. Front(q) \in Seq(Events) /\ Len(Front(q)) <= Len(q)
    <2>1. Front(q) \in Seq(Events) /\ Len(Front(q)) = Len(q) - 1 /\ Len(q) \in Nat
      BY <1>1, Fronted, Zenon
    <2> QED BY <2>1
  <1> HIDE DEF back
  <1>3. ASSUME NEW name \in Unique
        PROVE  /\ Once(Front(q), name, name \in names \ {back})
               /\ back = name => name \in names
    <2> DEFINE there == name \in names
    <2>1. Once(q, name, there) /\ there \in BOOLEAN
      BY DEF QueueFits
    <2> HIDE DEF there
    <2>2. /\ back # name => Once(Front(q), name, there)
          /\ back = name => there /\ Once(Front(q), name, FALSE)
      BY <1>1, <2>1, OnceFronted DEF back
    <2>3. CASE back = name
      <3>1. (name \in names \ {back}) = FALSE
        BY <2>3
      <3>2. Once(Front(q), name, name \in names \ {back})
        BY <2>2, <2>3, <3>1
      <3> QED BY <2>2, <2>3, <3>2 DEF there
    <2>4. CASE back # name
      <3>1. (name \in names \ {back}) = there
        BY <2>4 DEF there
      <3>2. Once(Front(q), name, name \in names \ {back})
        BY <2>2, <2>4, <3>1
      <3> QED BY <2>4, <3>2
    <2> QED BY <2>3, <2>4
  <1>4. back \notin Unique \ names
    BY <1>3
  <1>5. QueueFits(Front(q), names \ {back})
    BY <1>2, <1>3 DEF QueueFits
  <1> QED BY <1>2, <1>4, <1>5 DEF back

LEMMA RunStep ==
  ASSUME IInv, Run
  PROVE  IInv'
  <1>0. TypeOK /\ ~broken /\ QueueFits(queue, pushed) /\ (started <=> "OnStart" \notin pushed)
        /\ (~started => StartWaits(queue) /\ ticks = 0)
    BY DEF IInv
  <1>1. PICK scan \in Scans, delivery \in Mails :
       LET events == Pushed(scan, delivery) IN
         /\ Len(events) <= MaxEvents
         /\ inRadius' = (IF scan = <<>> THEN inRadius ELSE inRadius \cup Range(scan)) \cap near
         /\ mail' = (mail /\ delivery = <<>>)
         /\ IF ticks >= TickPeriod
              THEN /\ ticks' = TickDue /\ told' = Tick
                   /\ React(events)
                   /\ UNCHANGED <<pushed, started, broken>>
            ELSE IF events = <<>> \/ (events # <<>> /\ NextOf(events).fresh)
              THEN /\ ticks' = ticks + 1 /\ told' = Nothing /\ queue' = events
                   /\ UNCHANGED <<running, pushed, navigation, started, broken>>
            ELSE LET e == NextOf(events) IN
                   /\ ticks' = ticks + 1 /\ told' = e
                   /\ broken' = (e.event \in Unique \ pushed)
                   /\ pushed' = Forget(e.event)
                   /\ started' = (started \/ e.event = "OnStart")
                   /\ React(Front(events))
    BY Zenon DEF Run
  <1> DEFINE events == Pushed(scan, delivery)
             pushes == [k \in DOMAIN scan |-> Contact(scan[k])] \o delivery
  <1>2. near \subseteq Objects
    BY <1>0 DEF TypeOK
  <1>3. Plain(pushes)
    BY <1>2, ScanIsPlain
  <1>4. QueueFits(events, pushed) /\ (StartWaits(queue) => StartWaits(events))
    <2> HIDE DEF pushes
    <2>1. /\ QueueFits(Insert(pushes, queue), pushed)
          /\ StartWaits(queue) => StartWaits(Insert(pushes, queue))
      BY <1>0, <1>3, InsertKeeps
    <2>2. events = Insert(pushes, queue)
      BY DEF Pushed, pushes
    <2> QED BY <2>1, <2>2, Zenon
  <1> DEFINE due == ticks >= TickPeriod
             quiet == events = <<>> \/ (events # <<>> /\ NextOf(events).fresh)
             e == NextOf(events)
  <1>5. /\ due => /\ ticks' = TickDue /\ told' = Tick /\ React(events)
                  /\ UNCHANGED <<pushed, started, broken>>
        /\ ~due /\ quiet => /\ ticks' = ticks + 1 /\ told' = Nothing /\ queue' = events
                            /\ UNCHANGED <<running, pushed, navigation, started, broken>>
        /\ ~due /\ ~quiet => /\ ticks' = ticks + 1 /\ told' = e
                             /\ broken' = (e.event \in Unique \ pushed)
                             /\ pushed' = Forget(e.event)
                             /\ started' = (started \/ e.event = "OnStart")
                             /\ React(Front(events))
    BY <1>1, Zenon
  <1>6. inRadius' \subseteq near /\ mail' \in BOOLEAN /\ Len(events) <= MaxEvents
    BY <1>1
  <1>7. near' = near /\ ran' = ran \cup {"script"}
    BY DEF Run
  <1> HIDE DEF pushes
  <1>8. StartWaits(events) => ~quiet /\ e.event = "OnStart"
    BY DEF StartWaits, NextOf, Last
  <1>9. ~started => ~due
    BY <1>0, BoundsAssumption
  <1>10. ticks' \in 0..TickPeriod
    <2>1. ticks \in 0..TickPeriod /\ TickPeriod \in Nat \ {0, 1}
      BY <1>0, BoundsAssumption DEF TypeOK
    <2>2. CASE due
      BY <1>5, <2>1, <2>2 DEF TickDue
    <2>3. CASE ~due
      <3>1. ticks' = ticks + 1
        BY <1>5, <2>3, Zenon
      <3> QED BY <2>1, <2>3, <3>1
    <2> QED BY <2>2, <2>3
  <1>11. started' \in BOOLEAN /\ started'
    <2>1. started \in BOOLEAN
      BY <1>0 DEF TypeOK
    <2> HIDE DEF due, quiet, e
    <2>2. CASE started
      BY <1>5, <2>1, <2>2
    <2>3. CASE ~started
      BY <1>0, <1>4, <1>5, <1>8, <1>9, <2>3
    <2> QED BY <2>2, <2>3
  <1>12. running \in BOOLEAN /\ target \in BOOLEAN /\ armed \in BOOLEAN /\ pushed \subseteq Unique
         /\ events \in Seq(Events)
    BY <1>0, <1>4 DEF TypeOK, QueueFits
  <1> HIDE DEF events
  <1>13. CASE due \/ quiet
    <2>1. pushed' = pushed /\ started' = started /\ broken' = broken
      BY <1>5, <1>13
    <2>2. queue' = events /\ running' \in BOOLEAN /\ target' \in BOOLEAN /\ armed' \in BOOLEAN
      <3>1. CASE due
        BY <1>5, <1>12, <3>1, Reaction
      <3>2. CASE ~due /\ quiet
        BY <1>5, <1>12, <3>2 DEF navigation
      <3> QED BY <1>13, <3>1, <3>2
    <2>3. TypeOK'
      BY <1>0, <1>2, <1>6, <1>7, <1>10, <1>11, <1>12, <2>1, <2>2 DEF TypeOK
    <2>4. QueueFits(queue', pushed')
      BY <1>4, <2>1, <2>2
    <2> QED BY <1>0, <1>11, <2>1, <2>3, <2>4 DEF IInv
  <1>14. CASE ~due /\ ~quiet
    <2>1. React(Front(events)) /\ pushed' = pushed \ {e.event} /\ events # <<>>
          /\ broken' = (e.event \in Unique \ pushed) /\ started' = (started \/ e.event = "OnStart")
      BY <1>5, <1>14 DEF Forget
    <2>2. e = Last(events)
      BY DEF NextOf
    <2> HIDE DEF due, quiet, e
    <2>3. /\ QueueFits(Front(events), pushed \ {e.event})
          /\ e.event \notin Unique \ pushed
          /\ Len(Front(events)) <= Len(events)
      BY <1>4, <2>1, <2>2, TakingKeeps
    <2>4. queue' = Front(events) /\ running' \in BOOLEAN /\ target' \in BOOLEAN /\ armed' \in BOOLEAN
      BY <1>12, <2>1, Reaction
    <2>5. QueueFits(queue', pushed') /\ broken' = FALSE
      <3>1. QueueFits(queue', pushed')
        BY <2>1, <2>3, <2>4, Zenon
      <3>2. (e.event \in Unique \ pushed) = FALSE
        BY <2>3
      <3> QED BY <2>1, <3>1, <3>2
    <2>6. Len(queue') <= MaxEvents
      <3>1. Len(queue') \in Nat /\ Len(events) \in Nat /\ MaxEvents \in Nat
        BY <1>12, <2>5, BoundsAssumption DEF QueueFits
      <3>2. Len(queue') <= Len(events)
        BY <2>3, <2>4
      <3> QED BY <1>6, <3>1, <3>2
    <2>7. TypeOK'
      BY <1>0, <1>2, <1>6, <1>7, <1>10, <1>11, <1>12, <2>1, <2>4, <2>5, <2>6 DEF TypeOK
    <2>8. "OnStart" \notin pushed'
      <3>1. CASE started
        BY <1>0, <2>1, <3>1
      <3>2. CASE ~started
        BY <1>11, <2>1, <3>2
      <3> QED BY <3>1, <3>2
    <2> QED BY <1>11, <2>5, <2>7, <2>8 DEF IInv
  <1> QED BY <1>13, <1>14

LEMMA StepInvariant == IInv /\ [Next]_vars => IInv'
  BY WorldStep, NavigationStep, RunStep, TurnStep DEF Next

-----------------------------------------------------------------------------
(* The theorems *)

\* The queue of a core, its flags and what its script was told fit together.
THEOREM Invariant == Spec => []IInv
  BY InitInvariant, StepInvariant, PTL DEF Spec

\* The variables have their types: the queue holds its bound, and the counter
\* of the ticks does not grow over its period (TickDue).
THEOREM TypeCorrect == Spec => []TypeOK
  <1>1. IInv => TypeOK
    BY DEF IInv
  <1> QED BY <1>1, Invariant, PTL

\* A unique event is queued at most once, exactly when m_pushedCallbacks says
\* so: PopCallback's assertion never fails.
THEOREM UniqueOnce == Spec => []UniqueEventsAreOnce
  <1>1. IInv => UniqueEventsAreOnce
    <2> SUFFICES ASSUME IInv, NEW name \in Unique
                 PROVE  Cardinality({k \in DOMAIN queue : queue[k].event = name})
                          = (IF name \in pushed THEN 1 ELSE 0)
      BY DEF UniqueEventsAreOnce, IInv
    <2> DEFINE P == {k \in DOMAIN queue : queue[k].event = name}
    <2>1. Once(queue, name, name \in pushed)
      BY DEF IInv, QueueFits
    <2>2. CASE name \in pushed
      <3>1. PICK k \in DOMAIN queue :
              queue[k].event = name /\ \A j \in DOMAIN queue : queue[j].event = name => j = k
        BY <2>1, <2>2 DEF Once
      <3>2. P = {k}
        BY <3>1
      <3> QED BY <2>2, <3>2, FS_Singleton
    <2>3. CASE name \notin pushed
      <3>1. P = {}
        BY <2>1, <2>3 DEF Once
      <3> QED BY <2>3, <3>1, FS_EmptySet
    <2> QED BY <2>2, <2>3
  <1> QED BY <1>1, Invariant, PTL

\* docs/Modules/Core.md: whatever the modules push before the first run of the
\* script, OnStart is told first, and once.
THEOREM StartFirst == Spec => []StartComesFirst
  <1>1. IInv => StartComesFirst
    <2> SUFFICES ASSUME IInv PROVE StartComesFirst
      OBVIOUS
    <2>1. Once(queue, "OnStart", "OnStart" \in pushed)
      BY DEF IInv, QueueFits, Unique
    <2>2. "OnStart" \in pushed <=> Queued("OnStart")
      BY <2>1 DEF Once, Queued
    <2> QED BY <2>2 DEF IInv, StartComesFirst
  <1> QED BY <1>1, Invariant, PTL

=============================================================================
