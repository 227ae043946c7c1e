-------------------------- MODULE EventOutbox_proofs --------------------------
(***************************************************************************)
(* NetworkEventQueue implements EventOutbox: the initial states map to the *)
(* initial state, and every step maps to a step of the outbox or to none.  *)
(* A step is followed through the numbers in the places of an event; the   *)
(* invariant of NetworkEventQueue_proofs says that they do not overlap and *)
(* in which order they are.                                                *)
(***************************************************************************)
EXTENDS NetworkEventQueue_proofs, FiniteSetTheorems

(* What waits for every peer, and what it got: the refinement mapping.      *)
WaitingMap == [n \in Peers |-> WaitingFor(n)]
GotMap == [n \in Peers |-> Numbers(received[n])]

(* What waits was sent before.                                              *)
WaitsWereSent == \A n \in Peers : WaitingFor(n) \subseteq 1..pushes

LEMMA WaitingIs ==
    \A n : WaitingFor(n) = Ids(response[n]) \union Ids(poll[n]) \union Ids(Flying(n))
                           \union Ids(webhook[n]) \union PendingIds(n)
  BY DEF WaitingFor, PendingIds

LEMMA WaitsAreSent == IInv => WaitsWereSent
<1> SUFFICES ASSUME IInv, NEW n \in Peers PROVE WaitingFor(n) \subseteq 1..pushes
  BY DEF WaitsWereSent
<1>1. Queued(n) \subseteq accepted /\ \A id \in accepted : id \in 1..MaxEvents /\ id <= pushes
  BY DEF IInv, Rest, Numbered, TypeOK
<1>2. \A id \in PendingIds(n) : id \in 1..MaxEvents /\ id <= pushes
  BY CallAt DEF IInv, Rest, Numbered, PendingIds
<1>3. pushes \in Nat
  BY DEF IInv, TypeOK
<1>4. \A id \in Queued(n) \union PendingIds(n) : id \in 1..pushes
  BY <1>1, <1>2, <1>3
<1> QED BY <1>4, WaitingIs DEF Queued
-----------------------------------------------------------------------------
(* The steps of the outbox, in terms of the queues.                         *)

Still(n) == WaitingFor(n)' = WaitingFor(n)

LEMMA NoStep ==
    ASSUME \A n \in Peers : Still(n), UNCHANGED <<received, pushes, rerouted>>
    PROVE  UNCHANGED Outbox!vars
  BY DEF Still, Outbox!vars

LEMMA SendStep ==
    ASSUME NEW n \in Peers, NEW k \in {1, 2}, pushes' = pushes + k,
           WaitingFor(n)' = WaitingFor(n) \union (pushes + 1)..(pushes + k),
           \A m \in Peers \ {n} : Still(m), UNCHANGED <<received, rerouted>>
    PROVE  Outbox!Send(n)
<1>1. WaitingMap' = [WaitingMap EXCEPT ![n] = @ \union (pushes + 1)..(pushes + k)]
  BY DEF WaitingMap, Still
<1> QED BY <1>1 DEF Outbox!Send, WaitingMap

LEMMA LoseStep ==
    ASSUME WaitsWereSent, \A n \in Peers : WaitingFor(n)' \subseteq WaitingFor(n),
           UNCHANGED <<received, pushes, rerouted>>
    PROVE  Outbox!Lose
<1>1. WaitingMap' \in [Peers -> SUBSET (1..pushes)]
  BY DEF WaitingMap, WaitsWereSent
<1>2. \A n \in Peers : WaitingMap'[n] \subseteq WaitingMap[n]
  BY DEF WaitingMap
<1> QED BY <1>1, <1>2 DEF Outbox!Lose, WaitingMap

LEMMA RefuseStep ==
    ASSUME NEW n \in Peers, NEW left \in SUBSET WaitingFor(n), pushes' = pushes + 2,
           WaitingFor(n)' = left \union (pushes + 1)..(pushes + 2),
           \A m \in Peers \ {n} : Still(m), UNCHANGED <<received, rerouted>>
    PROVE  Outbox!Refuse(n)
<1>1. WaitingMap' = [WaitingMap EXCEPT ![n] = left \union (pushes + 1)..(pushes + 2)]
  BY DEF WaitingMap, Still
<1> QED BY <1>1 DEF Outbox!Refuse, WaitingMap

LEMMA GoAstrayStep ==
    ASSUME NEW n, rerouted' = rerouted \union {n}, \A m \in Peers : Still(m),
           UNCHANGED <<received, pushes>>
    PROVE  Outbox!GoAstray(n)
  BY DEF Still, Outbox!GoAstray

(* The numbers of a sequence of events.                                     *)
LEMMA NumbersAre ==
    ASSUME NEW s \in Seq(Event)
    PROVE  /\ Numbers(s) \in Seq(Nat) /\ Len(Numbers(s)) = Len(s)
           /\ DOMAIN Numbers(s) = DOMAIN s /\ DOMAIN s = 1..Len(s)
           /\ \A i \in DOMAIN s : Numbers(s)[i] = s[i].id
           /\ Outbox!Elements(Numbers(s)) = Ids(s)
<1>1. Len(s) \in Nat /\ DOMAIN s = 1..Len(s) /\ \A i \in DOMAIN s : s[i].id \in Nat
  <2>1. Len(s) \in Nat /\ DOMAIN s = 1..Len(s) /\ \A i \in 1..Len(s) : s[i] \in Event
    BY LenProperties, ElementOfSeq
  <2>2. \A e \in Event : e.id \in Nat
    BY QueueAssumption DEF Event
  <2> QED BY <2>1, <2>2
<1>2. DOMAIN Numbers(s) = DOMAIN s /\ \A i \in DOMAIN s : Numbers(s)[i] = s[i].id
  BY DEF Numbers
<1>3. Numbers(s) \in Seq(Nat) /\ Len(Numbers(s)) = Len(s)
  BY <1>1 DEF Numbers
<1>4. Outbox!Elements(Numbers(s)) = Ids(s)
  BY <1>2 DEF Outbox!Elements, Ids
<1> QED BY <1>1, <1>2, <1>3, <1>4

LEMMA NumbersOfConcat ==
    ASSUME NEW s \in Seq(Event), NEW t \in Seq(Event)
    PROVE  Numbers(s \o t) = Numbers(s) \o Numbers(t)
<1>1. /\ s \o t \in Seq(Event) /\ Len(s \o t) = Len(s) + Len(t)
      /\ \A i \in 1..(Len(s) + Len(t)) : (s \o t)[i] = IF i <= Len(s) THEN s[i] ELSE t[i - Len(s)]
  BY ConcatProperties
<1>n. Len(s) \in Nat /\ Len(t) \in Nat
  BY LenProperties
<1>a. PICK a \in Seq(Nat) : a = Numbers(s)
  BY NumbersAre
<1>b. PICK b \in Seq(Nat) : b = Numbers(t)
  BY NumbersAre
<1>u. PICK u \in Seq(Event) : u = s \o t
  BY <1>1
<1>v. PICK v \in Seq(Nat) : v = Numbers(u)
  BY NumbersAre
<1>2. /\ Len(a) = Len(s) /\ Len(b) = Len(t)
      /\ \A i \in 1..Len(s) : a[i] = s[i].id
      /\ \A i \in 1..Len(t) : b[i] = t[i].id
  BY <1>a, <1>b, NumbersAre
<1>3. Len(v) = Len(s) + Len(t) /\ \A i \in 1..(Len(s) + Len(t)) : v[i] = u[i].id
  BY <1>1, <1>u, <1>v, NumbersAre
<1>4. /\ a \o b \in Seq(Nat) /\ Len(a \o b) = Len(s) + Len(t)
      /\ \A i \in 1..(Len(s) + Len(t)) : (a \o b)[i] = IF i <= Len(s) THEN a[i] ELSE b[i - Len(s)]
  <2>1. /\ a \o b \in Seq(Nat) /\ Len(a \o b) = Len(a) + Len(b)
        /\ \A i \in 1..(Len(a) + Len(b)) : (a \o b)[i] = IF i <= Len(a) THEN a[i] ELSE b[i - Len(a)]
    BY ConcatProperties
  <2> QED BY <2>1, <1>2
<1>5. ASSUME NEW i \in 1..(Len(s) + Len(t)) PROVE v[i] = (a \o b)[i]
  <2>1. CASE i <= Len(s)
    <3>1. i \in 1..Len(s)
      BY <2>1, <1>n
    <3>2. u[i] = s[i] /\ (a \o b)[i] = a[i]
      BY <2>1, <1>1, <1>4, <1>u
    <3> QED BY <3>1, <3>2, <1>2, <1>3
  <2>2. CASE ~(i <= Len(s))
    <3>1. i - Len(s) \in 1..Len(t)
      BY <2>2, <1>n
    <3>2. u[i] = t[i - Len(s)] /\ (a \o b)[i] = b[i - Len(s)]
      BY <2>2, <1>1, <1>4, <1>u
    <3> QED BY <3>1, <3>2, <1>2, <1>3
  <2> QED BY <2>1, <2>2
<1>6. v = a \o b
  BY <1>3, <1>4, <1>5, SeqEqual
<1> QED BY <1>6, <1>a, <1>b, <1>u, <1>v

(* Numbers that differ and were sent are no more than were sent.            *)
LEMMA BatchIsShort ==
    ASSUME NEW s \in Seq(Event), NEW N \in Nat, Unique(s), Ids(s) \subseteq 1..N
    PROVE  Len(s) \in 0..N
<1>1. Len(s) \in Nat /\ DOMAIN s = 1..Len(s)
  BY LenProperties
<1> DEFINE f == [i \in 1..Len(s) |-> s[i].id]
<1>2. f \in [1..Len(s) -> 1..N] /\ \A i, j \in 1..Len(s) : f[i] = f[j] => i = j
  BY <1>1 DEF Ids, Unique
<1> HIDE DEF f
<1>3. /\ IsFiniteSet(1..Len(s)) /\ Cardinality(1..Len(s)) = Len(s)
      /\ IsFiniteSet(1..N) /\ Cardinality(1..N) = N
  <2>1. \A k \in Nat : IsFiniteSet(1..k) /\ Cardinality(1..k) = k
    <3> TAKE k \in Nat
    <3>1. 1 \in Int /\ k \in Int
      OBVIOUS
    <3>2. IsFiniteSet(1..k) /\ Cardinality(1..k) = IF 1 > k THEN 0 ELSE k - 1 + 1
      BY <3>1, FS_Interval, Zenon
    <3> QED BY <3>2
  <2> QED BY <1>1, <2>1
<1>4. CASE N < Len(s)
  <2>1. Cardinality(1..N) < Cardinality(1..Len(s))
    BY <1>3, <1>4
  <2>2. \E x, y \in 1..Len(s) : x # y /\ f[x] = f[y]
    <3>1. f \in [1..Len(s) -> 1..N]
      BY <1>2
    <3> QED BY <1>3, <2>1, <3>1, FS_PigeonHole, Zenon
  <2> QED BY <1>2, <2>2
<1> QED BY <1>1, <1>4

LEMMA ReceiveStep ==
    ASSUME TypeOK, WaitsWereSent, NEW n \in Peers, NEW s \in Seq(Event), Unique(s),
           Ids(s) \subseteq WaitingFor(n), WaitingFor(n)' = WaitingFor(n) \ Ids(s),
           n \notin rerouted => Rising(s) /\ Before(Ids(s), WaitingFor(n) \ Ids(s)),
           received' = [received EXCEPT ![n] = @ \o s],
           \A m \in Peers \ {n} : Still(m), UNCHANGED <<pushes, rerouted>>
    PROVE  Outbox!Receive(n)
<1> DEFINE b == Numbers(s)
<1>1. /\ b \in Seq(Nat) /\ DOMAIN b = 1..Len(s) /\ DOMAIN s = 1..Len(s)
      /\ \A i \in 1..Len(s) : b[i] = s[i].id
      /\ Outbox!Elements(b) = Ids(s)
  BY NumbersAre
<1>2. Len(s) \in 0..pushes
  <2>1. pushes \in Nat /\ Ids(s) \subseteq 1..pushes
    BY DEF TypeOK, WaitsWereSent
  <2> QED BY <2>1, BatchIsShort
<1>3. b = [i \in 1..Len(s) |-> b[i]] /\ \A i \in 1..Len(s) : b[i] \in WaitingFor(n)
  BY <1>1 DEF Ids, Numbers
<1>g. GotMap' = [GotMap EXCEPT ![n] = @ \o b]
  <2>1. received \in [Peers -> Seq(Event)]
    BY DEF TypeOK
  <2>2. /\ received'[n] = received[n] \o s
        /\ \A m \in Peers \ {n} : received'[m] = received[m]
    BY <2>1
  <2>3. Numbers(received'[n]) = Numbers(received[n]) \o b
    BY <2>1, <2>2, NumbersOfConcat
  <2> HIDE DEF b
  <2>4. GotMap'[n] = GotMap[n] \o b /\ \A m \in Peers \ {n} : GotMap'[m] = GotMap[m]
    BY <2>2, <2>3 DEF GotMap
  <2>5. GotMap' = [m \in Peers |-> GotMap'[m]] /\ GotMap = [m \in Peers |-> GotMap[m]]
    BY DEF GotMap
  <2> QED BY <2>4, <2>5
<1> HIDE DEF b
<1>4. b \in [1..Len(s) -> WaitingFor(n)]
  BY <1>3
<1>5. \A i, j \in DOMAIN b : b[i] = b[j] => i = j
  BY <1>1 DEF Unique
<1>6. b \in Outbox!Batches(WaitingMap[n])
  BY <1>2, <1>4, <1>5 DEF Outbox!Batches, WaitingMap
<1>7. n \notin rerouted => Outbox!Oldest(b, WaitingMap[n])
  <2> SUFFICES ASSUME n \notin rerouted PROVE Outbox!Oldest(b, WaitingMap[n])
    OBVIOUS
  <2>1. \A i, j \in DOMAIN b : i < j => b[i] < b[j]
    BY <1>1 DEF Rising
  <2>2. \A x \in Outbox!Elements(b), y \in WaitingMap[n] \ Outbox!Elements(b) : x < y
    BY <1>1 DEF Before, WaitingMap
  <2> QED BY <2>1, <2>2 DEF Outbox!Oldest
<1>8. WaitingMap' = [WaitingMap EXCEPT ![n] = @ \ Outbox!Elements(b)]
  BY <1>1 DEF WaitingMap, Still
<1> QED BY <1>6, <1>7, <1>8, <1>g DEF Outbox!Receive, WaitingMap, GotMap
-----------------------------------------------------------------------------
(* Every step of the queues is one of the outbox, or none.                  *)

(* A peer whose places keep their numbers.                                  *)
LEMMA StillIs ==
    ASSUME NEW n, Ids(response[n])' = Ids(response[n]), Ids(poll[n])' = Ids(poll[n]),
           Ids(Flying(n))' = Ids(Flying(n)), Ids(webhook[n])' = Ids(webhook[n]),
           PendingIds(n)' = PendingIds(n)
    PROVE  Still(n)
  BY WaitingIs DEF Still, WaitingFor, PendingIds

LEMMA NewWaiting ==
    \A n : WaitingFor(n)' = Ids(response'[n]) \union Ids(poll'[n]) \union Ids(Flying(n)')
                            \union Ids(webhook'[n]) \union PendingIds(n)'
  BY DEF WaitingFor, PendingIds

(* The flush of a queue, a refused connection and a poll move events, and   *)
(* all of them go on waiting for their peers.                               *)
LEMMA FlushIsStill ==
    ASSUME IInv, FlushWebhookQueue
    PROVE  /\ \A m \in Peers : Still(m)
           /\ UNCHANGED <<received, pushes, rerouted>>
<1> USE DEF queues, outcome
<1>t. TypeOK
  BY DEF IInv
<1>1. /\ todo # <<>> /\ todo' = Tail(todo) /\ flight = None /\ Head(todo).op = "flush"
      /\ UNCHANGED <<received, response, poll, pushes, rerouted>>
  BY DEF FlushWebhookQueue
<1>n. PICK n \in Peers : n = Head(todo).node
  BY <1>t, <1>1, FirstCall, CallAt
<1>2. /\ flight' = IF webhook[n] = <<>> THEN None ELSE [node |-> n, events |-> webhook[n]]
      /\ webhook' = Drain(webhook, n)
  BY <1>n DEF FlushWebhookQueue
<1>3. /\ Flying(n)' = webhook[n] /\ webhook'[n] = <<>>
      /\ \A m \in Peers \ {n} : Flying(m)' = <<>> /\ webhook'[m] = webhook[m]
      /\ \A m : Flying(m) = <<>>
  <2>1. webhook'[n] = <<>> /\ \A m \in Peers \ {n} : webhook'[m] = webhook[m]
    BY <1>t, <1>2 DEF Drain, TypeOK
  <2>2. \A m : Flying(m) = <<>>
    BY <1>1 DEF Flying
  <2>3. CASE webhook[n] = <<>>
    BY <1>2, <2>1, <2>2, <2>3 DEF Flying
  <2>4. CASE webhook[n] # <<>>
    <3>1. flight' = [node |-> n, events |-> webhook[n]] /\ flight' # None
      BY <1>t, <1>2, <2>4, PlaceTypes, NoneIsNoRequest
    <3> QED BY <2>1, <2>2, <3>1 DEF Flying
  <2> QED BY <2>3, <2>4
<1>4. \A m \in Peers : PendingIds(m)' = PendingIds(m)
  BY <1>t, <1>1, FirstCall
<1>5. Still(n)
  BY <1>1, <1>3, <1>4, NewWaiting, WaitingIs, IdsOfEmpty DEF Still
<1>6. \A m \in Peers \ {n} : Still(m)
  BY <1>1, <1>3, <1>4, StillIs
<1> QED BY <1>1, <1>5, <1>6

LEMMA ConnectErrorIsStill ==
    ASSUME IInv, ConnectError
    PROVE  /\ \A m \in Peers : Still(m)
           /\ UNCHANGED <<received, pushes, rerouted>>
<1> USE DEF queues, outcome
<1>f. flight # None => todo = <<>> /\ flight.node \in Peers /\ flight.events \in Seq(Event)
  BY DEF IInv, OneCall, TypeOK
<1>1. /\ flight # None /\ flight' = None
      /\ UNCHANGED <<received, response, poll, webhook, pushes, rerouted>>
  BY DEF ConnectError
<1>n. PICK n \in Peers : n = flight.node
  BY <1>1, <1>f
<1>2. todo' = Requeue(n, flight.events)
  <2>1. Requeue(n, flight.events) \in Seq(Calls) /\ todo = <<>>
    BY <1>1, <1>f, RequeueIsCalls
  <2> QED BY <1>n, <2>1, ConcatEmptySeq DEF ConnectError
<1>3. /\ PendingIds(n)' = Ids(flight.events) /\ \A m : m # n => PendingIds(m)' = {}
      /\ \A m : PendingIds(m) = {}
  BY <1>1, <1>2, <1>f, NewRequeue, NoCalls
<1>4. /\ Ids(Flying(n)) = Ids(flight.events) /\ \A m : m # n => Ids(Flying(m)) = {}
      /\ \A m : Ids(Flying(m)') = {}
  <2>1. /\ Flying(n) = flight.events /\ \A m : m # n => Flying(m) = <<>>
        /\ \A m : Flying(m)' = <<>>
    BY <1>1, <1>n DEF Flying
  <2> QED BY <2>1, IdsOfEmpty
<1>5. Still(n)
  BY <1>1, <1>3, <1>4, NewWaiting, WaitingIs DEF Still
<1>6. \A m \in Peers \ {n} : Still(m)
  BY <1>1, <1>3, <1>4, StillIs
<1> QED BY <1>1, <1>5, <1>6

LEMMA PollIsStill ==
    ASSUME IInv, NEW n \in Peers, Poll(n)
    PROVE  /\ \A m \in Peers : Still(m)
           /\ UNCHANGED <<received, pushes, rerouted>>
<1> USE DEF known, queues, thread, errors, outcome
<1>1. /\ response[n] = <<>> /\ response'[n] = poll[n] /\ poll'[n] = <<>>
      /\ \A m \in Peers \ {n} : response'[m] = response[m] /\ poll'[m] = poll[m]
      /\ UNCHANGED <<received, webhook, todo, flight, pushes, rerouted>>
  BY DEF Poll, Drain, TypeOK, IInv
<1>2. \A m : Flying(m)' = Flying(m) /\ PendingIds(m)' = PendingIds(m)
  BY <1>1 DEF Flying, PendingIds, Pushes
<1>3. Still(n)
  BY <1>1, <1>2, NewWaiting, WaitingIs, IdsOfEmpty DEF Still
<1>4. \A m \in Peers \ {n} : Still(m)
  BY <1>1, <1>2, StillIs
<1> QED BY <1>1, <1>3, <1>4

OutboxSteps == Outbox!Next \/ UNCHANGED Outbox!vars

LEMMA StepIsOutboxStep == IInv /\ [Next]_vars => [Outbox!Next]_(Outbox!vars)
<1> SUFFICES ASSUME IInv, [Next]_vars PROVE OutboxSteps
  BY DEF OutboxSteps
<1> USE DEF known, queues, thread, errors, outcome
<1>t. TypeOK /\ pushes \in Nat /\ WaitsWereSent
  BY WaitsAreSent DEF IInv, TypeOK
<1>f. ASSUME flight # None
      PROVE  /\ todo = <<>> /\ flight.node \in Peers /\ flight.events \in Seq(Event)
             /\ Flying(flight.node) = flight.events /\ \A m : m # flight.node => Flying(m) = <<>>
             /\ Unique(flight.events)
  <2>1. Unique(Flying(flight.node))
    BY <1>f DEF IInv, TypeOK, Rest, Distinct, UniqueAt
  <2> QED BY <1>f, <2>1 DEF IInv, OneCall, TypeOK, Flying
<1>n. ASSUME UNCHANGED <<received, response, poll, webhook, todo, flight, pushes, rerouted>>
      PROVE  UNCHANGED Outbox!vars
  <2>1. \A n \in Peers : Still(n)
    BY <1>n DEF Still, WaitingFor, Flying, Pushes
  <2> QED BY <2>1, <1>n, NoStep
<1>z. ASSUME todo' = <<>> PROVE \A m : PendingIds(m)' = {}
  <2>1. DOMAIN todo' = {}
    BY <1>z
  <2> QED BY <2>1 DEF PendingIds, Pushes
<1>d. ASSUME flight' = None PROVE \A m : Flying(m)' = <<>> /\ Ids(Flying(m)') = {}
  <2>1. \A m : Flying(m)' = <<>>
    BY <1>d DEF Flying
  <2> QED BY <2>1, IdsOfEmpty
<1>l. ASSUME flight # None, flight' = None, todo' = <<>>,
             UNCHANGED <<received, response, poll, webhook, pushes, rerouted>>
      PROVE  Outbox!Lose
  <2>1. \A n : WaitingFor(n)' \subseteq WaitingFor(n)
    BY <1>l, <1>z, <1>d, NewWaiting, WaitingIs
  <2> QED BY <2>1, <1>l, <1>t, LoseStep
<1>r. ASSUME flight # None, flight' = None, todo' = <<>>,
             received' = [received EXCEPT ![flight.node] = @ \o flight.events],
             UNCHANGED <<response, poll, webhook, pushes, rerouted>>
      PROVE  \E n \in Peers : Outbox!Receive(n)
  <2>n. PICK n \in Peers : n = flight.node
    BY <1>r, <1>f
  <2>s. PICK s \in Seq(Event) : s = flight.events
    BY <1>r, <1>f
  <2>1. /\ Flying(n) = s /\ Unique(s) /\ PendingIds(n) = {}
        /\ \A m \in Peers \ {n} : Flying(m) = <<>> /\ PendingIds(m) = {}
    BY <1>r, <1>f, <2>n, <2>s, NoCalls
  <2>2. /\ WaitingFor(n)' = Ids(response[n]) \union Ids(poll[n]) \union Ids(webhook[n])
        /\ WaitingFor(n) = WaitingFor(n)' \union Ids(s)
    BY <1>r, <1>z, <1>d, <2>1, NewWaiting, WaitingIs
  <2>3. WaitingFor(n)' \cap Ids(s) = {}
    BY <2>1, <2>2 DEF IInv, Rest, Distinct, ApartAt, Apart
  <2>4. \A m \in Peers \ {n} : Still(m)
    <3>1. \A m \in Peers \ {n} : Ids(Flying(m)) = {}
      BY <2>1, IdsOfEmpty
    <3> QED BY <1>r, <1>z, <1>d, <2>1, <3>1, StillIs
  <2>5. n \notin rerouted => Rising(s) /\ Before(Ids(s), WaitingFor(n) \ Ids(s))
    <3> SUFFICES ASSUME n \notin rerouted, s # <<>>
                 PROVE  Rising(s) /\ Before(Ids(s), WaitingFor(n) \ Ids(s))
      BY IdsOfEmpty DEF Before
    <3>1. Route(n) = "WEBHOOK"
      BY <2>1 DEF IInv, Rest, OneWay
    <3>2. response[n] = <<>> /\ poll[n] = <<>>
      BY <3>1 DEF IInv, Rest, OneWay
    <3>3. WaitingFor(n) \ Ids(s) \subseteq Ids(webhook[n])
      BY <2>2, <3>2, IdsOfEmpty
    <3>4. Rising(s) /\ Before(Ids(s), Ids(webhook[n]))
      BY <2>1 DEF IInv, Rest, Sorted, RisingAt, LineAt, Line
    <3> QED BY <3>3, <3>4 DEF Before
  <2>6. Ids(s) \subseteq WaitingFor(n) /\ WaitingFor(n)' = WaitingFor(n) \ Ids(s)
    BY <2>2, <2>3
  <2>7. Outbox!Receive(n)
    BY <1>t, <1>r, <2>n, <2>s, <2>1, <2>4, <2>5, <2>6, ReceiveStep
  <2> QED BY <2>7
<1>1. ASSUME NEW n \in Peers, Announce(n) PROVE Outbox!Send(n)
  <2>1. /\ todo = <<>> /\ flight = None /\ flight' = None /\ pushes' = pushes + 1
        /\ UNCHANGED <<received, response, poll, webhook, rerouted>>
    BY <1>1 DEF Announce, Idle
  <2>2. /\ PendingIds(n)' = {pushes + 1} /\ \A m : m # n => PendingIds(m)' = {}
        /\ \A m : PendingIds(m) = {} /\ Flying(m)' = Flying(m)
    BY <1>1, <1>t, <2>1, NewAnnouncement, NoCalls DEF Flying
  <2>3. (pushes + 1)..(pushes + 1) = {pushes + 1}
    BY <1>t
  <2>4. WaitingFor(n)' = WaitingFor(n) \union (pushes + 1)..(pushes + 1)
    BY <2>1, <2>2, <2>3, NewWaiting, WaitingIs
  <2>5. \A m \in Peers \ {n} : Still(m)
    BY <2>1, <2>2, StillIs
  <2> QED BY <2>1, <2>4, <2>5, SendStep
<1>h. ASSUME NEW n \in Peers, todo' = HandshakeCalls(n)
      PROVE  /\ PendingIds(n)' = (pushes + 1)..(pushes + 2)
             /\ \A m : m # n => PendingIds(m)' = {}
  <2>1. (pushes + 1)..(pushes + 2) = {pushes + 1, pushes + 2}
    BY <1>t
  <2> QED BY <1>h, <1>t, <2>1, NewHandshake
<1>2. ASSUME NEW n \in Peers, Handshake(n) PROVE Outbox!Send(n)
  <2>1. /\ todo = <<>> /\ flight = None /\ flight' = None /\ pushes' = pushes + 2
        /\ todo' = HandshakeCalls(n)
        /\ UNCHANGED <<received, response, poll, webhook, rerouted>>
    BY <1>2 DEF Handshake, Idle
  <2>2. \A m : PendingIds(m) = {} /\ Flying(m)' = Flying(m)
    BY <2>1, NoCalls DEF Flying
  <2>4. WaitingFor(n)' = WaitingFor(n) \union (pushes + 1)..(pushes + 2)
    BY <1>h, <2>1, <2>2, NewWaiting, WaitingIs
  <2>5. \A m \in Peers \ {n} : Still(m)
    BY <1>h, <2>1, <2>2, StillIs
  <2> QED BY <2>1, <2>4, <2>5, SendStep
<1>3. CASE PushEventTo
  <2>1. /\ todo # <<>> /\ todo' = Tail(todo) /\ flight = None /\ flight' = None
        /\ Head(todo).op = "push"
        /\ UNCHANGED <<received, response, pushes, rerouted>>
    BY <1>3 DEF PushEventTo
  <2>2. 1 \in DOMAIN todo /\ Head(todo) = todo[1]
    BY <1>t, <2>1, FirstCall
  <2>n. PICK n \in Peers : n = todo[1].node
    BY <1>t, <2>2, CallAt
  <2>e. PICK e \in Event : e = todo[1].event
    BY <1>t, <2>1, <2>2, CallAt
  <2>3. /\ e.id \in PendingIds(n) /\ PendingIds(n)' \subseteq PendingIds(n)
        /\ \A id \in PendingIds(n) : id \in PendingIds(n)' \/ id = e.id
        /\ \A m \in Peers \ {n} : PendingIds(m)' = PendingIds(m)
    <3>1. 1 \in Pushes(n)
      BY <2>1, <2>2, <2>n DEF Pushes
    <3>2. e.id \in PendingIds(n)
      BY <3>1, <2>e DEF PendingIds
    <3>3. /\ \A m : PendingIds(m)' \subseteq PendingIds(m)
          /\ \A m \in Peers : \A id \in PendingIds(m) :
               id \in PendingIds(m)' \/ (todo[1].op = "push" /\ m = todo[1].node /\ id = todo[1].event.id)
      BY <1>t, <2>1, FirstCall
    <3> QED BY <3>2, <3>3, <2>n, <2>e
  <2>4. \A m : Flying(m)' = Flying(m)
    BY <2>1 DEF Flying
  <2>5. CASE webhook' = Put(webhook, n, e) /\ poll' = poll
    <3>1. /\ Ids(webhook'[n]) = Ids(webhook[n]) \union {e.id}
          /\ \A m \in Peers \ {n} : webhook'[m] = webhook[m]
      BY <2>5, <1>t, IdsOfAppend DEF Put, TypeOK
    <3>2. Still(n)
      BY <2>1, <2>3, <2>4, <2>5, <3>1, NewWaiting, WaitingIs DEF Still
    <3>3. \A m \in Peers \ {n} : Still(m)
      BY <2>1, <2>3, <2>4, <2>5, <3>1, StillIs
    <3> QED BY <2>1, <3>2, <3>3, NoStep DEF OutboxSteps
  <2>6. CASE poll' = Put(poll, n, e) /\ webhook' = webhook
    <3>1. /\ Ids(poll'[n]) = Ids(poll[n]) \union {e.id}
          /\ \A m \in Peers \ {n} : poll'[m] = poll[m]
      BY <2>6, <1>t, IdsOfAppend DEF Put, TypeOK
    <3>2. Still(n)
      BY <2>1, <2>3, <2>4, <2>6, <3>1, NewWaiting, WaitingIs DEF Still
    <3>3. \A m \in Peers \ {n} : Still(m)
      BY <2>1, <2>3, <2>4, <2>6, <3>1, StillIs
    <3> QED BY <2>1, <3>2, <3>3, NoStep DEF OutboxSteps
  <2>7. CASE UNCHANGED queues
    <3>1. \A m \in Peers : WaitingFor(m)' \subseteq WaitingFor(m)
      BY <2>1, <2>3, <2>4, <2>7, NewWaiting, WaitingIs
    <3> QED BY <1>t, <2>1, <3>1, LoseStep DEF OutboxSteps, Outbox!Next
  <2> QED BY <1>3, <2>2, <2>n, <2>e, <2>5, <2>6, <2>7 DEF PushEventTo
<1>4. CASE FlushWebhookQueue
  BY <1>4, FlushIsStill, NoStep DEF OutboxSteps
<1>5. CASE NodeNotFound
  BY <1>5, <1>f, <1>l DEF NodeNotFound, OutboxSteps, Outbox!Next
<1>6. CASE PartialNode
  BY <1>6, <1>l DEF PartialNode, OutboxSteps, Outbox!Next
<1>7. CASE Delivered
  BY <1>7, <1>f, <1>r DEF Delivered, OutboxSteps, Outbox!Next
<1>8. CASE ConnectError
  BY <1>8, ConnectErrorIsStill, NoStep DEF OutboxSteps
<1>9. CASE OtherHttpError
  BY <1>9, <1>l, <1>r DEF OtherHttpError, OutboxSteps, Outbox!Next
<1>10. CASE UnknownNode
  <2>1. /\ flight # None /\ flight' = None /\ pushes' = pushes + 2 /\ pushes + 2 <= MaxEvents
        /\ UNCHANGED <<received, response, poll, webhook, rerouted>>
    BY <1>10 DEF UnknownNode
  <2>n. PICK n \in Peers : n = flight.node
    BY <2>1, <1>f
  <2>2. todo' = HandshakeCalls(n) /\ todo = <<>>
    <3>1. HandshakeCalls(n) \in Seq(Calls) /\ todo = <<>>
      BY <2>1, <2>n, <1>f, <1>t, HandshakeIsCalls
    <3> QED BY <1>10, <2>n, <3>1, ConcatEmptySeq DEF UnknownNode
  <2>p. PICK left : left = Ids(response[n]) \union Ids(poll[n]) \union Ids(webhook[n])
    OBVIOUS
  <2>3. /\ left \in SUBSET WaitingFor(n)
        /\ WaitingFor(n)' = left \union (pushes + 1)..(pushes + 2)
    BY <1>h, <1>d, <2>1, <2>2, <2>p, NewWaiting, WaitingIs
  <2>4. \A m \in Peers \ {n} : Still(m)
    <3>1. \A m \in Peers \ {n} : Ids(Flying(m)) = {} /\ PendingIds(m) = {}
      BY <1>f, <2>1, <2>2, <2>n, IdsOfEmpty, NoCalls
    <3> QED BY <1>h, <1>d, <2>1, <2>2, <3>1, StillIs
  <2>5. Outbox!Refuse(n)
    BY <2>1, <2>3, <2>4, RefuseStep
  <2> QED BY <2>5 DEF OutboxSteps, Outbox!Next
<1>11. CASE ErrorAnswer
  BY <1>11, <1>f, <1>l DEF ErrorAnswer, OutboxSteps, Outbox!Next
<1>12. ASSUME NEW n \in Peers, FetchFails(n) PROVE UNCHANGED Outbox!vars
  BY <1>12, <1>n DEF FetchFails
<1>13. ASSUME NEW n \in Peers, Poll(n) PROVE UNCHANGED Outbox!vars
  BY <1>13, PollIsStill, NoStep
<1>14. ASSUME NEW n \in Peers, PollEnds(n) PROVE Outbox!Lose \/ Outbox!Receive(n)
  <2>1. /\ response'[n] = <<>> /\ \A m \in Peers \ {n} : response'[m] = response[m]
        /\ UNCHANGED <<poll, webhook, todo, flight, pushes, rerouted>>
    BY <1>14, <1>t DEF PollEnds, TypeOK
  <2>2. \A m : Flying(m)' = Flying(m) /\ PendingIds(m)' = PendingIds(m)
    BY <2>1 DEF Flying, PendingIds, Pushes
  <2>3. \A m \in Peers \ {n} : Still(m)
    BY <2>1, <2>2, StillIs
  <2>s. PICK s \in Seq(Event) : s = response[n]
    BY <1>t, PlaceTypes
  <2>4. /\ WaitingFor(n)' = Ids(poll[n]) \union Ids(Flying(n)) \union Ids(webhook[n])
                            \union PendingIds(n)
        /\ WaitingFor(n) = WaitingFor(n)' \union Ids(s)
    BY <2>1, <2>2, <2>s, NewWaiting, WaitingIs, IdsOfEmpty
  <2>5. CASE UNCHANGED received
    <3>1. \A m \in Peers : WaitingFor(m)' \subseteq WaitingFor(m)
      BY <2>3, <2>4 DEF Still
    <3> QED BY <1>t, <2>1, <2>5, <3>1, LoseStep
  <2>6. CASE received' = [received EXCEPT ![n] = @ \o response[n]]
    <3>1. Unique(s) /\ WaitingFor(n)' \cap Ids(s) = {}
      <4>1. Unique(s)
        BY <2>s DEF IInv, Rest, Distinct, UniqueAt
      <4>2. WaitingFor(n)' \cap Ids(s) = {}
        BY <2>s, <2>4 DEF IInv, Rest, Distinct, ApartAt, Apart
      <4> QED BY <4>1, <4>2
    <3>2. n \notin rerouted => Rising(s) /\ Before(Ids(s), WaitingFor(n)')
      <4> SUFFICES ASSUME n \notin rerouted PROVE Rising(s) /\ Before(Ids(s), WaitingFor(n)')
        OBVIOUS
      <4>1. Rising(s)
        BY <2>s DEF IInv, Rest, Sorted, RisingAt
      <4>2. /\ Before(Ids(s), Ids(poll[n])) /\ Before(Ids(s), Ids(Flying(n)))
            /\ Before(Ids(s), Ids(webhook[n])) /\ Before(Ids(s), PendingIds(n))
        BY <2>s DEF IInv, Rest, Sorted, LineAt, Line
      <4>3. Before(Ids(s), WaitingFor(n)')
        BY <2>4, <4>2 DEF Before
      <4> QED BY <4>1, <4>3
    <3>3. /\ Ids(s) \subseteq WaitingFor(n) /\ WaitingFor(n)' = WaitingFor(n) \ Ids(s)
          /\ received' = [received EXCEPT ![n] = @ \o s]
      BY <2>4, <2>6, <2>s, <3>1
    <3> QED BY <1>t, <2>1, <2>3, <3>1, <3>2, <3>3, ReceiveStep
  <2> QED BY <1>14, <2>5, <2>6 DEF PollEnds
<1>c. ASSUME NEW n \in Peers, Change(n) PROVE Outbox!GoAstray(n) \/ UNCHANGED Outbox!vars
  <2>1. /\ UNCHANGED <<received, response, poll, webhook, todo, flight, pushes>>
        /\ rerouted' = rerouted \/ rerouted' = rerouted \union {n}
    BY <1>c DEF Change
  <2>2. \A m \in Peers : Still(m)
    BY <2>1 DEF Still, WaitingFor, Flying, Pushes
  <2> QED BY <2>1, <2>2, NoStep, GoAstrayStep
<1>15. ASSUME NEW n \in Peers, Learn(n) PROVE Outbox!GoAstray(n) \/ UNCHANGED Outbox!vars
  BY <1>15, <1>c DEF Learn
<1>16. ASSUME NEW n \in Peers, ForgetNode(n) \/ ForgetEdge(n)
       PROVE  Outbox!GoAstray(n) \/ UNCHANGED Outbox!vars
  BY <1>16, <1>c DEF ForgetNode, ForgetEdge
<1>17. CASE Restart
  <2>1. /\ \A m \in Peers : webhook'[m] = <<>> /\ poll'[m] = <<>>
        /\ UNCHANGED <<received, response, todo, flight, pushes, rerouted>>
    BY <1>17 DEF Restart
  <2>2. \A m : Flying(m)' = Flying(m) /\ PendingIds(m)' = PendingIds(m)
    BY <2>1 DEF Flying, PendingIds, Pushes
  <2>3. \A m \in Peers : WaitingFor(m)' \subseteq WaitingFor(m)
    BY <2>1, <2>2, NewWaiting, WaitingIs, IdsOfEmpty
  <2> QED BY <1>t, <2>1, <2>3, LoseStep DEF OutboxSteps, Outbox!Next
<1>18. CASE UNCHANGED vars
  BY <1>18, <1>n DEF vars, OutboxSteps
<1>a. ASSUME NEW n \in Peers,
             \/ Announce(n) \/ Handshake(n) \/ FetchFails(n) \/ Poll(n) \/ PollEnds(n)
             \/ Learn(n) \/ ForgetNode(n) \/ ForgetEdge(n)
      PROVE  OutboxSteps
  BY <1>a, <1>1, <1>2, <1>12, <1>13, <1>14, <1>15, <1>16 DEF OutboxSteps, Outbox!Next
<1>b. CASE Call
  <2>1. ASSUME Outbox!Lose PROVE OutboxSteps
    BY <2>1 DEF OutboxSteps, Outbox!Next
  <2>2. ASSUME NEW n \in Peers, Outbox!Receive(n) PROVE OutboxSteps
    BY <2>2 DEF OutboxSteps, Outbox!Next
  <2> QED BY <1>b, <2>1, <2>2, <1>3, <1>4, <1>5, <1>6, <1>7, <1>8, <1>9, <1>10, <1>11 DEF Call
<1> QED BY <1>a, <1>b, <1>17, <1>18 DEF Next

LEMMA InitIsOutboxInit == Init => Outbox!Init
<1> SUFFICES ASSUME Init PROVE Outbox!Init
  OBVIOUS
<1>1. /\ todo = <<>> /\ pushes = 0 /\ rerouted = {}
      /\ \A n \in Peers : /\ received[n] = <<>> /\ response[n] = <<>> /\ poll[n] = <<>>
                          /\ Flying(n) = <<>> /\ webhook[n] = <<>>
  BY DEF Init, Flying
<1>2. \A n \in Peers : WaitingFor(n) = {}
  BY <1>1, WaitingIs, IdsOfEmpty, NoCalls
<1>3. \A n \in Peers : Numbers(received[n]) = <<>>
  BY <1>1 DEF Numbers
<1> QED BY <1>1, <1>2, <1>3 DEF Outbox!Init
-----------------------------------------------------------------------------
(* Whatever the network, the error handler and the peers' polls do, and     *)
(* however often the node is restarted, the event queue is an outbox: each  *)
(* event is received once or lost for good, in order for every peer whose   *)
(* kind of queue did not change under way.                                  *)
THEOREM EventQueueIsAnOutbox == Spec => ImplementsOutbox
<1>1. Init => Outbox!Init
  BY InitIsOutboxInit
<1>2. IInv /\ [Next]_vars => [Outbox!Next]_(Outbox!vars)
  BY StepIsOutboxStep
<1> QED BY <1>1, <1>2, InvariantHolds, PTL DEF Spec, ImplementsOutbox, Outbox!Spec
-----------------------------------------------------------------------------
(* What a step may take away from what waits for a peer.                    *)

(* A step that leaves the queues and the poll responses alone, and makes no *)
(* push, takes away no more than what is on the wire.                       *)
LEMMA OnlyTheWireEmpties ==
    ASSUME NEW n, PendingIds(n) = {}, UNCHANGED <<response, poll, webhook>>
    PROVE  \A id \in WaitingFor(n) : id \in WaitingFor(n)' \/ id \in Ids(Flying(n))
<1>1. /\ WaitingFor(n) = Ids(response[n]) \union Ids(poll[n]) \union Ids(Flying(n)) \union Ids(webhook[n])
      /\ Ids(response[n]) \union Ids(poll[n]) \union Ids(webhook[n]) \subseteq WaitingFor(n)'
  BY WaitingIs, NewWaiting
<1> QED BY <1>1

(* A push puts what was in a queue before into a queue again: its peer is   *)
(* known (Requeued).                                                        *)
LEMMA PushesKeep ==
    ASSUME IInv, PushEventTo, NEW n \in Peers, NEW id \in WaitingFor(n) \intersect accepted
    PROVE  id \in WaitingFor(n)'
<1> USE DEF queues
<1>t. TypeOK
  BY DEF IInv
<1>1. /\ todo # <<>> /\ todo' = Tail(todo) /\ flight = None /\ flight' = None
      /\ Head(todo).op = "push" /\ response' = response
  BY DEF PushEventTo
<1>2. /\ 1 \in DOMAIN todo /\ Head(todo) = todo[1]
      /\ id \in PendingIds(n) => (id \in PendingIds(n)' \/ (n = todo[1].node /\ id = todo[1].event.id))
  BY <1>t, <1>1, FirstCall
<1>3. todo[1].node \in Peers /\ todo[1].event \in Event
  BY <1>t, <1>1, <1>2, CallAt
<1>4. \A m : Flying(m)' = Flying(m)
  BY <1>1 DEF Flying
<1>5. /\ Ids(webhook[n]) \subseteq Ids(webhook'[n]) /\ Ids(poll[n]) \subseteq Ids(poll'[n])
      /\ n = todo[1].node /\ Route(n) # None => todo[1].event.id \in Ids(webhook'[n]) \union Ids(poll'[n])
  <2>m. PICK m \in Peers : m = todo[1].node
    BY <1>3
  <2>e. PICK e \in Event : e = todo[1].event
    BY <1>3
  <2>1. CASE webhook' = Put(webhook, m, e) /\ poll' = poll
    <3>1. /\ Ids(webhook'[m]) = Ids(webhook[m]) \union {e.id}
          /\ \A p \in Peers \ {m} : webhook'[p] = webhook[p]
      BY <2>1, <1>t, IdsOfAppend DEF Put, TypeOK
    <3> QED BY <2>1, <2>m, <2>e, <3>1
  <2>2. CASE poll' = Put(poll, m, e) /\ webhook' = webhook
    <3>1. /\ Ids(poll'[m]) = Ids(poll[m]) \union {e.id}
          /\ \A p \in Peers \ {m} : poll'[p] = poll[p]
      BY <2>2, <1>t, IdsOfAppend DEF Put, TypeOK
    <3> QED BY <2>2, <2>m, <2>e, <3>1
  <2>3. CASE Route(m) = None /\ UNCHANGED queues
    BY <2>3, <2>m
  <2> QED BY <1>2, <2>m, <2>e, <2>1, <2>2, <2>3 DEF PushEventTo
<1>6. n = todo[1].node /\ id = todo[1].event.id => Route(n) # None
  BY <1>1, <1>2 DEF IInv, Rest, Requeued
<1> QED BY <1>1, <1>2, <1>4, <1>5, <1>6, WaitingIs, NewWaiting

LEMMA StepStaysOffTheWire == IInv /\ [Next]_vars => [Restart \/ StaysOffTheWire]_vars
<1> SUFFICES ASSUME IInv, Next, ~Restart, NEW n \in Peers, NEW id \in WaitingFor(n) \intersect accepted,
                    id \notin WaitingFor(n)'
             PROVE  id \in Ids(response[n]) \/ (id \in Ids(Flying(n)) /\ ~ConnectError)
  BY DEF StaysOffTheWire, Vanished
<1> USE DEF known, queues, thread, errors, outcome
<1>t. TypeOK
  BY DEF IInv
<1>f. flight # None => PendingIds(n) = {}
  BY NoCalls DEF IInv, OneCall
<1>s. ~Still(n)
  BY DEF Still
<1>w. ASSUME PendingIds(n) = {}, UNCHANGED <<response, poll, webhook>>, ~ConnectError
      PROVE  id \in Ids(Flying(n)) /\ ~ConnectError
  BY <1>w, OnlyTheWireEmpties
<1>1. ~ConnectError /\ ~FlushWebhookQueue /\ \A m \in Peers : ~Poll(m)
  BY <1>s, ConnectErrorIsStill, FlushIsStill, PollIsStill
<1>2. CASE PushEventTo
  BY <1>2, PushesKeep
<1>3. CASE NodeNotFound \/ PartialNode \/ Delivered \/ OtherHttpError \/ UnknownNode \/ ErrorAnswer
  <2>1. flight # None /\ UNCHANGED <<response, poll, webhook>>
    BY <1>3 DEF NodeNotFound, PartialNode, Delivered, OtherHttpError, UnknownNode, ErrorAnswer
  <2> QED BY <2>1, <1>1, <1>f, <1>w
<1>4. ASSUME NEW m \in Peers, \/ Announce(m) \/ Handshake(m) \/ FetchFails(m)
                              \/ Learn(m) \/ ForgetNode(m) \/ ForgetEdge(m)
      PROVE  id \in Ids(Flying(n)) /\ ~ConnectError
  <2>1. todo = <<>> /\ UNCHANGED <<response, poll, webhook>>
    BY <1>4 DEF Announce, Handshake, FetchFails, Learn, ForgetNode, ForgetEdge, Change, Idle
  <2> QED BY <2>1, <1>1, <1>w, NoCalls
<1>5. ASSUME NEW m \in Peers, PollEnds(m) PROVE id \in Ids(response[n])
  <2>1. UNCHANGED <<poll, webhook, todo, flight>>
    BY <1>5 DEF PollEnds
  <2>2. Flying(n)' = Flying(n) /\ PendingIds(n)' = PendingIds(n)
    BY <2>1 DEF Flying, PendingIds, Pushes
  <2> QED BY <2>1, <2>2, WaitingIs, NewWaiting
<1> QED BY <1>1, <1>2, <1>3, <1>4, <1>5 DEF Next, Call

(* As long as a node runs, an event that was in a queue is lost only with   *)
(* the request or the poll response it is on, and never when the connection *)
(* is refused, whatever else happens to the node, its peers and its cache.  *)
THEOREM EventsAreLostOnTheWireOnly == Spec => LostOnlyOnTheWire
<1>1. IInv /\ [Next]_vars => [Restart \/ StaysOffTheWire]_vars
  BY StepStaysOffTheWire
<1> QED BY <1>1, InvariantHolds, PTL DEF Spec, LostOnlyOnTheWire
=============================================================================
