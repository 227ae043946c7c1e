----------------------- MODULE NetworkEventQueue_proofs -----------------------
(***************************************************************************)
(* Proofs about the outgoing events of a node.  Every event keeps the      *)
(* number it was pushed with, so an invariant about who gets what, how     *)
(* often and in which order is one about the numbers in the places an      *)
(* event can be in: received, in a poll response, in the poll queue, on    *)
(* the wire, in the webhook queue, or in a push the thread has still to    *)
(* make.                                                                   *)
(***************************************************************************)
EXTENDS NetworkEventQueue, DataInduction, SequenceTheorems

USE QueueAssumption

Calls == [op : {"push"}, node : Peers, event : Event] \union [op : {"flush"}, node : Peers]

PendingIds(n) == {todo[i].event.id : i \in Pushes(n)}

(* What the thread does in one call: events for one peer, and a flush only *)
(* after the last of them, so that it has nothing else to do while a       *)
(* request is underway.                                                    *)
OneCall ==
    /\ flight # None => todo = <<>> /\ webhook[flight.node] = <<>>
    /\ \A i \in DOMAIN todo : todo[i].op = "flush" => i = Len(todo)
    /\ \A i, j \in DOMAIN todo : todo[i].node = todo[j].node

Queued(n) == Ids(received[n]) \union Ids(response[n]) \union Ids(poll[n])
             \union Ids(Flying(n)) \union Ids(webhook[n])

(* Numbers are given in the order of the pushes, and what is in a place    *)
(* other than the calls has been in a queue.                               *)
Numbered ==
    /\ \A id \in accepted : id <= pushes
    /\ \A l \in lost : l[1] \in 0..pushes
    /\ \A n \in Peers : \A id \in PendingIds(n) : id <= pushes
    /\ \A n \in Peers : Queued(n) \subseteq accepted

(* A push whose event was in a queue before, after a failed broadcast, will *)
(* find the peer known; and no push is for an event already dropped.        *)
Requeued ==
    /\ \A i \in DOMAIN todo : todo[i].op = "push" /\ todo[i].event.id \in accepted
                                => Route(todo[i].node) # None
    /\ \A n \in Peers : \A id \in PendingIds(n) : <<id, "unknown to me">> \notin lost
    /\ RequeueNeverDrops

Unique(s) == \A i, j \in DOMAIN s : s[i].id = s[j].id => i = j
Apart(a, b, c, d, e, f) ==
    /\ a \cap b = {} /\ a \cap c = {} /\ a \cap d = {} /\ a \cap e = {} /\ a \cap f = {}
    /\ b \cap c = {} /\ b \cap d = {} /\ b \cap e = {} /\ b \cap f = {}
    /\ c \cap d = {} /\ c \cap e = {} /\ c \cap f = {}
    /\ d \cap e = {} /\ d \cap f = {}
    /\ e \cap f = {}

UniqueAt(n) ==
    /\ Unique(received[n]) /\ Unique(response[n]) /\ Unique(poll[n])
    /\ Unique(Flying(n)) /\ Unique(webhook[n])
    /\ \A i, j \in Pushes(n) : todo[i].event.id = todo[j].event.id => i = j
ApartAt(n) == Apart(Ids(received[n]), Ids(response[n]), Ids(poll[n]), Ids(Flying(n)),
                    Ids(webhook[n]), PendingIds(n))

(* While its kind of queue is kept, a peer has events on one way only.      *)
OneWay ==
    \A n \in Peers \ rerouted :
        /\ webhook[n] # <<>> => Route(n) = "WEBHOOK"
        /\ Flying(n) # <<>> => Route(n) = "WEBHOOK"
        /\ poll[n] # <<>> \/ response[n] # <<>> => Route(n) = "POLL"

Rising(s) == \A i, j \in DOMAIN s : i < j => s[i].id < s[j].id
Before(A, B) == \A x \in A, y \in B : x < y
Line(a, b, c, d, e, f) ==
    /\ Before(a, b) /\ Before(a, c) /\ Before(a, d) /\ Before(a, e) /\ Before(a, f)
    /\ Before(b, c) /\ Before(b, d) /\ Before(b, e) /\ Before(b, f)
    /\ Before(c, d) /\ Before(c, e) /\ Before(c, f)
    /\ Before(d, e) /\ Before(d, f)
    /\ Before(e, f)
RisingAt(n) ==
    /\ Rising(received[n]) /\ Rising(response[n]) /\ Rising(poll[n])
    /\ Rising(Flying(n)) /\ Rising(webhook[n])
    /\ \A i, j \in Pushes(n) : i < j => todo[i].event.id < todo[j].event.id
LineAt(n) == Line(Ids(received[n]), Ids(response[n]), Ids(poll[n]), Ids(Flying(n)),
                  Ids(webhook[n]), PendingIds(n))

Distinct == \A n \in Peers : UniqueAt(n) /\ ApartAt(n)
Sorted == \A n \in Peers \ rerouted : RisingAt(n) /\ LineAt(n)
-----------------------------------------------------------------------------
(* Sequences of events.                                                     *)

LEMMA IdsOfEmpty == Ids(<<>>) = {} /\ Unique(<<>>) /\ Rising(<<>>)
  BY DEF Ids, Unique, Rising

LEMMA IdsOfAppend ==
    ASSUME NEW s \in Seq(Event), NEW e \in Event
    PROVE  /\ Append(s, e) \in Seq(Event)
           /\ Ids(Append(s, e)) = Ids(s) \union {e.id}
           /\ Unique(Append(s, e)) <=> Unique(s) /\ e.id \notin Ids(s)
           /\ Rising(Append(s, e)) <=> Rising(s) /\ Before(Ids(s), {e.id})
<1> DEFINE t == Append(s, e)
<1>1. t \in Seq(Event) /\ DOMAIN s = 1..Len(s) /\ DOMAIN t = 1..(Len(s) + 1) /\ Len(s) \in Nat
  BY AppendProperties, LenProperties
<1>2. t[Len(s) + 1] = e /\ \A i \in 1..Len(s) : t[i] = s[i]
  BY AppendProperties
<1>3. \A i \in DOMAIN t : i \in DOMAIN s \/ i = Len(s) + 1
  BY <1>1
<1> HIDE DEF t
<1>4. Ids(t) = Ids(s) \union {e.id}
  BY <1>1, <1>2, <1>3 DEF Ids
<1>5. Unique(t) <=> Unique(s) /\ e.id \notin Ids(s)
  BY <1>1, <1>2, <1>3 DEF Unique, Ids
<1>6. Rising(t) <=> Rising(s) /\ Before(Ids(s), {e.id})
  <2>1. ASSUME Rising(t) PROVE Rising(s) /\ Before(Ids(s), {e.id})
    BY <2>1, <1>1, <1>2, <1>3 DEF Rising, Ids, Before
  <2>2. ASSUME Rising(s), Before(Ids(s), {e.id}) PROVE Rising(t)
    BY <2>2, <1>1, <1>2, <1>3 DEF Rising, Ids, Before
  <2> QED BY <2>1, <2>2
<1> QED BY <1>1, <1>4, <1>5, <1>6 DEF t

LEMMA IdsOfConcat ==
    ASSUME NEW s \in Seq(Event), NEW t \in Seq(Event)
    PROVE  /\ s \o t \in Seq(Event)
           /\ Ids(s \o t) = Ids(s) \union Ids(t)
           /\ Unique(s \o t) <=> Unique(s) /\ Unique(t) /\ Ids(s) \cap Ids(t) = {}
           /\ Rising(s \o t) <=> Rising(s) /\ Rising(t) /\ Before(Ids(s), Ids(t))
<1> DEFINE u == s \o t
           a == Len(s)
<1>1. /\ u \in Seq(Event) /\ a \in Nat /\ Len(t) \in Nat
      /\ DOMAIN s = 1..a /\ DOMAIN t = 1..Len(t) /\ DOMAIN u = 1..(a + Len(t))
  BY ConcatProperties, LenProperties
<1>2. /\ \A i \in DOMAIN s : i \in DOMAIN u /\ u[i] = s[i]
      /\ \A i \in DOMAIN t : a + i \in DOMAIN u /\ u[a + i] = t[i]
  BY <1>1, ConcatProperties
<1>3. \A k \in DOMAIN u : k \in DOMAIN s \/ (k - a \in DOMAIN t /\ k = a + (k - a) /\ k > a)
  BY <1>1
<1>a. /\ \A i \in DOMAIN s : s[i].id \in Ids(s)
      /\ \A i \in DOMAIN t : t[i].id \in Ids(t)
      /\ \A x \in Ids(s) : \E i \in DOMAIN s : x = s[i].id
      /\ \A x \in Ids(t) : \E i \in DOMAIN t : x = t[i].id
  BY DEF Ids
<1>b. \A k \in DOMAIN u : (k \in DOMAIN s /\ u[k] = s[k])
                         \/ (k - a \in DOMAIN t /\ u[k] = t[k - a] /\ k > a)
  BY <1>2, <1>3
<1> HIDE DEF u, a
<1>4. Ids(u) = Ids(s) \union Ids(t)
  <2>1. Ids(u) \subseteq Ids(s) \union Ids(t)
    BY <1>b, <1>a DEF Ids
  <2>2. Ids(s) \union Ids(t) \subseteq Ids(u)
    BY <1>2, <1>a DEF Ids
  <2> QED BY <2>1, <2>2
<1>5. Unique(u) <=> Unique(s) /\ Unique(t) /\ Ids(s) \cap Ids(t) = {}
  <2>1. ASSUME Unique(u) PROVE Unique(s) /\ Unique(t) /\ Ids(s) \cap Ids(t) = {}
    <3>1. Unique(s)
      BY <2>1, <1>2 DEF Unique
    <3>2. Unique(t)
      <4> SUFFICES ASSUME NEW i \in DOMAIN t, NEW j \in DOMAIN t, t[i].id = t[j].id PROVE i = j
        BY DEF Unique
      <4>1. a + i = a + j
        BY <2>1, <1>2 DEF Unique
      <4> QED BY <4>1, <1>1
    <3>3. ASSUME NEW i \in DOMAIN s, NEW j \in DOMAIN t, s[i].id = t[j].id PROVE FALSE
      <4>1. i = a + j
        BY <2>1, <3>3, <1>2 DEF Unique
      <4> QED BY <4>1, <1>1
    <3> QED BY <3>1, <3>2, <3>3, <1>a
  <2>2. ASSUME Unique(s), Unique(t), Ids(s) \cap Ids(t) = {} PROVE Unique(u)
    <3> SUFFICES ASSUME NEW i \in DOMAIN u, NEW j \in DOMAIN u, u[i].id = u[j].id PROVE i = j
      BY DEF Unique
    <3>1. CASE i \in DOMAIN s /\ u[i] = s[i]
      BY <3>1, <2>2, <1>b, <1>a DEF Unique
    <3>2. CASE i - a \in DOMAIN t /\ u[i] = t[i - a]
      <4>1. j - a \in DOMAIN t /\ u[j] = t[j - a]
        BY <3>2, <2>2, <1>b, <1>a
      <4>2. i - a = j - a
        BY <4>1, <3>2, <2>2 DEF Unique
      <4> QED BY <4>2, <1>1
    <3> QED BY <3>1, <3>2, <1>b
  <2> QED BY <2>1, <2>2
<1>6. Rising(u) <=> Rising(s) /\ Rising(t) /\ Before(Ids(s), Ids(t))
  <2>1. ASSUME Rising(u) PROVE Rising(s) /\ Rising(t) /\ Before(Ids(s), Ids(t))
    <3>1. Rising(s)
      BY <2>1, <1>2 DEF Rising
    <3>2. Rising(t)
      <4> SUFFICES ASSUME NEW i \in DOMAIN t, NEW j \in DOMAIN t, i < j PROVE t[i].id < t[j].id
        BY DEF Rising
      <4>1. a + i < a + j
        BY <1>1
      <4> QED BY <4>1, <2>1, <1>2 DEF Rising
    <3>3. ASSUME NEW i \in DOMAIN s, NEW j \in DOMAIN t PROVE s[i].id < t[j].id
      <4>1. i < a + j
        BY <1>1
      <4> QED BY <4>1, <2>1, <1>2 DEF Rising
    <3> QED BY <3>1, <3>2, <3>3, <1>a DEF Before
  <2>2. ASSUME Rising(s), Rising(t), Before(Ids(s), Ids(t)) PROVE Rising(u)
    <3> SUFFICES ASSUME NEW i \in DOMAIN u, NEW j \in DOMAIN u, i < j PROVE u[i].id < u[j].id
      BY DEF Rising
    <3>1. CASE i \in DOMAIN s /\ j \in DOMAIN s
      BY <3>1, <2>2, <1>2 DEF Rising
    <3>2. CASE i \in DOMAIN s /\ j \notin DOMAIN s
      <4>1. j - a \in DOMAIN t /\ u[j] = t[j - a] /\ u[i] = s[i]
        BY <3>2, <1>b, <1>2
      <4> QED BY <4>1, <3>2, <2>2, <1>a DEF Before
    <3>3. CASE i \notin DOMAIN s
      <4>1. i - a \in DOMAIN t /\ u[i] = t[i - a] /\ j \notin DOMAIN s
        BY <3>3, <1>b, <1>1
      <4>2. j - a \in DOMAIN t /\ u[j] = t[j - a] /\ i - a < j - a
        BY <4>1, <1>b, <1>1
      <4> QED BY <4>1, <4>2, <2>2 DEF Rising
    <3> QED BY <3>1, <3>2, <3>3
  <2> QED BY <2>1, <2>2
<1> QED BY <1>1, <1>4, <1>5, <1>6 DEF u
-----------------------------------------------------------------------------
(* Types.                                                                   *)

Places == [Peers -> Seq(Event)]

LEMMA NewCall ==
    ASSUME NEW n \in Peers, NEW k \in {1, 2}, NEW kind \in Kinds, pushes \in Nat,
           pushes + k <= MaxEvents
    PROVE  PushCall(n, NewEvent(k, kind)) \in Calls
<1>1. NewEvent(k, kind) \in Event
  BY DEF NewEvent, Event
<1> QED BY <1>1 DEF PushCall, Calls

LEMMA FlushIsCall == ASSUME NEW n \in Peers PROVE FlushCall(n) \in Calls
  BY DEF FlushCall, Calls

LEMMA ShortSequences ==
    ASSUME NEW S, NEW a \in S, NEW b \in S, NEW c \in S
    PROVE  <<a>> \in Seq(S) /\ <<a, b>> \in Seq(S) /\ <<a, b, c>> \in Seq(S)
  OBVIOUS

LEMMA HandshakeIsCalls ==
    ASSUME NEW n \in Peers, pushes \in Nat, pushes + 2 <= MaxEvents
    PROVE  HandshakeCalls(n) \in Seq(Calls)
<1>1. "bye" \in Kinds /\ "hello" \in Kinds
  BY DEF Kinds
<1>2. pushes + 1 <= MaxEvents
  OBVIOUS
<1>3. PushCall(n, NewEvent(1, "bye")) \in Calls /\ PushCall(n, NewEvent(2, "hello")) \in Calls
  BY <1>1, <1>2, NewCall
<1> QED BY <1>3, FlushIsCall DEF HandshakeCalls

LEMMA RequeueIsCalls ==
    ASSUME NEW n \in Peers, NEW events \in Seq(Event)
    PROVE  /\ Requeue(n, events) \in Seq(Calls)
           /\ DOMAIN Requeue(n, events) = DOMAIN events
           /\ \A i \in DOMAIN events : Requeue(n, events)[i] = PushCall(n, events[i])
<1>1. Len(events) \in Nat /\ DOMAIN events = 1..Len(events) /\ \A i \in 1..Len(events) : events[i] \in Event
  BY LenProperties, ElementOfSeq
<1>2. \A i \in 1..Len(events) : PushCall(n, events[i]) \in Calls
  BY <1>1 DEF PushCall, Calls
<1> QED BY <1>1, <1>2 DEF Requeue

(* The steps below name a peer's part of a queue.                           *)
LEMMA PutType ==
    ASSUME NEW queue \in Places, NEW n \in Peers, NEW e \in Event
    PROVE  Put(queue, n, e) \in Places
  BY AppendProperties DEF Put, Places

LEMMA DrainType ==
    ASSUME NEW queue \in Places, NEW n \in Peers
    PROVE  Drain(queue, n) \in Places
  BY EmptySeq DEF Drain, Places

LEMMA AddType ==
    ASSUME NEW place \in Places, NEW n \in Peers, NEW events \in Seq(Event)
    PROVE  [place EXCEPT ![n] = @ \o events] \in Places
  BY ConcatProperties DEF Places

LEMMA TypeInit == Init => TypeOK
<1> SUFFICES ASSUME Init PROVE TypeOK
  OBVIOUS
<1>1. [n \in Peers |-> <<>>] \in [Peers -> Seq(Event)]
  BY EmptySeq
<1> QED BY <1>1 DEF Init, TypeOK

(* TypeOK by the names of its parts: a step is seen to keep those it leaves *)
(* alone without a look into them.                                          *)
Requests == [node : Peers, events : Seq(Event)] \union {None}
Types == [Peers -> {"FULL", "PARTIAL", None}]
Kept == [Peers -> {"WEBHOOK", "POLL", None}]
Counts == [Peers -> 0..4]

Typed ==
    /\ profile \in Types /\ edge \in Kept
    /\ webhook \in Places /\ poll \in Places
    /\ todo \in Seq(Calls) /\ flight \in Requests
    /\ response \in Places /\ received \in Places
    /\ counter \in Counts /\ forgets \subseteq Peers
    /\ pushes \in 0..MaxEvents /\ changes \in 0..MaxChanges
    /\ accepted \subseteq 1..MaxEvents /\ rerouted \subseteq Peers

LEMMA TypesByName == TypeOK <=> Typed
  BY DEF TypeOK, Typed, Types, Kept, Places, Calls, Requests, Counts

TypedAfter ==
    /\ profile' \in Types /\ edge' \in Kept
    /\ webhook' \in Places /\ poll' \in Places
    /\ todo' \in Seq(Calls) /\ flight' \in Requests
    /\ response' \in Places /\ received' \in Places
    /\ counter' \in Counts /\ forgets' \subseteq Peers
    /\ pushes' \in 0..MaxEvents /\ changes' \in 0..MaxChanges
    /\ accepted' \subseteq 1..MaxEvents /\ rerouted' \subseteq Peers

LEMMA TypesAfter == TypedAfter => TypeOK'
  BY DEF TypeOK, TypedAfter, Types, Kept, Places, Calls, Requests, Counts

LEMMA TypedStep == Typed /\ [Next]_vars => TypedAfter
<1> SUFFICES ASSUME Typed, [Next]_vars PROVE TypedAfter
  OBVIOUS
<1>t. /\ webhook \in Places /\ poll \in Places /\ response \in Places /\ received \in Places
      /\ todo \in Seq(Calls) /\ pushes \in Nat
  BY DEF Typed
<1>n. None \in Requests /\ <<>> \in Seq(Calls)
  BY EmptySeq DEF Requests
<1> USE DEF known, queues, thread, errors, outcome
<1>f. ASSUME flight # None PROVE flight.node \in Peers /\ flight.events \in Seq(Event)
  BY <1>f DEF Typed, Requests
<1>c. ASSUME NEW n \in Peers, CountConnectionError(n)
      PROVE  counter' \in Counts /\ forgets' \subseteq Peers /\ UNCHANGED known
  BY <1>c DEF CountConnectionError, Typed, Counts
<1>1. ASSUME NEW n \in Peers, Announce(n) PROVE TypedAfter
  <2>1. pushes + 1 <= MaxEvents /\ pushes' = pushes + 1
    BY <1>1, <1>t DEF Announce, Typed
  <2>2. PushCall(n, NewEvent(1, "note")) \in Calls
    BY <2>1, <1>t, NewCall DEF Kinds
  <2>3. todo' \in Seq(Calls)
    <3>1. FlushCall(n) \in Calls
      BY FlushIsCall
    <3>2. /\ <<PushCall(n, NewEvent(1, "note")), FlushCall(n)>> \in Seq(Calls)
          /\ <<PushCall(n, NewEvent(1, "note"))>> \in Seq(Calls)
      BY <2>2, <3>1, ShortSequences
    <3> QED BY <1>1, <3>2 DEF Announce
  <2>4. pushes' \in 0..MaxEvents
    BY <2>1, <1>t
  <2> QED BY <2>3, <2>4, <1>1 DEF Announce, Typed, TypedAfter
<1>2. ASSUME NEW n \in Peers, Handshake(n) PROVE TypedAfter
  <2>1. todo' \in Seq(Calls)
    BY <1>2, <1>t, HandshakeIsCalls DEF Handshake
  <2> QED BY <2>1, <1>2 DEF Handshake, Typed, TypedAfter
<1>3. CASE PushEventTo
  <2>1. Head(todo) \in Calls /\ Tail(todo) \in Seq(Calls)
    BY <1>3, <1>t, HeadTailProperties DEF PushEventTo
  <2>2. Head(todo).node \in Peers /\ Head(todo).event \in Event
    BY <1>3, <2>1 DEF PushEventTo, Calls
  <2>3. Head(todo).event.id \in 1..MaxEvents
    BY <2>2 DEF Event
  <2>4. webhook' \in Places /\ poll' \in Places
    BY <1>3, <1>t, <2>2, PutType DEF PushEventTo
  <2>5. accepted' \subseteq 1..MaxEvents
    BY <1>3, <2>3 DEF PushEventTo, Typed
  <2> QED BY <2>1, <2>4, <2>5, <1>3 DEF PushEventTo, Typed, TypedAfter
<1>4. CASE FlushWebhookQueue
  <2>1. Head(todo) \in Calls /\ Tail(todo) \in Seq(Calls)
    BY <1>4, <1>t, HeadTailProperties DEF FlushWebhookQueue
  <2>2. Head(todo).node \in Peers
    BY <1>4, <2>1 DEF FlushWebhookQueue, Calls
  <2>3. webhook' \in Places
    BY <1>4, <1>t, <2>2, DrainType DEF FlushWebhookQueue
  <2>4. flight' \in Requests
    BY <1>4, <1>t, <2>2 DEF FlushWebhookQueue, Requests, Places
  <2> QED BY <2>1, <2>3, <2>4, <1>4 DEF FlushWebhookQueue, Typed, TypedAfter
<1>5. CASE NodeNotFound
  BY <1>5, <1>n DEF NodeNotFound, Typed, TypedAfter
<1>6. CASE PartialNode
  <2>1. todo' \in Seq(Calls)
    BY <1>6, EmptySeq DEF PartialNode
  <2> QED BY <2>1, <1>6, <1>n DEF PartialNode, Typed, TypedAfter
<1>7. CASE Delivered
  <2>1. received' \in Places
    BY <1>7, <1>t, <1>f, AddType DEF Delivered
  <2> QED BY <2>1, <1>7, <1>n DEF Delivered, Typed, TypedAfter
<1>8. CASE ConnectError
  <2>1. todo' \in Seq(Calls)
    BY <1>8, <1>t, <1>f, RequeueIsCalls, ConcatProperties DEF ConnectError
  <2>2. counter' \in Counts /\ forgets' \subseteq Peers /\ UNCHANGED known
    BY <1>8, <1>f, <1>c DEF ConnectError
  <2> QED BY <2>1, <2>2, <1>8, <1>n DEF ConnectError, Typed, TypedAfter
<1>9. CASE OtherHttpError
  <2>1. todo' \in Seq(Calls)
    BY <1>9, EmptySeq DEF OtherHttpError
  <2>2. received' \in Places
    <3>1. flight.node \in Peers /\ flight.events \in Seq(Event)
      BY <1>9, <1>f DEF OtherHttpError
    <3>2. [received EXCEPT ![flight.node] = @ \o flight.events] \in Places
      BY <1>t, <3>1, AddType
    <3> QED BY <1>9, <1>t, <3>2 DEF OtherHttpError
  <2> QED BY <2>1, <2>2, <1>9, <1>n DEF OtherHttpError, Typed, TypedAfter
<1>10. CASE UnknownNode
  <2>1. todo' \in Seq(Calls)
    <3>1. flight.node \in Peers /\ pushes + 2 <= MaxEvents
      BY <1>10, <1>f DEF UnknownNode
    <3>2. HandshakeCalls(flight.node) \in Seq(Calls)
      BY <3>1, <1>t, HandshakeIsCalls
    <3> QED BY <1>10, <1>t, <3>2, ConcatProperties DEF UnknownNode
  <2>a. pushes' = pushes + 2 /\ pushes + 2 <= MaxEvents
    BY <1>10 DEF UnknownNode
  <2>2. pushes' \in 0..MaxEvents
    BY <2>a, <1>t
  <2> QED BY <2>1, <2>2, <1>10, <1>n DEF UnknownNode, Typed, TypedAfter
<1>11. CASE ErrorAnswer
  BY <1>11, <1>n DEF ErrorAnswer, Typed, TypedAfter
<1>12. ASSUME NEW n \in Peers, FetchFails(n) PROVE TypedAfter
  <2>1. counter' \in Counts /\ forgets' \subseteq Peers /\ UNCHANGED known
    BY <1>12, <1>c DEF FetchFails
  <2> QED BY <2>1, <1>12 DEF FetchFails, Typed, TypedAfter
<1>13. ASSUME NEW n \in Peers, Poll(n) PROVE TypedAfter
  <2>1. poll' \in Places
    BY <1>13, <1>t, DrainType DEF Poll
  <2>2. response' \in Places
    BY <1>13, <1>t DEF Poll, Places
  <2> QED BY <2>1, <2>2, <1>13 DEF Poll, Typed, TypedAfter
<1>14. ASSUME NEW n \in Peers, PollEnds(n) PROVE TypedAfter
  <2>1. response' \in Places
    BY <1>14, <1>t, EmptySeq DEF PollEnds, Places
  <2>2. response[n] \in Seq(Event)
    BY <1>t DEF Places
  <2>3. received' \in Places
    <3>1. [received EXCEPT ![n] = @ \o response[n]] \in Places
      BY <1>t, <2>2, AddType
    <3> QED BY <1>14, <1>t, <3>1 DEF PollEnds
  <2> QED BY <2>1, <2>3, <1>14 DEF PollEnds, Typed, TypedAfter
<1>15. ASSUME NEW n \in Peers, Learn(n) PROVE TypedAfter
  <2>1. /\ profile' \in Types
        /\ edge' \in Kept
    BY <1>15 DEF Learn, Typed, Types, Kept
  <2>2. rerouted' \subseteq Peers /\ changes' \in 0..MaxChanges
    BY <1>15 DEF Learn, Change, Typed
  <2> QED BY <2>1, <2>2, <1>15 DEF Learn, Change, Typed, TypedAfter
<1>16. ASSUME NEW n \in Peers, ForgetNode(n) PROVE TypedAfter
  <2>1. /\ profile' \in Types
        /\ edge' \in Kept
    BY <1>16 DEF ForgetNode, Typed, Types, Kept
  <2>2. rerouted' \subseteq Peers /\ changes' \in 0..MaxChanges
    BY <1>16 DEF ForgetNode, Change, Typed
  <2> QED BY <2>1, <2>2, <1>16 DEF ForgetNode, Change, Typed, TypedAfter
<1>17. ASSUME NEW n \in Peers, ForgetEdge(n) PROVE TypedAfter
  <2>1. /\ profile' \in Types
        /\ edge' \in Kept
    BY <1>17 DEF ForgetEdge, Typed, Types, Kept
  <2>2. rerouted' \subseteq Peers /\ changes' \in 0..MaxChanges
    BY <1>17 DEF ForgetEdge, Change, Typed
  <2> QED BY <2>1, <2>2, <1>17 DEF ForgetEdge, Change, Typed, TypedAfter
<1>18. CASE Restart
  <2>1. webhook' \in Places /\ poll' \in Places
    BY <1>18, EmptySeq DEF Restart, Places
  <2>2. changes' \in 0..MaxChanges /\ counter' \in Counts
    BY <1>18 DEF Restart, Typed, Counts
  <2> QED BY <2>1, <2>2, <1>18 DEF Restart, Typed, TypedAfter
<1>19. CASE UNCHANGED vars
  BY <1>19 DEF vars, Typed, TypedAfter
<1> QED
  BY <1>1, <1>2, <1>3, <1>4, <1>5, <1>6, <1>7, <1>8, <1>9, <1>10, <1>11, <1>12, <1>13, <1>14,
     <1>15, <1>16, <1>17, <1>18, <1>19 DEF Next, Call

LEMMA TypeStep == TypeOK /\ [Next]_vars => TypeOK'
<1> HAVE TypeOK /\ [Next]_vars
<1>1. TypedAfter
  BY TypesByName, TypedStep
<1> QED BY <1>1, TypesAfter

(* Whatever the network does, every event stays an event of the calls and   *)
(* queues it is in, and the error handler's counters stay counters.         *)
THEOREM EventQueueTypes == Spec => []TypeOK
  BY TypeInit, TypeStep, PTL DEF Spec
-----------------------------------------------------------------------------
(* The calls of the thread, before and after a step.                        *)

LEMMA CallAt ==
    ASSUME TypeOK
    PROVE  /\ Len(todo) \in Nat /\ DOMAIN todo = 1..Len(todo)
           /\ \A i \in DOMAIN todo : /\ todo[i] \in Calls /\ todo[i].node \in Peers
                                     /\ todo[i].op \in {"push", "flush"}
                                     /\ todo[i].op = "push" => todo[i].event \in Event
           /\ \A n \in Peers : \A i \in Pushes(n) : todo[i].event.id \in 1..MaxEvents
<1>1. todo \in Seq(Calls)
  BY DEF TypeOK, Calls
<1>2. Len(todo) \in Nat /\ DOMAIN todo = 1..Len(todo) /\ \A i \in DOMAIN todo : todo[i] \in Calls
  BY <1>1, LenProperties, ElementOfSeq
<1>3. \A c \in Calls : /\ c.node \in Peers /\ c.op \in {"push", "flush"}
                       /\ c.op = "push" => c.event \in Event
  BY DEF Calls
<1>4. \A i \in DOMAIN todo : todo[i].op = "push" => todo[i].event.id \in 1..MaxEvents
  BY <1>2, <1>3 DEF Event
<1> QED BY <1>2, <1>3, <1>4 DEF Pushes

LEMMA NoCalls == todo = <<>> => DOMAIN todo = {} /\ \A n : Pushes(n) = {} /\ PendingIds(n) = {}
<1> SUFFICES ASSUME todo = <<>> PROVE DOMAIN todo = {} /\ \A n : Pushes(n) = {} /\ PendingIds(n) = {}
  OBVIOUS
<1>1. DOMAIN todo = {}
  OBVIOUS
<1>2. \A n : Pushes(n) = {}
  BY <1>1 DEF Pushes
<1> QED BY <1>1, <1>2 DEF PendingIds

(* The first call is made.                                                  *)
LEMMA FirstCall ==
    ASSUME TypeOK, todo # <<>>, todo' = Tail(todo)
    PROVE  /\ 1 \in DOMAIN todo /\ Head(todo) = todo[1]
           /\ DOMAIN todo' = 1..(Len(todo) - 1) /\ Len(todo') = Len(todo) - 1
           /\ \A i \in DOMAIN todo' : i + 1 \in DOMAIN todo /\ todo'[i] = todo[i + 1]
           /\ \A n : \A i \in Pushes(n)' : i \in DOMAIN todo' /\ i + 1 \in Pushes(n) /\ i + 1 # 1
           /\ \A n : PendingIds(n)' \subseteq PendingIds(n)
           /\ \A n \in Peers : \A id \in PendingIds(n) :
                id \in PendingIds(n)' \/ (todo[1].op = "push" /\ n = todo[1].node /\ id = todo[1].event.id)
<1>1. todo \in Seq(Calls)
  BY DEF TypeOK, Calls
<1>2. /\ Len(todo) \in Nat \ {0} /\ DOMAIN todo = 1..Len(todo) /\ Head(todo) = todo[1]
  BY <1>1, EmptySeq, LenProperties
<1>3. /\ todo' \in Seq(Calls) /\ Len(todo') = Len(todo) - 1 /\ DOMAIN todo' = 1..(Len(todo) - 1)
      /\ \A i \in DOMAIN todo' : i + 1 \in DOMAIN todo /\ todo'[i] = todo[i + 1]
  BY <1>1, <1>2, HeadTailProperties, LenProperties
<1>4. \A n : \A i \in Pushes(n)' : i \in DOMAIN todo' /\ i + 1 \in Pushes(n) /\ i + 1 # 1
  BY <1>2, <1>3 DEF Pushes
<1>5. \A n : PendingIds(n)' \subseteq PendingIds(n)
  BY <1>3, <1>4 DEF PendingIds
<1>6. ASSUME NEW n \in Peers, NEW i \in Pushes(n)
      PROVE  todo[i].event.id \in PendingIds(n)' \/ (i = 1 /\ todo[1].op = "push" /\ n = todo[1].node)
  <2>1. i \in DOMAIN todo /\ todo[i].op = "push" /\ todo[i].node = n
    BY DEF Pushes
  <2>2. CASE i = 1
    BY <2>1, <2>2
  <2>3. CASE i # 1
    <3>1. i - 1 \in DOMAIN todo' /\ todo'[i - 1] = todo[i]
      BY <2>1, <2>3, <1>2, <1>3
    <3>2. i - 1 \in Pushes(n)'
      BY <2>1, <3>1 DEF Pushes
    <3> QED BY <3>1, <3>2 DEF PendingIds
  <2> QED BY <2>2, <2>3
<1>7. \A n \in Peers : \A id \in PendingIds(n) :
        id \in PendingIds(n)' \/ (todo[1].op = "push" /\ n = todo[1].node /\ id = todo[1].event.id)
  BY <1>6 DEF PendingIds
<1> QED BY <1>2, <1>3, <1>4, <1>5, <1>7

(* The new calls of a step that had none left.                              *)
LEMMA NewHandshake ==
    ASSUME NEW n \in Peers, pushes \in Nat, todo' = HandshakeCalls(n)
    PROVE  /\ DOMAIN todo' = 1..3 /\ Len(todo') = 3
           /\ \A i \in 1..3 : todo'[i].node = n
           /\ todo'[1].op = "push" /\ todo'[2].op = "push" /\ todo'[3].op = "flush"
           /\ todo'[1].event.id = pushes + 1 /\ todo'[2].event.id = pushes + 2
           /\ Pushes(n)' = {1, 2} /\ PendingIds(n)' = {pushes + 1, pushes + 2}
           /\ \A m : m # n => Pushes(m)' = {} /\ PendingIds(m)' = {}
<1>1. todo' = <<PushCall(n, NewEvent(1, "bye")), PushCall(n, NewEvent(2, "hello")), FlushCall(n)>>
  BY DEF HandshakeCalls
<1>2. /\ DOMAIN todo' = 1..3 /\ Len(todo') = 3
      /\ todo'[1] = PushCall(n, NewEvent(1, "bye")) /\ todo'[2] = PushCall(n, NewEvent(2, "hello"))
      /\ todo'[3] = FlushCall(n)
  BY <1>1
<1>3. /\ \A i \in 1..3 : todo'[i].node = n
      /\ todo'[1].op = "push" /\ todo'[2].op = "push" /\ todo'[3].op = "flush"
      /\ todo'[1].event.id = pushes + 1 /\ todo'[2].event.id = pushes + 2
  BY <1>2 DEF PushCall, FlushCall, NewEvent
<1>4. Pushes(n)' = {1, 2}
  BY <1>2, <1>3 DEF Pushes
<1>5. \A m : m # n => Pushes(m)' = {}
  BY <1>2, <1>3 DEF Pushes
<1> QED BY <1>2, <1>3, <1>4, <1>5 DEF PendingIds

LEMMA NewAnnouncement ==
    ASSUME NEW n \in Peers, Announce(n), pushes \in Nat
    PROVE  /\ DOMAIN todo' \in {{1}, {1, 2}} /\ Len(todo') \in {1, 2} /\ DOMAIN todo' = 1..Len(todo')
           /\ \A i \in DOMAIN todo' : todo'[i].node = n
           /\ todo'[1].op = "push" /\ (2 \in DOMAIN todo' => todo'[2].op = "flush")
           /\ todo'[1].event.id = pushes + 1
           /\ Pushes(n)' = {1} /\ PendingIds(n)' = {pushes + 1}
           /\ \A m : m # n => Pushes(m)' = {} /\ PendingIds(m)' = {}
<1> DEFINE c == PushCall(n, NewEvent(1, "note"))
<1>1. todo' = <<c, FlushCall(n)>> \/ todo' = <<c>>
  BY DEF Announce
<1>2. /\ DOMAIN todo' \in {{1}, {1, 2}} /\ Len(todo') \in {1, 2} /\ DOMAIN todo' = 1..Len(todo')
      /\ todo'[1] = c /\ (2 \in DOMAIN todo' => todo'[2] = FlushCall(n))
  <2> HIDE DEF c
  <2> QED BY <1>1
<1>3. c.op = "push" /\ c.node = n /\ c.event.id = pushes + 1
  BY DEF PushCall, NewEvent
<1> HIDE DEF c
<1>4. FlushCall(n).node = n /\ FlushCall(n).op = "flush"
  BY DEF FlushCall
<1>5. /\ \A i \in DOMAIN todo' : todo'[i].node = n
      /\ todo'[1].op = "push" /\ (2 \in DOMAIN todo' => todo'[2].op = "flush")
      /\ todo'[1].event.id = pushes + 1
  BY <1>2, <1>3, <1>4
<1>6. Pushes(n)' = {1}
  BY <1>2, <1>5 DEF Pushes
<1>7. \A m : m # n => Pushes(m)' = {}
  BY <1>2, <1>5 DEF Pushes
<1> QED BY <1>2, <1>5, <1>6, <1>7 DEF PendingIds

LEMMA NewRequeue ==
    ASSUME NEW n \in Peers, NEW events \in Seq(Event), todo' = Requeue(n, events)
    PROVE  /\ DOMAIN todo' = DOMAIN events
           /\ \A i \in DOMAIN todo' : /\ todo'[i].node = n /\ todo'[i].op = "push"
                                      /\ todo'[i].event = events[i]
           /\ Pushes(n)' = DOMAIN events /\ PendingIds(n)' = Ids(events)
           /\ \A m : m # n => Pushes(m)' = {} /\ PendingIds(m)' = {}
<1>1. DOMAIN todo' = DOMAIN events /\ \A i \in DOMAIN events : todo'[i] = PushCall(n, events[i])
  BY RequeueIsCalls
<1>2. \A i \in DOMAIN todo' : /\ todo'[i].node = n /\ todo'[i].op = "push"
                              /\ todo'[i].event = events[i]
  BY <1>1 DEF PushCall
<1>3. Pushes(n)' = DOMAIN events
  BY <1>1, <1>2 DEF Pushes
<1>4. PendingIds(n)' = Ids(events)
  BY <1>1, <1>2, <1>3 DEF PendingIds, Ids
<1>5. \A m : m # n => Pushes(m)' = {}
  BY <1>1, <1>2 DEF Pushes
<1> QED BY <1>1, <1>2, <1>3, <1>4, <1>5 DEF PendingIds
-----------------------------------------------------------------------------
(* One call at a time.                                                      *)

LEMMA OneCallStep == TypeOK /\ OneCall /\ [Next]_vars => OneCall'
<1> SUFFICES ASSUME TypeOK, OneCall, [Next]_vars PROVE OneCall'
  OBVIOUS
<1> USE DEF known, queues, thread, errors, outcome
<1>t. /\ todo \in Seq(Calls) /\ pushes \in Nat /\ webhook \in Places /\ poll \in Places
      /\ Len(todo) \in Nat /\ DOMAIN todo = 1..Len(todo)
  BY CallAt DEF TypeOK, Calls, Places
<1>f. ASSUME flight # None
      PROVE  /\ flight.node \in Peers /\ flight.events \in Seq(Event) /\ todo = <<>>
             /\ webhook[flight.node] = <<>>
  BY <1>f DEF TypeOK, OneCall
<1>e. ASSUME todo' = <<>>, flight' = None PROVE OneCall'
  <2>1. DOMAIN todo' = {}
    BY <1>e
  <2> QED BY <1>e, <2>1 DEF OneCall
<1>k. ASSUME todo' = todo, flight' = None PROVE OneCall'
  BY <1>k DEF OneCall
<1>1. ASSUME NEW n \in Peers, Announce(n) PROVE OneCall'
  <2>1. flight' = None
    BY <1>1 DEF Announce, Idle
  <2>a. Len(todo') \in {1, 2} /\ DOMAIN todo' = 1..Len(todo')
    BY <1>1, <1>t, NewAnnouncement
  <2>2. \A i \in DOMAIN todo' : i = 1 \/ i = Len(todo')
    BY <2>a
  <2>3. \A i \in DOMAIN todo' : todo'[i].op = "flush" => i = Len(todo')
    BY <2>2, <1>1, <1>t, NewAnnouncement
  <2>4. \A i, j \in DOMAIN todo' : todo'[i].node = todo'[j].node
    BY <1>1, <1>t, NewAnnouncement
  <2> QED BY <2>1, <2>3, <2>4 DEF OneCall
<1>h. ASSUME NEW n \in Peers, todo' = HandshakeCalls(n), flight' = None PROVE OneCall'
  <2>1. \A i \in DOMAIN todo' : i \in {1, 2, 3}
    BY <1>t, <1>h, NewHandshake
  <2>2. \A i \in DOMAIN todo' : todo'[i].op = "flush" => i = Len(todo')
    BY <2>1, <1>t, <1>h, NewHandshake
  <2>3. \A i, j \in DOMAIN todo' : todo'[i].node = todo'[j].node
    BY <1>t, <1>h, NewHandshake
  <2> QED BY <1>h, <2>2, <2>3 DEF OneCall
<1>2. ASSUME NEW n \in Peers, Handshake(n) PROVE OneCall'
  BY <1>2, <1>h DEF Handshake, Idle
<1>3. CASE PushEventTo
  <2>1. todo # <<>> /\ todo' = Tail(todo) /\ flight' = None
    BY <1>3 DEF PushEventTo
  <2>2. \A i \in DOMAIN todo' : todo'[i].op = "flush" => i = Len(todo')
    BY <2>1, <1>t, FirstCall DEF OneCall
  <2>3. \A i, j \in DOMAIN todo' : todo'[i].node = todo'[j].node
    BY <2>1, FirstCall DEF OneCall
  <2> QED BY <2>1, <2>2, <2>3 DEF OneCall
<1>4. CASE FlushWebhookQueue
  <2>1. todo # <<>> /\ todo' = Tail(todo) /\ Head(todo).op = "flush" /\ 1 \in DOMAIN todo /\ Head(todo) = todo[1]
    BY <1>4, FirstCall DEF FlushWebhookQueue
  <2>2. Len(todo) = 1
    BY <2>1 DEF OneCall
  <2>3. todo' \in Seq(Calls) /\ Len(todo') = 0
    BY <2>1, <2>2, <1>t, HeadTailProperties
  <2>4. todo' = <<>> /\ DOMAIN todo' = {}
    BY <2>3, EmptySeq
  <2>5. Head(todo).node \in Peers
    BY <2>1, CallAt
  <2>6. flight' # None => webhook'[flight'.node] = <<>>
    BY <1>4, <2>5, <1>t DEF FlushWebhookQueue, Drain, Places
  <2> QED BY <2>4, <2>6 DEF OneCall
<1>5. CASE NodeNotFound
  BY <1>5, <1>k DEF NodeNotFound
<1>6. CASE PartialNode
  BY <1>6, <1>e DEF PartialNode
<1>7. CASE Delivered
  BY <1>7, <1>k DEF Delivered
<1>8. CASE ConnectError
  <2>1. flight # None /\ flight' = None
    BY <1>8 DEF ConnectError
  <2>2. todo' = Requeue(flight.node, flight.events)
    <3>1. Requeue(flight.node, flight.events) \in Seq(Calls) /\ todo = <<>>
      BY <2>1, <1>f, RequeueIsCalls
    <3> QED BY <1>8, <3>1, ConcatEmptySeq DEF ConnectError
  <2> QED BY <2>1, <2>2, <1>f, NewRequeue DEF OneCall
<1>9. CASE OtherHttpError
  BY <1>9, <1>e DEF OtherHttpError
<1>10. CASE UnknownNode
  <2>1. flight # None /\ flight' = None /\ pushes + 2 <= MaxEvents
    BY <1>10 DEF UnknownNode
  <2>2. todo' = HandshakeCalls(flight.node)
    <3>1. HandshakeCalls(flight.node) \in Seq(Calls) /\ todo = <<>>
      BY <2>1, <1>f, <1>t, HandshakeIsCalls
    <3> QED BY <1>10, <3>1, ConcatEmptySeq DEF UnknownNode
  <2> QED BY <2>1, <2>2, <1>f, <1>h
<1>11. CASE ErrorAnswer
  BY <1>11, <1>k DEF ErrorAnswer
<1>12. ASSUME NEW n \in Peers, FetchFails(n) PROVE OneCall'
  BY <1>12, <1>k DEF FetchFails, Idle
<1>13. ASSUME NEW n \in Peers, Poll(n) PROVE OneCall'
  BY <1>13 DEF Poll, OneCall
<1>14. ASSUME NEW n \in Peers, PollEnds(n) PROVE OneCall'
  BY <1>14 DEF PollEnds, OneCall
<1>15. ASSUME NEW n \in Peers, Learn(n) PROVE OneCall'
  BY <1>15, <1>k DEF Learn, Change, Idle
<1>16. ASSUME NEW n \in Peers, ForgetNode(n) PROVE OneCall'
  BY <1>16, <1>k DEF ForgetNode, Change, Idle
<1>17. ASSUME NEW n \in Peers, ForgetEdge(n) PROVE OneCall'
  BY <1>17, <1>k DEF ForgetEdge, Change, Idle
<1>18. CASE Restart
  BY <1>18, <1>k DEF Restart, Idle
<1>19. CASE UNCHANGED vars
  BY <1>19 DEF vars, OneCall
<1> QED
  BY <1>1, <1>2, <1>3, <1>4, <1>5, <1>6, <1>7, <1>8, <1>9, <1>10, <1>11, <1>12, <1>13, <1>14,
     <1>15, <1>16, <1>17, <1>18, <1>19 DEF Next, Call
-----------------------------------------------------------------------------
(* The invariant.                                                           *)

Rest == Numbered /\ Requeued /\ Distinct /\ OneWay /\ Sorted
IInv == TypeOK /\ OneCall /\ Rest

LEMMA RestInit == Init => Rest
<1> SUFFICES ASSUME Init PROVE Rest
  OBVIOUS
<1>1. /\ todo = <<>> /\ accepted = {} /\ lost = {}
      /\ \A n \in Peers : /\ received[n] = <<>> /\ response[n] = <<>> /\ poll[n] = <<>>
                          /\ Flying(n) = <<>> /\ webhook[n] = <<>>
  BY DEF Init, Flying
<1>2. \A n \in Peers : /\ Ids(received[n]) = {} /\ Ids(response[n]) = {} /\ Ids(poll[n]) = {}
                      /\ Ids(Flying(n)) = {} /\ Ids(webhook[n]) = {} /\ PendingIds(n) = {}
                      /\ Pushes(n) = {}
  BY <1>1, IdsOfEmpty, NoCalls
<1>3. Numbered /\ Requeued
  BY <1>1, <1>2, NoCalls DEF Numbered, Requeued, RequeueNeverDrops, Queued
<1>4. Distinct
  BY <1>1, <1>2, IdsOfEmpty DEF Distinct, UniqueAt, ApartAt, Apart
<1>5. OneWay
  BY <1>1 DEF OneWay
<1>6. Sorted
  BY <1>1, <1>2, IdsOfEmpty DEF Sorted, RisingAt, LineAt, Line, Before
<1> QED BY <1>3, <1>4, <1>5, <1>6 DEF Rest

LEMMA PlaceTypes ==
    ASSUME TypeOK, NEW n \in Peers
    PROVE  /\ received[n] \in Seq(Event) /\ response[n] \in Seq(Event) /\ poll[n] \in Seq(Event)
           /\ Flying(n) \in Seq(Event) /\ webhook[n] \in Seq(Event)
  BY DEF TypeOK, Flying

(* A peer none of whose events move.                                        *)
LEMMA Untouched ==
    ASSUME NEW n, received'[n] = received[n], response'[n] = response[n], poll'[n] = poll[n],
           Flying(n)' = Flying(n), webhook'[n] = webhook[n],
           todo' = todo \/ (Pushes(n) = {} /\ Pushes(n)' = {})
    PROVE  /\ PendingIds(n)' = PendingIds(n)
           /\ (UniqueAt(n) => UniqueAt(n)') /\ (RisingAt(n) => RisingAt(n)')
           /\ (ApartAt(n) => ApartAt(n)') /\ (LineAt(n) => LineAt(n)')
           /\ Queued(n)' = Queued(n)
<1>1. Pushes(n)' = Pushes(n) /\ \A i \in Pushes(n) : todo'[i] = todo[i]
  BY DEF Pushes
<1>2. PendingIds(n)' = PendingIds(n)
  BY <1>1 DEF PendingIds
<1>3. UniqueAt(n) => UniqueAt(n)'
  BY <1>1 DEF UniqueAt, Unique
<1>4. RisingAt(n) => RisingAt(n)'
  BY <1>1 DEF RisingAt, Rising
<1>5. /\ Ids(received'[n]) = Ids(received[n]) /\ Ids(response'[n]) = Ids(response[n])
      /\ Ids(poll'[n]) = Ids(poll[n]) /\ Ids(Flying(n)') = Ids(Flying(n))
      /\ Ids(webhook'[n]) = Ids(webhook[n])
  OBVIOUS
<1>6. ApartAt(n) => ApartAt(n)'
  BY <1>2, <1>5 DEF ApartAt
<1>7. LineAt(n) => LineAt(n)'
  BY <1>2, <1>5 DEF LineAt
<1>8. Queued(n)' = Queued(n)
  BY <1>5 DEF Queued
<1> QED BY <1>2, <1>3, <1>4, <1>6, <1>7, <1>8

-----------------------------------------------------------------------------
(* What a step does to the events.                                          *)

(* Nothing: a fetch that fails, and changes of what is known of the peers.  *)
LEMMA NothingMoves ==
    ASSUME Rest, UNCHANGED <<received, response, poll, webhook, todo, flight, accepted, lost, pushes>>,
           rerouted \subseteq rerouted', Requeued', OneWay'
    PROVE  Rest'
<1>1. \A n : Flying(n)' = Flying(n)
  BY DEF Flying
<1>2. \A n : /\ PendingIds(n)' = PendingIds(n) /\ Queued(n)' = Queued(n)
             /\ (UniqueAt(n) => UniqueAt(n)') /\ (RisingAt(n) => RisingAt(n)')
             /\ (ApartAt(n) => ApartAt(n)') /\ (LineAt(n) => LineAt(n)')
  BY <1>1, Untouched
<1>3. Numbered'
  BY <1>2 DEF Rest, Numbered
<1>4. Distinct'
  BY <1>2 DEF Rest, Distinct
<1>6. Sorted'
  BY <1>2 DEF Rest, Sorted
<1> QED BY <1>3, <1>4, <1>6 DEF Rest

LEMMA LoseIds ==
    ASSUME NEW events, NEW reason, Lose(events, reason)
    PROVE  /\ lost \subseteq lost'
           /\ \A l \in lost' : l \in lost \/ (l[1] \in Ids(events) /\ l[2] = reason)
<1>1. \A id : <<id, reason>>[1] = id /\ <<id, reason>>[2] = reason
  OBVIOUS
<1>2. \A l \in lost' : l \in lost \/ \E id \in Ids(events) : l = <<id, reason>>
  BY DEF Lose
<1> QED BY <1>1, <1>2 DEF Lose

(* The events on the wire are lost.                                         *)
LEMMA FlightIsLost ==
    ASSUME TypeOK, OneCall, Rest, NEW reason, reason # "unknown to me",
           flight # None, Lose(flight.events, reason), flight' = None, todo' = todo,
           UNCHANGED <<profile, edge, received, response, poll, webhook, accepted, pushes, rerouted>>
    PROVE  Rest'
<1>n. PICK n \in Peers : n = flight.node
  BY DEF TypeOK
<1>1. /\ n \in Peers /\ Flying(n) = flight.events /\ \A m : Flying(m)' = <<>>
      /\ \A m : m # n => Flying(m) = <<>>
  BY <1>n DEF Flying
<1>2. /\ todo = <<>> /\ \A m : Pushes(m) = {} /\ PendingIds(m) = {} /\ Pushes(m)' = {} /\ PendingIds(m)' = {}
  <2>1. todo = <<>>
    BY DEF OneCall
  <2> QED BY <2>1, NoCalls DEF Pushes, PendingIds
<1>3. \A m \in Peers \ {n} :
        /\ PendingIds(m)' = PendingIds(m) /\ Queued(m)' = Queued(m)
        /\ (UniqueAt(m) => UniqueAt(m)') /\ (RisingAt(m) => RisingAt(m)')
        /\ (ApartAt(m) => ApartAt(m)') /\ (LineAt(m) => LineAt(m)')
  BY <1>1, Untouched
<1>4. /\ Ids(Flying(n))' = {} /\ Ids(received[n])' = Ids(received[n]) /\ Ids(response[n])' = Ids(response[n])
      /\ Ids(poll[n])' = Ids(poll[n]) /\ Ids(webhook[n])' = Ids(webhook[n])
      /\ Unique(Flying(n)') /\ Rising(Flying(n)')
  BY <1>1, IdsOfEmpty
<1>5. /\ Queued(n)' \subseteq Queued(n) /\ Ids(flight.events) \subseteq Queued(n)
      /\ Queued(n) \subseteq Queued(n)' \union Ids(flight.events)
  BY <1>4, <1>1 DEF Queued
<1>6. /\ lost \subseteq lost'
      /\ \A l \in lost' : l \in lost \/ (l[1] \in Ids(flight.events) /\ l[2] = reason)
  BY LoseIds
<1>7. \A id : <<id, "unknown to me">> \in lost' => <<id, "unknown to me">> \in lost
  BY <1>6
<1>8. Numbered'
  <2>1. \A id \in accepted : id \in 0..pushes
    <3>1. accepted \subseteq 1..MaxEvents /\ pushes \in 0..MaxEvents
      BY DEF TypeOK
    <3>2. \A id \in accepted : id <= pushes
      BY DEF Rest, Numbered
    <3> QED BY ONLY <3>1, <3>2, QueueAssumption DEF QueueAssumption
  <2>2. Ids(flight.events) \subseteq accepted
    BY <1>5 DEF Rest, Numbered
  <2>3. \A l \in lost' : l[1] \in 0..pushes'
    BY <2>1, <2>2, <1>6 DEF Rest, Numbered
  <2> QED BY <2>3, <1>1, <1>2, <1>3, <1>5 DEF Rest, Numbered
<1>9. Requeued'
  <2>1. DOMAIN todo' = {}
    BY <1>2, NoCalls
  <2> QED BY <1>2, <1>7, <2>1 DEF Rest, Requeued, RequeueNeverDrops
<1>10. Distinct'
  <2>1. UniqueAt(n)'
    BY <1>1, <1>2, <1>4 DEF Rest, Distinct, UniqueAt
  <2>2. ApartAt(n)'
    BY <1>1, <1>2, <1>4 DEF Rest, Distinct, ApartAt, Apart
  <2> QED BY <1>3, <2>1, <2>2 DEF Rest, Distinct
<1>11. OneWay'
  BY <1>1 DEF Rest, OneWay, Route
<1>12. Sorted'
  <2>1. n \notin rerouted => RisingAt(n)'
    BY <1>1, <1>2, <1>4 DEF Rest, Sorted, RisingAt
  <2>2. n \notin rerouted => LineAt(n)'
    BY <1>1, <1>2, <1>4 DEF Rest, Sorted, LineAt, Line, Before
  <2> QED BY <1>3, <2>1, <2>2 DEF Rest, Sorted
<1> QED BY <1>8, <1>9, <1>10, <1>11, <1>12 DEF Rest

(* The events on the wire are received.  The wire was the peer's only way   *)
(* if its order is to be kept: no poll queue, no poll response.             *)
LEMMA FlightIsReceived ==
    ASSUME TypeOK, OneCall, Rest, flight # None, flight' = None, todo' = todo,
           received' = [received EXCEPT ![flight.node] = @ \o flight.events],
           UNCHANGED <<profile, edge, response, poll, webhook, accepted, lost, pushes, rerouted>>
    PROVE  Rest'
<1>n. PICK n \in Peers : n = flight.node
  BY DEF TypeOK
<1>1. /\ Flying(n) = flight.events /\ \A m : Flying(m)' = <<>>
      /\ \A m : m # n => Flying(m) = <<>>
  BY <1>n DEF Flying
<1>2. /\ todo = <<>> /\ \A m : Pushes(m) = {} /\ PendingIds(m) = {} /\ Pushes(m)' = {} /\ PendingIds(m)' = {}
  <2>1. todo = <<>>
    BY DEF OneCall
  <2> QED BY <2>1, NoCalls DEF Pushes, PendingIds
<1>3. /\ received'[n] = received[n] \o Flying(n) /\ \A m \in Peers \ {n} : received'[m] = received[m]
  BY <1>n, <1>1 DEF TypeOK
<1>4. \A m \in Peers \ {n} :
        /\ PendingIds(m)' = PendingIds(m) /\ Queued(m)' = Queued(m)
        /\ (UniqueAt(m) => UniqueAt(m)') /\ (RisingAt(m) => RisingAt(m)')
        /\ (ApartAt(m) => ApartAt(m)') /\ (LineAt(m) => LineAt(m)')
  BY <1>1, <1>3, Untouched
<1>5. /\ Ids(Flying(n))' = {} /\ Ids(response[n])' = Ids(response[n])
      /\ Ids(poll[n])' = Ids(poll[n]) /\ Ids(webhook[n])' = Ids(webhook[n])
      /\ Unique(Flying(n)') /\ Rising(Flying(n)')
  BY <1>1, IdsOfEmpty
<1>6. /\ Ids(received[n])' = Ids(received[n]) \union Ids(Flying(n))
      /\ Unique(received'[n]) <=> (/\ Unique(received[n]) /\ Unique(Flying(n))
                                   /\ Ids(received[n]) \cap Ids(Flying(n)) = {})
      /\ Rising(received'[n]) <=> (/\ Rising(received[n]) /\ Rising(Flying(n))
                                   /\ Before(Ids(received[n]), Ids(Flying(n))))
  <2>1. received[n] \in Seq(Event) /\ Flying(n) \in Seq(Event)
    BY PlaceTypes
  <2> DEFINE u == received[n] \o Flying(n)
  <2>2. /\ Ids(u) = Ids(received[n]) \union Ids(Flying(n))
        /\ Unique(u) <=> (/\ Unique(received[n]) /\ Unique(Flying(n))
                          /\ Ids(received[n]) \cap Ids(Flying(n)) = {})
        /\ Rising(u) <=> (/\ Rising(received[n]) /\ Rising(Flying(n))
                          /\ Before(Ids(received[n]), Ids(Flying(n))))
    BY ONLY <2>1, IdsOfConcat
  <2>3. received'[n] = u
    BY <1>3
  <2> QED BY <2>2, <2>3
<1>7. Queued(n)' = Queued(n)
  BY <1>5, <1>6 DEF Queued
<1>8. Numbered'
  BY <1>2, <1>4, <1>7 DEF Rest, Numbered
<1>9. Requeued'
  <2>1. DOMAIN todo' = {}
    BY <1>2, NoCalls
  <2> QED BY <1>2, <2>1 DEF Rest, Requeued, RequeueNeverDrops
<1>10. Distinct'
  <2>1. UniqueAt(n)'
    BY <1>2, <1>5, <1>6 DEF Rest, Distinct, UniqueAt, ApartAt, Apart
  <2>2. ApartAt(n)'
    BY <1>2, <1>5, <1>6 DEF Rest, Distinct, ApartAt, Apart
  <2> QED BY <1>4, <2>1, <2>2 DEF Rest, Distinct
<1>11. OneWay'
  BY <1>1 DEF Rest, OneWay, Route
<1>12. Sorted'
  <2> SUFFICES ASSUME n \notin rerouted PROVE RisingAt(n)' /\ LineAt(n)'
    BY <1>4 DEF Rest, Sorted
  <2>1. RisingAt(n)'
    BY <1>2, <1>5, <1>6 DEF Rest, Sorted, RisingAt, LineAt, Line
  <2>2. CASE Flying(n) = <<>>
    <3>1. Ids(Flying(n)) = {}
      BY <2>2, IdsOfEmpty
    <3>2. LineAt(n)'
      BY <3>1, <1>2, <1>5, <1>6 DEF Rest, Sorted, LineAt, Line, Before
    <3> QED BY <2>1, <3>2
  <2>3. CASE Flying(n) # <<>>
    <3>1. response[n] = <<>> /\ poll[n] = <<>>
      BY <2>3 DEF Rest, OneWay
    <3>2. Ids(response[n]) = {} /\ Ids(poll[n]) = {}
      BY <3>1, IdsOfEmpty
    <3>3. LineAt(n)'
      BY <3>2, <1>2, <1>5, <1>6 DEF Rest, Sorted, LineAt, Line, Before
    <3> QED BY <2>1, <3>3
  <2> QED BY <2>2, <2>3
<1> QED BY <1>8, <1>9, <1>10, <1>11, <1>12 DEF Rest

(* The events on the wire are to be pushed again.                           *)
LEMMA FlightIsRequeued ==
    ASSUME TypeOK, OneCall, Rest, flight # None, flight' = None, Reachable(flight.node),
           todo' = Requeue(flight.node, flight.events),
           UNCHANGED <<profile, edge, received, response, poll, webhook, accepted, lost, pushes, rerouted>>
    PROVE  Rest'
<1>n. PICK n \in Peers : n = flight.node
  BY DEF TypeOK
<1>1. /\ Flying(n) = flight.events /\ \A m : Flying(m)' = <<>>
      /\ \A m : m # n => Flying(m) = <<>>
  BY <1>n DEF Flying
<1>2. /\ todo = <<>> /\ \A m : Pushes(m) = {} /\ PendingIds(m) = {}
  <2>1. todo = <<>>
    BY DEF OneCall
  <2> QED BY <2>1, NoCalls
<1>3. /\ Flying(n) \in Seq(Event) /\ DOMAIN todo' = DOMAIN Flying(n)
      /\ \A i \in DOMAIN todo' : /\ todo'[i].node = n /\ todo'[i].op = "push"
                                 /\ todo'[i].event = Flying(n)[i]
      /\ Pushes(n)' = DOMAIN Flying(n) /\ PendingIds(n)' = Ids(Flying(n))
      /\ \A m : m # n => Pushes(m)' = {} /\ PendingIds(m)' = {}
  BY <1>n, <1>1, PlaceTypes, NewRequeue
<1>4. \A m \in Peers \ {n} :
        /\ PendingIds(m)' = PendingIds(m) /\ Queued(m)' = Queued(m)
        /\ (UniqueAt(m) => UniqueAt(m)') /\ (RisingAt(m) => RisingAt(m)')
        /\ (ApartAt(m) => ApartAt(m)') /\ (LineAt(m) => LineAt(m)')
  BY <1>1, <1>2, <1>3, Untouched
<1>5. /\ Ids(Flying(n))' = {} /\ Ids(received[n])' = Ids(received[n]) /\ Ids(response[n])' = Ids(response[n])
      /\ Ids(poll[n])' = Ids(poll[n]) /\ Ids(webhook[n])' = Ids(webhook[n])
      /\ Unique(Flying(n)') /\ Rising(Flying(n)')
  BY <1>1, IdsOfEmpty
<1>w. webhook[n] = <<>> /\ Ids(webhook[n]) = {}
  BY <1>n, IdsOfEmpty DEF OneCall
<1>6. /\ Queued(n)' \union PendingIds(n)' = Queued(n)
      /\ Queued(n)' \subseteq Queued(n) /\ PendingIds(n)' \subseteq Queued(n)
  BY <1>3, <1>5 DEF Queued
<1>7. Route(n) # None
  BY <1>n DEF Reachable, Route
<1>8. Numbered'
  <2>1. Queued(n) \subseteq accepted /\ \A id \in accepted : id <= pushes
    BY DEF Rest, Numbered
  <2>2. \A m \in Peers : Queued(m)' \subseteq accepted'
    BY <2>1, <1>4, <1>6 DEF Rest, Numbered
  <2>3. \A m \in Peers : \A id \in PendingIds(m)' : id <= pushes'
    BY <2>1, <1>4, <1>6, <1>2
  <2> QED BY <2>2, <2>3 DEF Rest, Numbered
<1>9. Requeued'
  <2>1. \A i \in DOMAIN todo' : todo'[i].node = n /\ Route(n)' # None
    BY <1>3, <1>7 DEF Route
  <2>2. \A id \in accepted : <<id, "unknown to me">> \notin lost
    BY DEF Rest, Requeued, RequeueNeverDrops
  <2>3. \A m \in Peers : \A id \in PendingIds(m)' : <<id, "unknown to me">> \notin lost'
    BY <2>2, <1>2, <1>4, <1>6 DEF Rest, Numbered
  <2> QED BY <2>1, <2>2, <2>3 DEF Requeued, RequeueNeverDrops
<1>10. Distinct'
  <2>1. UniqueAt(n)'
    <3>1. \A i, j \in Pushes(n)' : todo'[i].event.id = todo'[j].event.id => i = j
      BY <1>3 DEF Rest, Distinct, UniqueAt, Unique
    <3> QED BY <1>5, <3>1 DEF Rest, Distinct, UniqueAt
  <2>2. ApartAt(n)'
    BY <1>w, <1>3, <1>5 DEF Rest, Distinct, ApartAt, Apart
  <2> QED BY <1>4, <2>1, <2>2 DEF Rest, Distinct
<1>11. OneWay'
  BY <1>1 DEF Rest, OneWay, Route
<1>12. Sorted'
  <2> SUFFICES ASSUME n \notin rerouted PROVE RisingAt(n)' /\ LineAt(n)'
    BY <1>4 DEF Rest, Sorted
  <2>1. RisingAt(n)'
    <3>1. \A i, j \in Pushes(n)' : i < j => todo'[i].event.id < todo'[j].event.id
      BY <1>3 DEF Rest, Sorted, RisingAt, Rising
    <3> QED BY <1>5, <3>1 DEF Rest, Sorted, RisingAt
  <2>2. LineAt(n)'
    BY <1>w, <1>2, <1>3, <1>5 DEF Rest, Sorted, LineAt, Line, Before
  <2> QED BY <2>1, <2>2
<1> QED BY <1>8, <1>9, <1>10, <1>11, <1>12 DEF Rest

(* New events are to be pushed, for one peer; what was on the wire is lost. *)
NewPushes(n) ==
    /\ \A m : m # n => Pushes(m)' = {} /\ PendingIds(m)' = {}
    /\ \A i \in Pushes(n)' : pushes < todo'[i].event.id /\ todo'[i].event.id <= pushes'
    /\ \A i, j \in Pushes(n)' : i < j => todo'[i].event.id < todo'[j].event.id
    /\ \A i \in DOMAIN todo' : todo'[i].node = n
    /\ pushes <= pushes'
WireIsLost ==
    /\ lost \subseteq lost'
    /\ \A l \in lost' : l \in lost \/ (l[2] # "unknown to me" /\ l[1] \in accepted)

LEMMA EventsArePushed ==
    ASSUME TypeOK, TypeOK', Rest, todo = <<>>, flight' = None,
           UNCHANGED <<profile, edge, received, response, poll, webhook, accepted, rerouted>>,
           NEW n \in Peers, NewPushes(n), WireIsLost
    PROVE  Rest'
<1>t. /\ pushes \in Nat /\ pushes' \in Nat /\ DOMAIN todo' \subseteq Nat
      /\ \A i \in Pushes(n)' : i \in Nat /\ todo'[i].event.id \in Nat
  <2>1. todo' \in Seq(Calls)
    BY DEF TypeOK, Calls
  <2>2. DOMAIN todo' \subseteq Nat /\ \A i \in DOMAIN todo' : todo'[i] \in Calls
    BY <2>1, LenProperties, ElementOfSeq
  <2>3. \A c \in Calls : c.op = "push" => c.event.id \in Nat
    BY DEF Calls, Event
  <2> QED BY <2>2, <2>3 DEF TypeOK, Pushes
<1>1. \A m : Flying(m)' = <<>> /\ Pushes(m) = {} /\ PendingIds(m) = {}
  BY NoCalls DEF Flying
<1>2. \A id \in PendingIds(n)' : pushes < id /\ id <= pushes'
  BY DEF PendingIds, NewPushes
<1>3. \A m : /\ Ids(Flying(m))' = {} /\ Ids(received[m])' = Ids(received[m])
             /\ Ids(response[m])' = Ids(response[m])
             /\ Ids(poll[m])' = Ids(poll[m]) /\ Ids(webhook[m])' = Ids(webhook[m])
             /\ Unique(Flying(m)') /\ Rising(Flying(m)')
  BY <1>1, IdsOfEmpty
<1>4. \A m : Queued(m)' \subseteq Queued(m) /\ Queued(m) \subseteq Queued(m)' \union Ids(Flying(m))
  BY <1>3 DEF Queued
<1>5. \A m \in Peers : Queued(m) \subseteq accepted
  BY DEF Rest, Numbered
<1>a. \A id \in accepted : id <= pushes /\ id \in Nat
  BY DEF Rest, Numbered, TypeOK
<1>6. Numbered'
  <2>1. \A id \in accepted' : id <= pushes'
    BY <1>a, <1>t DEF NewPushes
  <2>2. \A l \in lost' : l[1] \in 0..pushes'
    <3>1. ASSUME NEW l \in lost PROVE l[1] \in 0..pushes'
      <4>1. l[1] \in 0..pushes
        BY DEF Rest, Numbered
      <4> QED BY <4>1, <1>t DEF NewPushes
    <3>2. \A id \in accepted : id \in 0..pushes'
      BY <1>a, <1>t DEF NewPushes
    <3> QED BY <3>1, <3>2 DEF WireIsLost
  <2>3. \A m \in Peers : \A id \in PendingIds(m)' : id <= pushes'
    BY <1>2 DEF NewPushes
  <2>4. \A m \in Peers : Queued(m)' \subseteq accepted'
    BY <1>4, <1>5
  <2> QED BY <2>1, <2>2, <2>3, <2>4 DEF Numbered
<1>7. Requeued'
  <2>1. \A i \in DOMAIN todo' : todo'[i].op = "push" => i \in Pushes(n)'
    BY DEF Pushes, NewPushes
  <2>2. \A i \in DOMAIN todo' : todo'[i].op = "push" => todo'[i].event.id \notin accepted'
    BY <2>1, <1>a, <1>t DEF NewPushes
  <2>a. \A l \in lost : l[1] <= pushes
    BY <1>t DEF Rest, Numbered
  <2>3. \A l \in lost' : l[2] # "unknown to me" \/ (l[1] <= pushes /\ l \in lost)
    BY <2>a DEF WireIsLost
  <2>4. \A id : <<id, "unknown to me">> \in lost' => id <= pushes /\ <<id, "unknown to me">> \in lost
    <3>1. \A id : <<id, "unknown to me">>[1] = id /\ <<id, "unknown to me">>[2] = "unknown to me"
      OBVIOUS
    <3> QED BY <2>3, <3>1
  <2>5. \A m \in Peers : \A id \in PendingIds(m)' : <<id, "unknown to me">> \notin lost'
    <3>1. ASSUME NEW id \in PendingIds(n)' PROVE ~(id <= pushes)
      BY <1>2, <1>t DEF PendingIds
    <3> QED BY <3>1, <2>4 DEF NewPushes
  <2>6. RequeueNeverDrops'
    BY <2>4 DEF Rest, Requeued, RequeueNeverDrops
  <2> QED BY <2>2, <2>5, <2>6 DEF Requeued, Pushes
<1>b. \A id \in PendingIds(n)' : id \in Nat /\ id > pushes
  BY <1>2, <1>t DEF PendingIds
<1>8. Distinct'
  <2> SUFFICES ASSUME NEW m \in Peers PROVE UniqueAt(m)' /\ ApartAt(m)'
    BY DEF Distinct
  <2>1. UniqueAt(m)'
    <3>1. \A i, j \in Pushes(m)' : todo'[i].event.id = todo'[j].event.id => i = j
      BY <1>t DEF NewPushes
    <3> QED BY <1>3, <3>1 DEF Rest, Distinct, UniqueAt
  <2>2. PendingIds(m)' \cap accepted = {}
    BY <1>a, <1>b, <1>t DEF NewPushes
  <2>3. ApartAt(m)'
    <3>1. ApartAt(m)
      BY DEF Rest, Distinct
    <3>2. /\ Ids(response[m]) \subseteq accepted /\ Ids(poll[m]) \subseteq accepted
          /\ Ids(webhook[m]) \subseteq accepted /\ Ids(received[m]) \subseteq accepted
      BY <1>5 DEF Queued
    <3> QED BY <3>1, <3>2, <2>2, <1>3 DEF ApartAt, Apart
  <2> QED BY <2>1, <2>3
<1>9. OneWay'
  BY <1>1 DEF Rest, OneWay, Route
<1>10. Sorted'
  <2> SUFFICES ASSUME NEW m \in Peers \ rerouted PROVE RisingAt(m)' /\ LineAt(m)'
    BY DEF Sorted
  <2>1. RisingAt(m)'
    <3>1. \A i, j \in Pushes(m)' : i < j => todo'[i].event.id < todo'[j].event.id
      BY DEF NewPushes
    <3> QED BY <1>3, <3>1 DEF Rest, Sorted, RisingAt
  <2>2. Before(accepted, PendingIds(m)')
    BY <1>a, <1>b, <1>t DEF Before, NewPushes
  <2>3. LineAt(m)'
    BY <2>2, <1>3, <1>5 DEF Rest, Sorted, LineAt, Line, Before, Queued
  <2> QED BY <2>1, <2>3
<1> QED BY <1>6, <1>7, <1>8, <1>9, <1>10 DEF Rest

(* The webhook queue is put on the wire.                                    *)
LEMMA QueueIsFlushed ==
    ASSUME TypeOK, OneCall, Rest, NEW n \in Peers, flight = None, todo' = <<>>,
           \A m : Pushes(m) = {},
           flight' = IF webhook[n] = <<>> THEN None ELSE [node |-> n, events |-> webhook[n]],
           webhook' = Drain(webhook, n),
           UNCHANGED <<profile, edge, received, response, poll, accepted, lost, pushes, rerouted>>
    PROVE  Rest'
<1>1. /\ Flying(n)' = webhook[n] /\ webhook'[n] = <<>>
      /\ \A m \in Peers \ {n} : Flying(m)' = <<>> /\ webhook'[m] = webhook[m]
      /\ \A m : Flying(m) = <<>>
  <2>1. webhook'[n] = <<>> /\ \A m \in Peers \ {n} : webhook'[m] = webhook[m]
    BY DEF Drain, TypeOK
  <2>2. \A m : Flying(m) = <<>>
    BY DEF Flying
  <2>3. CASE webhook[n] = <<>>
    BY <2>1, <2>2, <2>3 DEF Flying
  <2>4. CASE webhook[n] # <<>>
    <3>1. flight' = [node |-> n, events |-> webhook[n]]
      BY <2>4
    <3>2. flight' # None
      BY <3>1, PlaceTypes, NoneIsNoRequest
    <3> QED BY <2>1, <2>2, <3>1, <3>2 DEF Flying
  <2> QED BY <2>3, <2>4
<1>2. /\ DOMAIN todo' = {} /\ \A m : Pushes(m)' = {} /\ PendingIds(m)' = {} /\ PendingIds(m) = {}
  <2>1. DOMAIN todo' = {}
    OBVIOUS
  <2>2. \A m : Pushes(m)' = {}
    BY <2>1 DEF Pushes
  <2> QED BY <2>1, <2>2 DEF PendingIds
<1>3. \A m \in Peers \ {n} :
        /\ PendingIds(m)' = PendingIds(m) /\ Queued(m)' = Queued(m)
        /\ (UniqueAt(m) => UniqueAt(m)') /\ (RisingAt(m) => RisingAt(m)')
        /\ (ApartAt(m) => ApartAt(m)') /\ (LineAt(m) => LineAt(m)')
  BY <1>1, <1>2, Untouched
<1>4. /\ Ids(Flying(n))' = Ids(webhook[n]) /\ Ids(Flying(n)) = {} /\ Ids(webhook[n])' = {}
      /\ Ids(received[n])' = Ids(received[n])
      /\ Ids(response[n])' = Ids(response[n]) /\ Ids(poll[n])' = Ids(poll[n])
      /\ Unique(Flying(n)') <=> Unique(webhook[n])
      /\ Rising(Flying(n)') <=> Rising(webhook[n])
      /\ Unique(webhook'[n]) /\ Rising(webhook'[n])
  BY <1>1, IdsOfEmpty
<1>5. Queued(n)' = Queued(n)
  BY <1>4 DEF Queued
<1>6. Numbered'
  BY <1>2, <1>3, <1>5 DEF Rest, Numbered
<1>7. Requeued'
  BY <1>2 DEF Rest, Requeued, RequeueNeverDrops
<1>8. Distinct'
  <2>1. UniqueAt(n)'
    BY <1>2, <1>4 DEF Rest, Distinct, UniqueAt
  <2>2. ApartAt(n)'
    BY <1>2, <1>4 DEF Rest, Distinct, ApartAt, Apart
  <2> QED BY <1>3, <2>1, <2>2 DEF Rest, Distinct
<1>9. OneWay'
  BY <1>1 DEF Rest, OneWay, Route
<1>10. Sorted'
  <2> SUFFICES ASSUME n \notin rerouted PROVE RisingAt(n)' /\ LineAt(n)'
    BY <1>3 DEF Rest, Sorted
  <2>1. RisingAt(n)'
    BY <1>2, <1>4 DEF Rest, Sorted, RisingAt
  <2>2. LineAt(n)'
    BY <1>2, <1>4 DEF Rest, Sorted, LineAt, Line, Before
  <2> QED BY <2>1, <2>2
<1> QED BY <1>6, <1>7, <1>8, <1>9, <1>10 DEF Rest

(* The first event to push is put into a queue, or dropped.                 *)
LEMMA EventIsPushed ==
    ASSUME TypeOK, TypeOK', OneCall, Rest, PushEventTo
    PROVE  Rest'
<1> USE DEF known, queues, thread, errors, outcome
<1>1. /\ todo # <<>> /\ todo' = Tail(todo) /\ flight = None /\ flight' = None
      /\ UNCHANGED <<profile, edge, response, received, pushes, rerouted>>
  BY DEF PushEventTo
<1>2. /\ 1 \in DOMAIN todo /\ Head(todo) = todo[1]
      /\ \A i \in DOMAIN todo' : i + 1 \in DOMAIN todo /\ todo'[i] = todo[i + 1]
      /\ \A m : \A i \in Pushes(m)' : i \in DOMAIN todo' /\ i + 1 \in Pushes(m) /\ i + 1 # 1
      /\ \A m : PendingIds(m)' \subseteq PendingIds(m)
      /\ \A m \in Peers : \A id \in PendingIds(m) :
           id \in PendingIds(m)' \/ (m = todo[1].node /\ id = todo[1].event.id)
  BY <1>1, FirstCall
<1>c. /\ DOMAIN todo \subseteq Nat /\ DOMAIN todo' \subseteq Nat
      /\ todo[1].node \in Peers /\ todo[1].event \in Event
  <2>1. todo' \in Seq(Calls)
    BY DEF TypeOK, Calls
  <2>2. DOMAIN todo' \subseteq Nat
    BY <2>1, LenProperties
  <2>3. DOMAIN todo \subseteq Nat /\ todo[1].node \in Peers
    BY <1>2, CallAt
  <2>4. todo[1].op = "push"
    BY <1>2 DEF PushEventTo
  <2>5. todo[1].event \in Event
    BY <1>2, <2>4, CallAt
  <2> QED BY <2>2, <2>3, <2>5
<1>n. PICK n \in Peers, e \in Event : n = todo[1].node /\ e = todo[1].event
  BY <1>c
<1>3. /\ 1 \in Pushes(n) /\ e.id \in PendingIds(n) /\ e.id \notin PendingIds(n)'
      /\ PendingIds(n) = PendingIds(n)' \union {e.id}
      /\ \A m \in Peers \ {n} : PendingIds(m)' = PendingIds(m)
  <2>1. 1 \in Pushes(n)
    BY <1>1, <1>2, <1>n DEF PushEventTo, Pushes
  <2>2. e.id \in PendingIds(n)
    BY <2>1, <1>n DEF PendingIds
  <2>3. ASSUME NEW i \in Pushes(n)' PROVE todo'[i].event.id # e.id
    <3>1. i + 1 \in Pushes(n) /\ i + 1 # 1 /\ todo'[i] = todo[i + 1]
      BY <1>2
    <3> QED BY <3>1, <2>1, <1>n DEF Rest, Distinct, UniqueAt
  <2>4. e.id \notin PendingIds(n)'
    BY <2>3 DEF PendingIds
  <2> QED BY <2>1, <2>2, <2>4, <1>2, <1>n
<1>4. \A m \in Peers \ {n} : Pushes(m) = {} /\ Pushes(m)' = {}
  <2>1. \A m \in Peers \ {n} : Pushes(m) = {}
    BY <1>2, <1>n DEF OneCall, Pushes
  <2> QED BY <2>1, <1>2
<1>5. \A m : Flying(m) = <<>> /\ Flying(m)' = <<>>
  BY <1>1 DEF Flying
<1>6. \A i, j \in Pushes(n)' :
        /\ todo'[i].event.id = todo'[j].event.id => i = j
        /\ n \notin rerouted => (i < j => todo'[i].event.id < todo'[j].event.id)
  <2> SUFFICES ASSUME NEW i \in Pushes(n)', NEW j \in Pushes(n)'
               PROVE  /\ todo'[i].event.id = todo'[j].event.id => i = j
                      /\ n \notin rerouted => (i < j => todo'[i].event.id < todo'[j].event.id)
    OBVIOUS
  <2>1. /\ i \in Nat /\ j \in Nat /\ i + 1 \in Pushes(n) /\ j + 1 \in Pushes(n)
        /\ todo'[i] = todo[i + 1] /\ todo'[j] = todo[j + 1]
    BY <1>2, <1>c
  <2>2. todo[i + 1].event.id = todo[j + 1].event.id => i + 1 = j + 1
    BY <2>1 DEF Rest, Distinct, UniqueAt
  <2>3. n \notin rerouted => (i + 1 < j + 1 => todo[i + 1].event.id < todo[j + 1].event.id)
    BY <2>1 DEF Rest, Sorted, RisingAt
  <2>4. todo'[i].event.id = todo'[j].event.id => i = j
    BY <2>1, <2>2
  <2>5. i < j => i + 1 < j + 1
    BY <2>1
  <2> QED BY <2>1, <2>3, <2>4, <2>5
<1>7. n \notin rerouted => Before({e.id}, PendingIds(n)')
  <2> SUFFICES ASSUME n \notin rerouted, NEW i \in Pushes(n)' PROVE e.id < todo'[i].event.id
    BY DEF Before, PendingIds
  <2>1. i + 1 \in Pushes(n) /\ todo'[i] = todo[i + 1] /\ i \in Nat /\ i # 0 /\ 1 < i + 1
    <3>1. i \in DOMAIN todo' /\ i + 1 \in DOMAIN todo /\ i + 1 # 1
      BY <1>2
    <3> QED BY <3>1, <1>2, <1>c
  <2> QED BY <2>1, <1>3, <1>n DEF Rest, Sorted, RisingAt
(* One of the six places takes the event, the others stay.                  *)
<1>8. CASE Route(n) = None
  <2>1. /\ lost' = lost \union {<<e.id, "unknown to me">>} /\ UNCHANGED <<webhook, poll, accepted>>
    BY <1>8, <1>1, <1>2, <1>n DEF PushEventTo
  <2>2. \A m \in Peers \ {n} :
          /\ PendingIds(m)' = PendingIds(m) /\ Queued(m)' = Queued(m)
          /\ (UniqueAt(m) => UniqueAt(m)') /\ (RisingAt(m) => RisingAt(m)')
          /\ (ApartAt(m) => ApartAt(m)') /\ (LineAt(m) => LineAt(m)')
    BY <1>1, <1>4, <1>5, <2>1, Untouched
  <2>3. /\ Ids(Flying(n))' = Ids(Flying(n)) /\ Ids(webhook[n])' = Ids(webhook[n])
        /\ Ids(received[n])' = Ids(received[n]) /\ Flying(n)' = Flying(n)
        /\ Ids(response[n])' = Ids(response[n]) /\ Ids(poll[n])' = Ids(poll[n])
        /\ Queued(n)' = Queued(n)
    BY <1>1, <1>5, <2>1 DEF Queued
  <2>4. e.id \notin accepted
    BY <1>8, <1>2, <1>3, <1>n DEF Rest, Requeued, Pushes
  <2>5. e.id <= pushes
    BY <1>3 DEF Rest, Numbered
  <2>6. \A id : <<id, "unknown to me">> \in lost' => <<id, "unknown to me">> \in lost \/ id = e.id
    BY <2>1
  <2>7. \A l \in lost' : l \in lost \/ l[1] = e.id
    <3>1. <<e.id, "unknown to me">>[1] = e.id
      OBVIOUS
    <3> QED BY <2>1, <3>1
  <2>8. Numbered'
    <3>1. e.id \in 0..pushes
      BY <2>5 DEF Event, TypeOK
    <3>2. \A l \in lost' : l[1] \in 0..pushes'
      BY <1>1, <2>7, <3>1 DEF Rest, Numbered
    <3>3. \A m \in Peers : PendingIds(m)' \subseteq PendingIds(m) /\ Queued(m)' = Queued(m)
      BY <1>3, <2>2, <2>3
    <3> QED BY <1>1, <2>1, <3>2, <3>3 DEF Rest, Numbered
  <2>9. Requeued'
    <3>1. \A i \in DOMAIN todo' : todo'[i].op = "push" /\ todo'[i].event.id \in accepted
                                  => Route(n)' # None /\ todo'[i].node = n
      <4>1. \A i \in DOMAIN todo' : todo[i + 1].node = n /\ todo'[i] = todo[i + 1] /\ i + 1 \in DOMAIN todo
        BY <1>2, <1>n DEF OneCall
      <4>2. Route(n)' = Route(n)
        BY <1>1 DEF Route
      <4> QED BY <4>1, <4>2 DEF Rest, Requeued
    <3>2. \A m \in Peers : \A id \in PendingIds(m)' : <<id, "unknown to me">> \notin lost'
      BY <1>3, <1>4, <2>6 DEF Rest, Requeued, PendingIds
    <3>3. RequeueNeverDrops'
      BY <2>1, <2>4, <2>6 DEF Rest, Requeued, RequeueNeverDrops
    <3> QED BY <2>1, <3>1, <3>2, <3>3 DEF Requeued
  <2>10. Distinct'
    <3>1. UniqueAt(n)'
      BY <1>1, <1>6, <2>1, <2>3 DEF Rest, Distinct, UniqueAt
    <3>2. ApartAt(n)'
      BY <1>3, <2>3 DEF Rest, Distinct, ApartAt, Apart
    <3> QED BY <2>2, <3>1, <3>2 DEF Rest, Distinct
  <2>11. OneWay'
    BY <1>1, <1>5, <2>1 DEF Rest, OneWay, Route
  <2>12. Sorted'
    <3> SUFFICES ASSUME n \notin rerouted PROVE RisingAt(n)' /\ LineAt(n)'
      BY <1>1, <2>2 DEF Rest, Sorted
    <3>1. RisingAt(n)'
      BY <1>1, <1>6, <2>1, <2>3 DEF Rest, Sorted, RisingAt
    <3>2. LineAt(n)'
      BY <1>3, <2>3 DEF Rest, Sorted, LineAt, Line, Before
    <3> QED BY <3>1, <3>2
  <2> QED BY <2>8, <2>9, <2>10, <2>11, <2>12 DEF Rest
<1>9. CASE Route(n) = "WEBHOOK"
  <2>1. /\ webhook' = Put(webhook, n, e) /\ accepted' = accepted \union {e.id} /\ UNCHANGED <<poll, lost>>
    BY <1>9, <1>1, <1>2, <1>n DEF PushEventTo
  <2>a. webhook'[n] = Append(webhook[n], e) /\ \A m \in Peers \ {n} : webhook'[m] = webhook[m]
    BY <2>1 DEF Put, TypeOK
  <2>2. \A m \in Peers \ {n} :
          /\ PendingIds(m)' = PendingIds(m) /\ Queued(m)' = Queued(m)
          /\ (UniqueAt(m) => UniqueAt(m)') /\ (RisingAt(m) => RisingAt(m)')
          /\ (ApartAt(m) => ApartAt(m)') /\ (LineAt(m) => LineAt(m)')
    BY <1>1, <1>4, <1>5, <2>1, <2>a, Untouched
  <2>3. /\ Ids(Flying(n))' = Ids(Flying(n)) /\ Ids(poll[n])' = Ids(poll[n])
        /\ Ids(received[n])' = Ids(received[n]) /\ Flying(n)' = Flying(n)
        /\ Ids(response[n])' = Ids(response[n])
        /\ Ids(webhook[n])' = Ids(webhook[n]) \union {e.id}
        /\ Unique(webhook'[n]) <=> (Unique(webhook[n]) /\ e.id \notin Ids(webhook[n]))
        /\ Rising(webhook'[n]) <=> (Rising(webhook[n]) /\ Before(Ids(webhook[n]), {e.id}))
    <3>1. webhook[n] \in Seq(Event)
      BY PlaceTypes
    <3> DEFINE u == Append(webhook[n], e)
    <3>2. /\ Ids(u) = Ids(webhook[n]) \union {e.id}
          /\ Unique(u) <=> (Unique(webhook[n]) /\ e.id \notin Ids(webhook[n]))
          /\ Rising(u) <=> (Rising(webhook[n]) /\ Before(Ids(webhook[n]), {e.id}))
      BY ONLY <3>1, IdsOfAppend
    <3>3. webhook'[n] = u
      BY <2>a
    <3> QED BY <1>1, <1>5, <2>1, <3>2, <3>3
  <2>4. Queued(n)' = Queued(n) \union {e.id}
    BY <2>3 DEF Queued
  <2>5. e.id <= pushes
    BY <1>3 DEF Rest, Numbered
  <2>6. Numbered'
    <3>1. \A m \in Peers : PendingIds(m)' \subseteq PendingIds(m) /\ Queued(m)' \subseteq accepted'
      BY <1>3, <2>1, <2>2, <2>4 DEF Rest, Numbered
    <3> QED BY <1>1, <2>1, <2>5, <3>1 DEF Rest, Numbered
  <2>7. Requeued'
    <3>1. \A i \in DOMAIN todo' : Route(n)' # None /\ todo'[i].node = n
      <4>1. \A i \in DOMAIN todo' : todo[i + 1].node = n /\ todo'[i] = todo[i + 1]
        BY <1>2, <1>n DEF OneCall
      <4>2. Route(n)' = Route(n) /\ Route(n) # None
        BY <1>1, <1>9 DEF Route
      <4> QED BY <4>1, <4>2
    <3>2. \A m \in Peers : \A id \in PendingIds(m)' : <<id, "unknown to me">> \notin lost'
      BY <1>3, <2>1 DEF Rest, Requeued
    <3>3. RequeueNeverDrops'
      BY <1>3, <2>1 DEF Rest, Requeued, RequeueNeverDrops
    <3> QED BY <3>1, <3>2, <3>3 DEF Requeued
  <2>8. Distinct'
    <3>1. UniqueAt(n)'
      BY <1>1, <1>3, <1>5, <1>6, <2>1, <2>3 DEF Rest, Distinct, UniqueAt, ApartAt, Apart
    <3>2. ApartAt(n)'
      BY <1>3, <2>3 DEF Rest, Distinct, ApartAt, Apart
    <3> QED BY <2>2, <3>1, <3>2 DEF Rest, Distinct
  <2>9. OneWay'
    <3>1. \A m : Route(m)' = Route(m)
      BY <1>1 DEF Route
    <3> QED BY <1>9, <1>1, <1>5, <2>1, <2>a, <3>1 DEF Rest, OneWay
  <2>10. Sorted'
    <3> SUFFICES ASSUME n \notin rerouted PROVE RisingAt(n)' /\ LineAt(n)'
      BY <1>1, <2>2 DEF Rest, Sorted
    <3>1. Ids(Flying(n)) = {}
      BY <1>9, <1>5, IdsOfEmpty DEF Rest, OneWay
    <3>2. RisingAt(n)'
      <4>1. Before(Ids(webhook[n]), {e.id})
        BY <1>3 DEF Rest, Sorted, LineAt, Line, Before
      <4>2. \A i, j \in Pushes(n)' : i < j => todo'[i].event.id < todo'[j].event.id
        BY <1>6
      <4>3. Rising(webhook'[n])
        BY <2>3, <4>1 DEF Rest, Sorted, RisingAt
      <4> QED BY <1>1, <2>1, <2>3, <4>2, <4>3 DEF Rest, Sorted, RisingAt
    <3>3. LineAt(n)'
      BY <1>3, <1>7, <2>3, <3>1 DEF Rest, Sorted, LineAt, Line, Before
    <3> QED BY <3>2, <3>3
  <2> QED BY <2>6, <2>7, <2>8, <2>9, <2>10 DEF Rest
<1>10. CASE Route(n) = "POLL"
  <2>1. /\ poll' = Put(poll, n, e) /\ accepted' = accepted \union {e.id} /\ UNCHANGED <<webhook, lost>>
    BY <1>10, <1>1, <1>2, <1>n DEF PushEventTo
  <2>a. poll'[n] = Append(poll[n], e) /\ \A m \in Peers \ {n} : poll'[m] = poll[m]
    BY <2>1 DEF Put, TypeOK
  <2>2. \A m \in Peers \ {n} :
          /\ PendingIds(m)' = PendingIds(m) /\ Queued(m)' = Queued(m)
          /\ (UniqueAt(m) => UniqueAt(m)') /\ (RisingAt(m) => RisingAt(m)')
          /\ (ApartAt(m) => ApartAt(m)') /\ (LineAt(m) => LineAt(m)')
    BY <1>1, <1>4, <1>5, <2>1, <2>a, Untouched
  <2>3. /\ Ids(Flying(n))' = Ids(Flying(n)) /\ Ids(webhook[n])' = Ids(webhook[n])
        /\ Ids(received[n])' = Ids(received[n]) /\ Flying(n)' = Flying(n)
        /\ Ids(response[n])' = Ids(response[n])
        /\ Ids(poll[n])' = Ids(poll[n]) \union {e.id}
        /\ Unique(poll'[n]) <=> (Unique(poll[n]) /\ e.id \notin Ids(poll[n]))
        /\ Rising(poll'[n]) <=> (Rising(poll[n]) /\ Before(Ids(poll[n]), {e.id}))
    <3>1. poll[n] \in Seq(Event)
      BY PlaceTypes
    <3> DEFINE u == Append(poll[n], e)
    <3>2. /\ Ids(u) = Ids(poll[n]) \union {e.id}
          /\ Unique(u) <=> (Unique(poll[n]) /\ e.id \notin Ids(poll[n]))
          /\ Rising(u) <=> (Rising(poll[n]) /\ Before(Ids(poll[n]), {e.id}))
      BY ONLY <3>1, IdsOfAppend
    <3>3. poll'[n] = u
      BY <2>a
    <3> QED BY <1>1, <1>5, <2>1, <3>2, <3>3
  <2>4. Queued(n)' = Queued(n) \union {e.id}
    BY <2>3 DEF Queued
  <2>5. e.id <= pushes
    BY <1>3 DEF Rest, Numbered
  <2>6. Numbered'
    <3>1. \A m \in Peers : PendingIds(m)' \subseteq PendingIds(m) /\ Queued(m)' \subseteq accepted'
      BY <1>3, <2>1, <2>2, <2>4 DEF Rest, Numbered
    <3> QED BY <1>1, <2>1, <2>5, <3>1 DEF Rest, Numbered
  <2>7. Requeued'
    <3>1. \A i \in DOMAIN todo' : Route(n)' # None /\ todo'[i].node = n
      <4>1. \A i \in DOMAIN todo' : todo[i + 1].node = n /\ todo'[i] = todo[i + 1]
        BY <1>2, <1>n DEF OneCall
      <4>2. Route(n)' = Route(n) /\ Route(n) # None
        BY <1>1, <1>10 DEF Route
      <4> QED BY <4>1, <4>2
    <3>2. \A m \in Peers : \A id \in PendingIds(m)' : <<id, "unknown to me">> \notin lost'
      BY <1>3, <2>1 DEF Rest, Requeued
    <3>3. RequeueNeverDrops'
      BY <1>3, <2>1 DEF Rest, Requeued, RequeueNeverDrops
    <3> QED BY <3>1, <3>2, <3>3 DEF Requeued
  <2>8. Distinct'
    <3>1. UniqueAt(n)'
      BY <1>1, <1>3, <1>5, <1>6, <2>1, <2>3 DEF Rest, Distinct, UniqueAt, ApartAt, Apart
    <3>2. ApartAt(n)'
      BY <1>3, <2>3 DEF Rest, Distinct, ApartAt, Apart
    <3> QED BY <2>2, <3>1, <3>2 DEF Rest, Distinct
  <2>9. OneWay'
    <3>1. \A m : Route(m)' = Route(m)
      BY <1>1 DEF Route
    <3> QED BY <1>10, <1>1, <1>5, <2>1, <2>a, <3>1 DEF Rest, OneWay
  <2>10. Sorted'
    <3> SUFFICES ASSUME n \notin rerouted PROVE RisingAt(n)' /\ LineAt(n)'
      BY <1>1, <2>2 DEF Rest, Sorted
    <3>1. Ids(Flying(n)) = {} /\ Ids(webhook[n]) = {}
      BY <1>10, <1>5, IdsOfEmpty DEF Rest, OneWay
    <3>2. RisingAt(n)'
      <4>1. Before(Ids(poll[n]), {e.id})
        BY <1>3 DEF Rest, Sorted, LineAt, Line, Before
      <4>2. \A i, j \in Pushes(n)' : i < j => todo'[i].event.id < todo'[j].event.id
        BY <1>6
      <4>3. Rising(poll'[n])
        BY <2>3, <4>1 DEF Rest, Sorted, RisingAt
      <4> QED BY <1>1, <2>1, <2>3, <4>2, <4>3 DEF Rest, Sorted, RisingAt
    <3>3. LineAt(n)'
      BY <1>3, <1>7, <2>3, <3>1 DEF Rest, Sorted, LineAt, Line, Before
    <3> QED BY <3>2, <3>3
  <2> QED BY <2>6, <2>7, <2>8, <2>9, <2>10 DEF Rest
<1>11. Route(n) \in {"WEBHOOK", "POLL", None}
  BY DEF Route, TypeOK
<1> QED BY <1>8, <1>9, <1>10, <1>11

(* A peer polls: its poll queue becomes the response on its way.            *)
LEMMA QueueIsPolled ==
    ASSUME TypeOK, Rest, NEW n \in Peers, response[n] = <<>>,
           response' = [response EXCEPT ![n] = poll[n]], poll' = Drain(poll, n),
           UNCHANGED <<profile, edge, received, webhook, todo, flight, accepted, lost, pushes, rerouted>>
    PROVE  Rest'
<1>1. /\ response'[n] = poll[n] /\ poll'[n] = <<>> /\ \A m : Flying(m)' = Flying(m)
      /\ \A m \in Peers \ {n} : response'[m] = response[m] /\ poll'[m] = poll[m]
  BY DEF Drain, TypeOK, Flying
<1>2. \A m \in Peers \ {n} :
        /\ PendingIds(m)' = PendingIds(m) /\ Queued(m)' = Queued(m)
        /\ (UniqueAt(m) => UniqueAt(m)') /\ (RisingAt(m) => RisingAt(m)')
        /\ (ApartAt(m) => ApartAt(m)') /\ (LineAt(m) => LineAt(m)')
  BY <1>1, Untouched
<1>3. /\ Ids(received[n])' = Ids(received[n]) /\ Ids(response[n])' = Ids(poll[n]) /\ Ids(response[n]) = {}
      /\ Ids(poll[n])' = {} /\ Ids(Flying(n))' = Ids(Flying(n)) /\ Ids(webhook[n])' = Ids(webhook[n])
      /\ Flying(n)' = Flying(n) /\ Unique(poll'[n]) /\ Rising(poll'[n])
  BY <1>1, IdsOfEmpty
<1>4. Queued(n)' = Queued(n)
  BY <1>3 DEF Queued
<1>5. \A m : Pushes(m)' = Pushes(m) /\ PendingIds(m)' = PendingIds(m) /\ Route(m)' = Route(m)
  BY DEF Pushes, PendingIds, Route
<1>6. Numbered'
  BY <1>2, <1>4, <1>5 DEF Rest, Numbered
<1>7. Requeued'
  BY <1>5 DEF Rest, Requeued, RequeueNeverDrops, Route
<1>8. Distinct'
  <2>1. UniqueAt(n)'
    BY <1>1, <1>3, <1>5 DEF Rest, Distinct, UniqueAt
  <2>2. ApartAt(n)'
    BY <1>3, <1>5 DEF Rest, Distinct, ApartAt, Apart
  <2> QED BY <1>2, <2>1, <2>2 DEF Rest, Distinct
<1>9. OneWay'
  BY <1>1, <1>5 DEF Rest, OneWay
<1>10. Sorted'
  <2> SUFFICES ASSUME n \notin rerouted PROVE RisingAt(n)' /\ LineAt(n)'
    BY <1>2 DEF Rest, Sorted
  <2>1. RisingAt(n)'
    BY <1>1, <1>3, <1>5 DEF Rest, Sorted, RisingAt
  <2>2. LineAt(n)'
    BY <1>3, <1>5 DEF Rest, Sorted, LineAt, Line, Before
  <2> QED BY <2>1, <2>2
<1> QED BY <1>6, <1>7, <1>8, <1>9, <1>10 DEF Rest

(* The response is received or lost.                                        *)
LEMMA ResponseEnds ==
    ASSUME TypeOK, Rest, NEW n \in Peers, PollEnds(n)
    PROVE  Rest'
<1> USE DEF known, queues, thread, errors, outcome
<1>1. /\ response'[n] = <<>> /\ \A m : Flying(m)' = Flying(m)
      /\ \A m \in Peers \ {n} : response'[m] = response[m] /\ received'[m] = received[m]
      /\ UNCHANGED <<profile, edge, poll, webhook, todo, flight, accepted, pushes, rerouted>>
  BY DEF PollEnds, TypeOK, Flying
<1>2. \A m \in Peers \ {n} :
        /\ PendingIds(m)' = PendingIds(m) /\ Queued(m)' = Queued(m)
        /\ (UniqueAt(m) => UniqueAt(m)') /\ (RisingAt(m) => RisingAt(m)')
        /\ (ApartAt(m) => ApartAt(m)') /\ (LineAt(m) => LineAt(m)')
  BY <1>1, Untouched
<1>3. /\ Ids(response[n])' = {} /\ Unique(response'[n]) /\ Rising(response'[n])
      /\ Ids(poll[n])' = Ids(poll[n]) /\ Ids(Flying(n))' = Ids(Flying(n)) /\ Ids(webhook[n])' = Ids(webhook[n])
      /\ Flying(n)' = Flying(n)
  BY <1>1, IdsOfEmpty
<1>5. \A m : Pushes(m)' = Pushes(m) /\ PendingIds(m)' = PendingIds(m) /\ Route(m)' = Route(m)
  BY <1>1 DEF Pushes, PendingIds, Route
(* Either the events moved to the end of what was received, or they are lost. *)
<1>a. ASSUME received' = [received EXCEPT ![n] = @ \o response[n]]
      PROVE  /\ Ids(received[n])' = Ids(received[n]) \union Ids(response[n])
             /\ Unique(received'[n]) <=> (/\ Unique(received[n]) /\ Unique(response[n])
                                          /\ Ids(received[n]) \cap Ids(response[n]) = {})
             /\ Rising(received'[n]) <=> (/\ Rising(received[n]) /\ Rising(response[n])
                                          /\ Before(Ids(received[n]), Ids(response[n])))
  <2>1. received[n] \in Seq(Event) /\ response[n] \in Seq(Event)
    BY PlaceTypes
  <2> DEFINE u == received[n] \o response[n]
  <2>2. /\ Ids(u) = Ids(received[n]) \union Ids(response[n])
        /\ Unique(u) <=> (/\ Unique(received[n]) /\ Unique(response[n])
                          /\ Ids(received[n]) \cap Ids(response[n]) = {})
        /\ Rising(u) <=> (/\ Rising(received[n]) /\ Rising(response[n])
                          /\ Before(Ids(received[n]), Ids(response[n])))
    BY ONLY <2>1, IdsOfConcat
  <2>3. received'[n] = u
    BY <1>a DEF TypeOK
  <2> QED BY <2>2, <2>3
<1>b. \/ /\ received' = [received EXCEPT ![n] = @ \o response[n]] /\ UNCHANGED lost
      \/ Lose(response[n], "poll response") /\ UNCHANGED received
  BY DEF PollEnds
<1>c. /\ lost \subseteq lost'
      /\ \A l \in lost' : l \in lost \/ (l[1] \in Ids(response[n]) /\ l[2] # "unknown to me")
      /\ Queued(n)' \subseteq Queued(n)
  <2>1. CASE received' = [received EXCEPT ![n] = @ \o response[n]] /\ UNCHANGED lost
    BY <2>1, <1>a, <1>3 DEF Queued
  <2>2. CASE Lose(response[n], "poll response") /\ UNCHANGED received
    <3>1. /\ lost \subseteq lost'
          /\ \A l \in lost' : l \in lost \/ (l[1] \in Ids(response[n]) /\ l[2] = "poll response")
      BY <2>2, LoseIds
    <3>2. Ids(received[n])' = Ids(received[n])
      BY <2>2
    <3> QED BY <3>1, <3>2, <1>3 DEF Queued
  <2> QED BY <1>b, <2>1, <2>2
<1>d. \A id : <<id, "unknown to me">> \in lost' => <<id, "unknown to me">> \in lost
  <2>1. \A id : <<id, "unknown to me">>[2] = "unknown to me"
    OBVIOUS
  <2> QED BY <2>1, <1>c
<1>6. Numbered'
  <2>1. \A id \in accepted : id \in 0..pushes
    <3>1. accepted \subseteq 1..MaxEvents /\ pushes \in 0..MaxEvents
      BY DEF TypeOK
    <3>2. \A id \in accepted : id <= pushes
      BY DEF Rest, Numbered
    <3> QED BY ONLY <3>1, <3>2, QueueAssumption DEF QueueAssumption
  <2>2. Ids(response[n]) \subseteq accepted
    BY DEF Rest, Numbered, Queued
  <2>3. \A l \in lost' : l[1] \in 0..pushes'
    BY <1>1, <2>1, <2>2, <1>c DEF Rest, Numbered
  <2> QED BY <2>3, <1>1, <1>2, <1>5, <1>c DEF Rest, Numbered
<1>7. Requeued'
  BY <1>1, <1>5, <1>d DEF Rest, Requeued, RequeueNeverDrops, Route
<1>8. Distinct'
  <2>1. UniqueAt(n)' /\ ApartAt(n)'
    <3>1. CASE received' = [received EXCEPT ![n] = @ \o response[n]] /\ UNCHANGED lost
      <4>1. UniqueAt(n)'
        BY <3>1, <1>a, <1>1, <1>3, <1>5 DEF Rest, Distinct, UniqueAt, ApartAt, Apart
      <4>2. ApartAt(n)'
        BY <3>1, <1>a, <1>3, <1>5 DEF Rest, Distinct, ApartAt, Apart
      <4> QED BY <4>1, <4>2
    <3>2. CASE Lose(response[n], "poll response") /\ UNCHANGED received
      <4>1. UniqueAt(n)'
        BY <3>2, <1>1, <1>3, <1>5 DEF Rest, Distinct, UniqueAt
      <4>2. ApartAt(n)'
        BY <3>2, <1>3, <1>5 DEF Rest, Distinct, ApartAt, Apart
      <4> QED BY <4>1, <4>2
    <3> QED BY <1>b, <3>1, <3>2
  <2> QED BY <1>2, <2>1 DEF Rest, Distinct
<1>9. OneWay'
  BY <1>1, <1>5 DEF Rest, OneWay
<1>10. Sorted'
  <2> SUFFICES ASSUME n \notin rerouted PROVE RisingAt(n)' /\ LineAt(n)'
    BY <1>1, <1>2 DEF Rest, Sorted
  <2>1. CASE received' = [received EXCEPT ![n] = @ \o response[n]] /\ UNCHANGED lost
    <3>1. RisingAt(n)'
      BY <2>1, <1>a, <1>1, <1>3, <1>5 DEF Rest, Sorted, RisingAt, LineAt, Line
    <3>2. LineAt(n)'
      BY <2>1, <1>a, <1>3, <1>5 DEF Rest, Sorted, LineAt, Line, Before
    <3> QED BY <3>1, <3>2
  <2>2. CASE Lose(response[n], "poll response") /\ UNCHANGED received
    <3>1. RisingAt(n)'
      BY <2>2, <1>1, <1>3, <1>5 DEF Rest, Sorted, RisingAt
    <3>2. LineAt(n)'
      BY <2>2, <1>3, <1>5 DEF Rest, Sorted, LineAt, Line, Before
    <3> QED BY <3>1, <3>2
  <2> QED BY <1>b, <2>1, <2>2
<1> QED BY <1>6, <1>7, <1>8, <1>9, <1>10 DEF Rest

(* The node stops: what waits in the two queues is lost.                    *)
LEMMA QueuesAreLost ==
    ASSUME TypeOK, Rest, Restart
    PROVE  Rest'
<1> USE DEF known, thread
<1>1. /\ todo = <<>> /\ todo' = <<>> /\ flight = None /\ flight' = None
      /\ \A m \in Peers : webhook'[m] = <<>> /\ poll'[m] = <<>>
      /\ UNCHANGED <<profile, edge, response, received, pushes, accepted, rerouted>>
  BY DEF Restart, Idle
<1>2. \A m : /\ Flying(m) = <<>> /\ Flying(m)' = <<>>
             /\ Pushes(m) = {} /\ PendingIds(m) = {} /\ Pushes(m)' = {} /\ PendingIds(m)' = {}
  BY <1>1, NoCalls DEF Flying, Pushes, PendingIds
<1>3. \A m \in Peers :
        /\ Ids(webhook[m])' = {} /\ Ids(poll[m])' = {} /\ Ids(Flying(m))' = {}
        /\ Ids(received[m])' = Ids(received[m]) /\ Ids(response[m])' = Ids(response[m])
        /\ Unique(webhook'[m]) /\ Rising(webhook'[m]) /\ Unique(poll'[m]) /\ Rising(poll'[m])
        /\ Unique(Flying(m)') /\ Rising(Flying(m)')
  BY <1>1, <1>2, IdsOfEmpty
<1>4. \A m \in Peers : /\ Queued(m)' \subseteq Queued(m)
                       /\ Ids(webhook[m]) \union Ids(poll[m]) \subseteq Queued(m)
                       /\ Queued(m) \subseteq Queued(m)' \union Ids(webhook[m]) \union Ids(poll[m])
  BY <1>2, <1>3, IdsOfEmpty DEF Queued
<1>5. \A m \in Peers : Ids(webhook[m] \o poll[m]) = Ids(webhook[m]) \union Ids(poll[m])
  <2> SUFFICES ASSUME NEW m \in Peers PROVE Ids(webhook[m] \o poll[m]) = Ids(webhook[m]) \union Ids(poll[m])
    OBVIOUS
  <2>1. webhook[m] \in Seq(Event) /\ poll[m] \in Seq(Event)
    BY PlaceTypes
  <2> QED BY ONLY <2>1, IdsOfConcat
<1>6. lost' = lost \union UNION {{<<id, "restart">> : id \in Ids(webhook[m] \o poll[m])} : m \in Peers}
  BY DEF Restart
<1>7. /\ lost \subseteq lost'
      /\ \A l \in lost' : l \in lost \/ \E m \in Peers : \E id \in Ids(webhook[m]) \union Ids(poll[m]) :
                                            l = <<id, "restart">>
  BY <1>5, <1>6
<1>8. \A id : <<id, "restart">>[1] = id /\ <<id, "restart">>[2] = "restart"
              /\ <<id, "unknown to me">>[2] = "unknown to me"
  OBVIOUS
<1>9. /\ \A l \in lost' : l \in lost \/ \E m \in Peers : l[1] \in Queued(m)
      /\ \A id : <<id, "unknown to me">> \in lost' => <<id, "unknown to me">> \in lost
  <2>1. \A id : <<id, "unknown to me">> \in lost' => <<id, "unknown to me">> \in lost
    BY <1>7, <1>8
  <2>2. \A l \in lost' : l \in lost \/ \E m \in Peers : l[1] \in Queued(m)
    BY <1>4, <1>7, <1>8
  <2> QED BY <2>1, <2>2
<1>10. Numbered'
  <2>1. \A id \in accepted : id \in 0..pushes
    <3>1. accepted \subseteq 1..MaxEvents /\ pushes \in 0..MaxEvents
      BY DEF TypeOK
    <3>2. \A id \in accepted : id <= pushes
      BY DEF Rest, Numbered
    <3> QED BY ONLY <3>1, <3>2, QueueAssumption DEF QueueAssumption
  <2>2. \A m \in Peers : Queued(m) \subseteq accepted
    BY DEF Rest, Numbered
  <2>3. \A l \in lost' : l[1] \in 0..pushes'
    BY <1>1, <2>1, <2>2, <1>9 DEF Rest, Numbered
  <2>4. \A m \in Peers : Queued(m)' \subseteq accepted'
    BY <1>1, <1>4, <2>2
  <2> QED BY <2>3, <2>4, <1>1, <1>2 DEF Rest, Numbered
<1>11. Requeued'
  <2>1. DOMAIN todo' = {}
    BY <1>1
  <2> QED BY <1>1, <1>2, <1>9, <2>1 DEF Rest, Requeued, RequeueNeverDrops
<1>12. Distinct'
  <2> SUFFICES ASSUME NEW m \in Peers PROVE UniqueAt(m)' /\ ApartAt(m)'
    BY DEF Distinct
  <2>1. UniqueAt(m)'
    BY <1>1, <1>2, <1>3 DEF Rest, Distinct, UniqueAt
  <2>2. ApartAt(m)'
    BY <1>2, <1>3 DEF Rest, Distinct, ApartAt, Apart
  <2> QED BY <2>1, <2>2
<1>13. OneWay'
  BY <1>1, <1>2 DEF Rest, OneWay, Route
<1>14. Sorted'
  <2> SUFFICES ASSUME NEW m \in Peers \ rerouted PROVE RisingAt(m)' /\ LineAt(m)'
    BY <1>1 DEF Sorted
  <2>1. RisingAt(m)'
    BY <1>1, <1>2, <1>3 DEF Rest, Sorted, RisingAt
  <2>2. LineAt(m)'
    BY <1>2, <1>3 DEF Rest, Sorted, LineAt, Line, Before
  <2> QED BY <2>1, <2>2
<1> QED BY <1>10, <1>11, <1>12, <1>13, <1>14 DEF Rest

(* What is cached about a peer changes while the thread makes no call: a    *)
(* peer whose way changes with events underway is no longer kept in order.  *)
LEMMA WayChanges ==
    ASSUME Rest, todo = <<>>, flight = None, NEW n \in Peers,
           \A m \in Peers \ {n} : Route(m)' = Route(m),
           rerouted' = IF Route(n)' # Route(n) /\ Underway(n) THEN rerouted \union {n} ELSE rerouted,
           UNCHANGED <<received, response, poll, webhook, todo, flight, accepted, lost, pushes>>
    PROVE  Rest'
<1>1. \A m : Flying(m)' = <<>> /\ PendingIds(m)' = PendingIds(m)
  BY DEF Flying, PendingIds, Pushes
<1>2. Requeued'
  <2>1. DOMAIN todo' = {}
    OBVIOUS
  <2> QED BY <2>1, <1>1 DEF Rest, Requeued, RequeueNeverDrops
<1>3. OneWay'
  BY <1>1 DEF Rest, OneWay, Underway
<1>4. rerouted \subseteq rerouted'
  OBVIOUS
<1> QED BY <1>2, <1>3, <1>4, NothingMoves
-----------------------------------------------------------------------------
(* Every step keeps the invariant.                                          *)

LEMMA RestStep == TypeOK /\ OneCall /\ Rest /\ [Next]_vars => Rest'
<1> SUFFICES ASSUME TypeOK, OneCall, Rest, [Next]_vars PROVE Rest'
  OBVIOUS
<1> USE DEF known, queues, thread, errors, outcome
<1>t. TypeOK' /\ pushes \in Nat
  <2>1. TypeOK'
    BY TypeStep
  <2>2. pushes \in Nat
    BY DEF TypeOK
  <2> QED BY <2>1, <2>2
<1>f. ASSUME flight # None PROVE todo = <<>> /\ flight.node \in Peers /\ flight.events \in Seq(Event)
  BY <1>f DEF OneCall, TypeOK
<1>1. ASSUME NEW n \in Peers, Announce(n) PROVE Rest'
  <2>1. /\ todo = <<>> /\ flight = None /\ flight' = None /\ pushes' = pushes + 1
        /\ UNCHANGED <<profile, edge, received, response, poll, webhook, accepted, rerouted, lost>>
    BY <1>1 DEF Announce, Idle
  <2>2. NewPushes(n)
    BY <1>1, <1>t, <2>1, NewAnnouncement DEF NewPushes
  <2>3. WireIsLost
    BY <2>1 DEF WireIsLost
  <2> QED BY <1>t, <2>1, <2>2, <2>3, EventsArePushed
<1>h. ASSUME NEW n \in Peers, todo' = HandshakeCalls(n), pushes' = pushes + 2 PROVE NewPushes(n)
  <2>1. \A i \in Pushes(n)' : /\ pushes < todo'[i].event.id /\ todo'[i].event.id <= pushes'
                              /\ i \in {1, 2} /\ todo'[i].event.id = pushes + i
    BY <1>h, <1>t, NewHandshake
  <2>2. \A i, j \in Pushes(n)' : i < j => todo'[i].event.id < todo'[j].event.id
    BY <2>1, <1>t
  <2>3. /\ \A m : m # n => Pushes(m)' = {} /\ PendingIds(m)' = {}
        /\ \A i \in DOMAIN todo' : todo'[i].node = n
    BY <1>h, <1>t, NewHandshake
  <2> QED BY <1>h, <1>t, <2>1, <2>2, <2>3 DEF NewPushes
<1>2. ASSUME NEW n \in Peers, Handshake(n) PROVE Rest'
  <2>1. /\ todo = <<>> /\ flight = None /\ flight' = None /\ pushes' = pushes + 2
        /\ todo' = HandshakeCalls(n)
        /\ UNCHANGED <<profile, edge, received, response, poll, webhook, accepted, rerouted, lost>>
    BY <1>2 DEF Handshake, Idle
  <2>3. WireIsLost
    BY <2>1 DEF WireIsLost
  <2> QED BY <1>t, <1>h, <2>1, <2>3, EventsArePushed
<1>3. CASE PushEventTo
  BY <1>3, <1>t, EventIsPushed
<1>4. CASE FlushWebhookQueue
  <2>1. /\ todo # <<>> /\ todo' = Tail(todo) /\ Head(todo).op = "flush" /\ flight = None
        /\ 1 \in DOMAIN todo /\ Head(todo) = todo[1]
    BY <1>4, FirstCall DEF FlushWebhookQueue
  <2>2. Len(todo) = 1 /\ DOMAIN todo = {1}
    BY <2>1, CallAt DEF OneCall
  <2>3. todo' = <<>>
    <3>1. todo \in Seq(Calls)
      BY DEF TypeOK, Calls
    <3>2. todo' \in Seq(Calls) /\ Len(todo') = 0
      BY <3>1, <2>1, <2>2, HeadTailProperties
    <3> QED BY <3>2, EmptySeq
  <2>4. \A m : Pushes(m) = {}
    BY <2>1, <2>2 DEF Pushes
  <2>n. PICK n \in Peers : n = Head(todo).node
    BY <2>1, CallAt
  <2>5. /\ flight' = IF webhook[n] = <<>> THEN None ELSE [node |-> n, events |-> webhook[n]]
        /\ webhook' = Drain(webhook, n)
        /\ UNCHANGED <<profile, edge, received, response, poll, accepted, lost, pushes, rerouted>>
    BY <1>4, <2>n DEF FlushWebhookQueue
  <2> QED BY <2>1, <2>3, <2>4, <2>5, QueueIsFlushed
<1>5. CASE NodeNotFound
  BY <1>5, FlightIsLost DEF NodeNotFound
<1>6. CASE PartialNode
  BY <1>6, <1>f, FlightIsLost DEF PartialNode
<1>7. CASE Delivered
  BY <1>7, FlightIsReceived DEF Delivered
<1>8. CASE ConnectError
  <2>1. flight # None /\ flight' = None /\ Reachable(flight.node)
    BY <1>8 DEF ConnectError
  <2>2. todo' = Requeue(flight.node, flight.events)
    <3>1. Requeue(flight.node, flight.events) \in Seq(Calls) /\ todo = <<>>
      BY <2>1, <1>f, RequeueIsCalls
    <3> QED BY <1>8, <3>1, ConcatEmptySeq DEF ConnectError
  <2>3. UNCHANGED <<profile, edge, received, response, poll, webhook, accepted, lost, pushes, rerouted>>
    BY <1>8 DEF ConnectError, CountConnectionError
  <2> QED BY <2>1, <2>2, <2>3, FlightIsRequeued
<1>9. CASE OtherHttpError
  <2>1. flight # None /\ flight' = None /\ todo' = <<>>
    BY <1>9 DEF OtherHttpError
  <2>2. CASE Lose(flight.events, "time out") /\ UNCHANGED received
    BY <1>9, <1>f, <2>1, <2>2, FlightIsLost DEF OtherHttpError
  <2>3. CASE received' = [received EXCEPT ![flight.node] = @ \o flight.events] /\ UNCHANGED lost
    BY <1>9, <1>f, <2>1, <2>3, FlightIsReceived DEF OtherHttpError
  <2> QED BY <1>9, <2>2, <2>3 DEF OtherHttpError
<1>10. CASE UnknownNode
  <2>1. /\ flight # None /\ flight' = None /\ pushes' = pushes + 2 /\ pushes + 2 <= MaxEvents
        /\ Lose(flight.events, "error response")
        /\ UNCHANGED <<profile, edge, received, response, poll, webhook, accepted, rerouted>>
    BY <1>10 DEF UnknownNode
  <2>n. PICK n \in Peers : n = flight.node
    BY <2>1, <1>f
  <2>2. todo' = HandshakeCalls(n) /\ todo = <<>>
    <3>1. HandshakeCalls(n) \in Seq(Calls) /\ todo = <<>>
      BY <2>1, <1>f, <1>t, HandshakeIsCalls
    <3> QED BY <1>10, <2>n, <3>1, ConcatEmptySeq DEF UnknownNode
  <2>3. WireIsLost
    <3>1. /\ Flying(n) = flight.events /\ \A m : m # n => Flying(m) = <<>>
      BY <2>1, <2>n DEF Flying
    <3>2. Ids(flight.events) \subseteq accepted
      BY <3>1 DEF Rest, Numbered, Queued
    <3>3. /\ lost \subseteq lost'
          /\ \A l \in lost' : l \in lost \/ (l[1] \in Ids(flight.events) /\ l[2] = "error response")
      BY <2>1, LoseIds
    <3> QED BY <3>2, <3>3 DEF WireIsLost
  <2> QED BY <1>t, <1>h, <2>1, <2>2, <2>3, EventsArePushed
<1>11. CASE ErrorAnswer
  BY <1>11, FlightIsLost DEF ErrorAnswer
<1>12. ASSUME NEW n \in Peers, FetchFails(n) PROVE Rest'
  <2>1. /\ todo = <<>> /\ flight = None
        /\ UNCHANGED <<profile, edge, received, response, poll, webhook, todo, flight, accepted, lost, pushes, rerouted>>
    BY <1>12 DEF FetchFails, CountConnectionError, Idle
  <2>2. \A m : Route(m)' = Route(m)
    BY <2>1 DEF Route
  <2> QED BY <2>1, <2>2, WayChanges
<1>13. ASSUME NEW n \in Peers, Poll(n) PROVE Rest'
  BY <1>13, QueueIsPolled DEF Poll
<1>14. ASSUME NEW n \in Peers, PollEnds(n) PROVE Rest'
  BY <1>14, ResponseEnds
<1>15. ASSUME NEW n \in Peers, Learn(n) PROVE Rest'
  <2>1. \A m \in Peers \ {n} : profile'[m] = profile[m] /\ edge'[m] = edge[m]
    BY <1>15 DEF Learn, TypeOK
  <2>2. \A m \in Peers \ {n} : Route(m)' = Route(m)
    BY <2>1 DEF Route
  <2>3. Change(n)
    BY <1>15 DEF Learn
  <2> QED BY <2>2, <2>3, WayChanges DEF Change, Idle
<1>16. ASSUME NEW n \in Peers, ForgetNode(n) PROVE Rest'
  <2>1. \A m \in Peers \ {n} : profile'[m] = profile[m] /\ edge'[m] = edge[m]
    BY <1>16 DEF ForgetNode, TypeOK
  <2>2. \A m \in Peers \ {n} : Route(m)' = Route(m)
    BY <2>1 DEF Route
  <2>3. Change(n)
    BY <1>16 DEF ForgetNode
  <2> QED BY <2>2, <2>3, WayChanges DEF Change, Idle
<1>17. ASSUME NEW n \in Peers, ForgetEdge(n) PROVE Rest'
  <2>1. \A m \in Peers \ {n} : profile'[m] = profile[m] /\ edge'[m] = edge[m]
    BY <1>17 DEF ForgetEdge, TypeOK
  <2>2. \A m \in Peers \ {n} : Route(m)' = Route(m)
    BY <2>1 DEF Route
  <2>3. Change(n)
    BY <1>17 DEF ForgetEdge
  <2> QED BY <2>2, <2>3, WayChanges DEF Change, Idle
<1>18. CASE Restart
  BY <1>18, QueuesAreLost
<1>19. CASE UNCHANGED vars
  <2>1. /\ \A m : Route(m)' = Route(m) /\ Flying(m)' = Flying(m) /\ PendingIds(m)' = PendingIds(m)
        /\ UNCHANGED <<received, response, poll, webhook, todo, flight, accepted, lost, pushes, rerouted>>
    BY <1>19 DEF vars, Route, Flying, PendingIds, Pushes
  <2>2. Requeued' /\ OneWay'
    BY <2>1 DEF Rest, Requeued, RequeueNeverDrops, OneWay
  <2> QED BY <2>1, <2>2, NothingMoves
<1> QED
  BY <1>1, <1>2, <1>3, <1>4, <1>5, <1>6, <1>7, <1>8, <1>9, <1>10, <1>11, <1>12, <1>13, <1>14,
     <1>15, <1>16, <1>17, <1>18, <1>19 DEF Next, Call

LEMMA InvariantHolds == Spec => []IInv
<1>1. Init => IInv
  <2>1. Init => OneCall
    BY NoCalls DEF Init, OneCall
  <2> QED BY <2>1, TypeInit, RestInit DEF IInv
<1>2. IInv /\ [Next]_vars => IInv'
  BY TypeStep, OneCallStep, RestStep DEF IInv
<1> QED BY <1>1, <1>2, PTL DEF Spec
-----------------------------------------------------------------------------
(* Pending, the sequence of events still to be pushed for a peer, and the   *)
(* trail of a peer, by induction over the calls.                            *)

Collect(n, f, k) ==
    IF k = 0 THEN <<>>
    ELSE IF k \in Pushes(n) THEN Append(f[k - 1], todo[k].event) ELSE f[k - 1]

LEMMA CollectionExists ==
    ASSUME NEW n
    PROVE  \A m \in Nat : \E f : f = [k \in 0..m |-> Collect(n, f, k)]
<1> DEFINE S == {m \in Nat : \E f : f = [k \in 0..m |-> Collect(n, f, k)]}
<1>1. 0 \in S
  <2> DEFINE f == [k \in 0..0 |-> <<>>]
  <2>1. f = [k \in 0..0 |-> Collect(n, f, k)]
    BY DEF Collect
  <2> QED BY <2>1
<1>2. ASSUME NEW m \in Nat, m \in S PROVE m + 1 \in S
  <2>1. PICK f : f = [k \in 0..m |-> Collect(n, f, k)]
    BY <1>2
  <2> DEFINE g == [k \in 0..(m + 1) |-> IF k = m + 1 THEN Collect(n, f, k) ELSE f[k]]
  <2>2. ASSUME NEW k \in 0..(m + 1) PROVE g[k] = Collect(n, g, k)
    <3>1. CASE k = m + 1
      <4>1. f[k - 1] = g[k - 1] /\ g[k] = Collect(n, f, k)
        BY <3>1
      <4> QED BY <3>1, <4>1 DEF Collect
    <3>2. CASE k # m + 1
      <4>1. k \in 0..m /\ g[k] = f[k] /\ f[k] = Collect(n, f, k)
        BY <2>1, <3>2
      <4>2. k # 0 => k - 1 \in 0..m /\ f[k - 1] = g[k - 1]
        BY <3>2
      <4> QED BY <4>1, <4>2 DEF Collect
    <3> QED BY <3>1, <3>2
  <2>3. g = [k \in 0..(m + 1) |-> Collect(n, g, k)]
    <3> HIDE DEF Collect
    <3>1. g = [k \in 0..(m + 1) |-> g[k]]
      OBVIOUS
    <3> HIDE DEF g
    <3> QED BY <3>1, <2>2
  <2> HIDE DEF g
  <2> QED BY <2>3
<1> HIDE DEF S
<1>3. Nat \subseteq S
  BY <1>1, <1>2, SetInduction
<1> QED BY <1>3 DEF S

LEMMA PendingIs ==
    ASSUME TypeOK, NEW n \in Peers
    PROVE  /\ Pending(n) \in Seq(Event)
           /\ Ids(Pending(n)) = PendingIds(n)
           /\ UniqueAt(n) => Unique(Pending(n))
           /\ RisingAt(n) => Rising(Pending(n))
<1> DEFINE F == CHOOSE f : f = [k \in 0..Len(todo) |-> Collect(n, f, k)]
<1>0. Len(todo) \in Nat /\ DOMAIN todo = 1..Len(todo)
      /\ \A i \in Pushes(n) : i \in 1..Len(todo) /\ todo[i].event \in Event
  BY CallAt DEF Pushes
<1>1. \E f : f = [k \in 0..Len(todo) |-> Collect(n, f, k)]
  BY <1>0, CollectionExists
<1>2. F = [k \in 0..Len(todo) |-> Collect(n, F, k)]
  BY <1>1
<1>3. Pending(n) = F[Len(todo)]
  BY DEF Pending, Collect
<1> HIDE DEF F
<1>4. F[0] = <<>> /\ \A k \in 1..Len(todo) : F[k] = Collect(n, F, k)
  <2>1. \A k \in 0..Len(todo) : F[k] = Collect(n, F, k)
    BY <1>2
  <2> QED BY <1>0, <2>1 DEF Collect
<1> DEFINE Upto(k) == {todo[i].event.id : i \in Pushes(n) \cap (1..k)}
           S == {k \in Nat : k <= Len(todo) =>
                   /\ F[k] \in Seq(Event) /\ Ids(F[k]) = Upto(k)
                   /\ UniqueAt(n) => Unique(F[k])
                   /\ RisingAt(n) => Rising(F[k])}
<1>5. 0 \in S
  <2>1. Upto(0) = {}
    OBVIOUS
  <2> QED BY <1>4, <2>1, IdsOfEmpty, EmptySeq
<1>6. ASSUME NEW k \in Nat, k \in S PROVE k + 1 \in S
  <2> SUFFICES ASSUME k + 1 <= Len(todo)
               PROVE  /\ F[k + 1] \in Seq(Event) /\ Ids(F[k + 1]) = Upto(k + 1)
                      /\ UniqueAt(n) => Unique(F[k + 1])
                      /\ RisingAt(n) => Rising(F[k + 1])
    OBVIOUS
  <2>1. /\ F[k] \in Seq(Event) /\ Ids(F[k]) = Upto(k)
        /\ UniqueAt(n) => Unique(F[k])
        /\ RisingAt(n) => Rising(F[k])
    BY <1>0, <1>6
  <2>2. F[k + 1] = IF k + 1 \in Pushes(n) THEN Append(F[k], todo[k + 1].event) ELSE F[k]
    BY <1>0, <1>4 DEF Collect
  <2>3. CASE k + 1 \notin Pushes(n)
    <3>1. Upto(k + 1) = Upto(k)
      <4>1. Pushes(n) \cap (1..(k + 1)) = Pushes(n) \cap (1..k)
        BY <2>3, <1>0
      <4> QED BY <4>1
    <3> QED BY <2>1, <2>2, <2>3, <3>1
  <2>4. CASE k + 1 \in Pushes(n)
    <3> DEFINE e == todo[k + 1].event
               t == Append(F[k], e)
    <3>1. e \in Event
      BY <1>0, <2>4
    <3>2. /\ t \in Seq(Event)
          /\ Ids(t) = Ids(F[k]) \union {e.id}
          /\ Unique(t) <=> Unique(F[k]) /\ e.id \notin Ids(F[k])
          /\ Rising(t) <=> Rising(F[k]) /\ Before(Ids(F[k]), {e.id})
      <4> HIDE DEF e, F
      <4> QED BY ONLY <2>1, <3>1, IdsOfAppend
    <3>3. Upto(k + 1) = Upto(k) \union {e.id}
      <4>1. Pushes(n) \cap (1..(k + 1)) = (Pushes(n) \cap (1..k)) \union {k + 1}
        BY <2>4, <1>0
      <4> QED BY <4>1
    <3>4. \A x \in Upto(k) : \E i \in Pushes(n) : i < k + 1 /\ i # k + 1 /\ x = todo[i].event.id
      OBVIOUS
    <3>5. UniqueAt(n) => e.id \notin Upto(k)
      BY <3>4, <2>4 DEF UniqueAt
    <3>6. RisingAt(n) => Before(Upto(k), {e.id})
      BY <3>4, <2>4 DEF RisingAt, Before
    <3>7. F[k + 1] = t
      BY <2>2, <2>4
    <3> HIDE DEF t, e, Upto
    <3> QED BY <2>1, <3>2, <3>3, <3>5, <3>6, <3>7
  <2> QED BY <2>3, <2>4
<1> HIDE DEF S
<1>7. Len(todo) \in S
  BY <1>0, <1>5, <1>6, SetInduction
<1>8. Upto(Len(todo)) = PendingIds(n)
  <2>1. Pushes(n) \cap (1..Len(todo)) = Pushes(n)
    BY <1>0
  <2> QED BY <2>1 DEF PendingIds
<1>9. /\ F[Len(todo)] \in Seq(Event) /\ Ids(F[Len(todo)]) = Upto(Len(todo))
      /\ UniqueAt(n) => Unique(F[Len(todo)])
      /\ RisingAt(n) => Rising(F[Len(todo)])
  <2> HIDE DEF Upto
  <2> QED BY <1>0, <1>7 DEF S
<1> HIDE DEF Upto
<1> QED BY <1>3, <1>8, <1>9

(* The trail of a peer is made of the six places.                           *)
LEMMA TrailIs ==
    ASSUME TypeOK, NEW n \in Peers
    PROVE  /\ Ids(Trail(n)) = Queued(n) \union PendingIds(n)
           /\ UniqueAt(n) /\ ApartAt(n) => Unique(Trail(n))
           /\ RisingAt(n) /\ LineAt(n) => Rising(Trail(n))
<1> DEFINE a == received[n]
           b == response[n]
           c == poll[n]
           d == Flying(n)
           e == webhook[n]
           p == Pending(n)
<1>1. /\ a \in Seq(Event) /\ b \in Seq(Event) /\ c \in Seq(Event) /\ d \in Seq(Event)
      /\ e \in Seq(Event) /\ p \in Seq(Event)
  BY PlaceTypes, PendingIs
<1>2. Trail(n) = a \o b \o c \o d \o e \o p
  BY DEF Trail
<1>3. /\ Ids(p) = PendingIds(n)
      /\ UniqueAt(n) => Unique(p)
      /\ RisingAt(n) => Rising(p)
  BY PendingIs
<1>4. /\ Queued(n) = Ids(a) \union Ids(b) \union Ids(c) \union Ids(d) \union Ids(e)
      /\ UniqueAt(n) => Unique(a) /\ Unique(b) /\ Unique(c) /\ Unique(d) /\ Unique(e)
      /\ RisingAt(n) => Rising(a) /\ Rising(b) /\ Rising(c) /\ Rising(d) /\ Rising(e)
      /\ ApartAt(n) <=> Apart(Ids(a), Ids(b), Ids(c), Ids(d), Ids(e), PendingIds(n))
      /\ LineAt(n) <=> Line(Ids(a), Ids(b), Ids(c), Ids(d), Ids(e), PendingIds(n))
  BY DEF Queued, UniqueAt, RisingAt, ApartAt, LineAt
<1> HIDE DEF a, b, c, d, e, p
<1>5. /\ a \o b \in Seq(Event) /\ Ids(a \o b) = Ids(a) \union Ids(b)
      /\ Unique(a \o b) <=> Unique(a) /\ Unique(b) /\ Ids(a) \cap Ids(b) = {}
      /\ Rising(a \o b) <=> Rising(a) /\ Rising(b) /\ Before(Ids(a), Ids(b))
  BY ONLY <1>1, IdsOfConcat
<1> DEFINE ab == a \o b
<1> HIDE DEF ab
<1>6. /\ ab \o c \in Seq(Event) /\ Ids(ab \o c) = Ids(ab) \union Ids(c)
      /\ Unique(ab \o c) <=> Unique(ab) /\ Unique(c) /\ Ids(ab) \cap Ids(c) = {}
      /\ Rising(ab \o c) <=> Rising(ab) /\ Rising(c) /\ Before(Ids(ab), Ids(c))
  BY ONLY <1>1, <1>5, IdsOfConcat DEF ab
<1> DEFINE abc == ab \o c
<1> HIDE DEF abc
<1>7. /\ abc \o d \in Seq(Event) /\ Ids(abc \o d) = Ids(abc) \union Ids(d)
      /\ Unique(abc \o d) <=> Unique(abc) /\ Unique(d) /\ Ids(abc) \cap Ids(d) = {}
      /\ Rising(abc \o d) <=> Rising(abc) /\ Rising(d) /\ Before(Ids(abc), Ids(d))
  BY ONLY <1>1, <1>6, IdsOfConcat DEF abc
<1> DEFINE abcd == abc \o d
<1> HIDE DEF abcd
<1>8. /\ abcd \o e \in Seq(Event) /\ Ids(abcd \o e) = Ids(abcd) \union Ids(e)
      /\ Unique(abcd \o e) <=> Unique(abcd) /\ Unique(e) /\ Ids(abcd) \cap Ids(e) = {}
      /\ Rising(abcd \o e) <=> Rising(abcd) /\ Rising(e) /\ Before(Ids(abcd), Ids(e))
  BY ONLY <1>1, <1>7, IdsOfConcat DEF abcd
<1> DEFINE abcde == abcd \o e
<1> HIDE DEF abcde
<1>9. /\ Ids(abcde \o p) = Ids(abcde) \union Ids(p)
      /\ Unique(abcde \o p) <=> Unique(abcde) /\ Unique(p) /\ Ids(abcde) \cap Ids(p) = {}
      /\ Rising(abcde \o p) <=> Rising(abcde) /\ Rising(p) /\ Before(Ids(abcde), Ids(p))
  BY ONLY <1>1, <1>8, IdsOfConcat DEF abcde
<1>10. Trail(n) = abcde \o p
  BY <1>2 DEF abcde, abcd, abc, ab
<1>11. /\ Ids(ab) = Ids(a) \union Ids(b)
       /\ Ids(abc) = Ids(a) \union Ids(b) \union Ids(c)
       /\ Ids(abcd) = Ids(a) \union Ids(b) \union Ids(c) \union Ids(d)
       /\ Ids(abcde) = Ids(a) \union Ids(b) \union Ids(c) \union Ids(d) \union Ids(e)
  <2>1. Ids(ab) = Ids(a) \union Ids(b)
    BY ONLY <1>5 DEF ab
  <2>2. Ids(abc) = Ids(ab) \union Ids(c)
    BY ONLY <1>6 DEF abc
  <2>3. Ids(abcd) = Ids(abc) \union Ids(d)
    BY ONLY <1>7 DEF abcd
  <2>4. Ids(abcde) = Ids(abcd) \union Ids(e)
    BY ONLY <1>8 DEF abcde
  <2> QED BY ONLY <2>1, <2>2, <2>3, <2>4
<1>12. Ids(Trail(n)) = Queued(n) \union PendingIds(n)
  BY <1>3, <1>4, <1>9, <1>10, <1>11
<1>13. ASSUME UniqueAt(n), ApartAt(n) PROVE Unique(Trail(n))
  <2>1. Apart(Ids(a), Ids(b), Ids(c), Ids(d), Ids(e), Ids(p))
    BY <1>13, <1>3, <1>4
  <2>2. Unique(ab)
    BY <1>13, <1>4, <1>5, <2>1 DEF Apart, ab
  <2>3. Unique(abc)
    BY <1>13, <1>4, <1>6, <1>11, <2>1, <2>2 DEF Apart, abc
  <2>4. Unique(abcd)
    BY <1>13, <1>4, <1>7, <1>11, <2>1, <2>3 DEF Apart, abcd
  <2>5. Unique(abcde)
    BY <1>13, <1>4, <1>8, <1>11, <2>1, <2>4 DEF Apart, abcde
  <2> QED BY <1>13, <1>3, <1>9, <1>10, <1>11, <2>1, <2>5 DEF Apart
<1>14. ASSUME RisingAt(n), LineAt(n) PROVE Rising(Trail(n))
  <2>1. Line(Ids(a), Ids(b), Ids(c), Ids(d), Ids(e), Ids(p))
    BY <1>14, <1>3, <1>4
  <2>2. Rising(ab)
    BY <1>14, <1>4, <1>5, <2>1 DEF Line, ab
  <2>3. Rising(abc)
    BY <1>14, <1>4, <1>6, <1>11, <2>1, <2>2 DEF Line, Before, abc
  <2>4. Rising(abcd)
    BY <1>14, <1>4, <1>7, <1>11, <2>1, <2>3 DEF Line, Before, abcd
  <2>5. Rising(abcde)
    BY <1>14, <1>4, <1>8, <1>11, <2>1, <2>4 DEF Line, Before, abcde
  <2> QED BY <1>14, <1>3, <1>9, <1>10, <1>11, <2>1, <2>5 DEF Line, Before
<1> QED BY <1>12, <1>13, <1>14
-----------------------------------------------------------------------------
(* However requests, polls and the error handler interleave, an event for a *)
(* peer is in one place only, so that no peer receives it twice.            *)
THEOREM ReceivedAtMostOnce == Spec => []AtMostOnce
<1>1. IInv => AtMostOnce
  <2> SUFFICES ASSUME IInv, NEW n \in Peers PROVE Unique(Trail(n))
    BY DEF AtMostOnce, Unique
  <2> QED BY TrailIs DEF IInv, Rest, Distinct
<1> QED BY <1>1, InvariantHolds, PTL

(* A peer whose kind of queue does not change while events wait for it gets *)
(* them in the order they were pushed, whatever fails and is pushed again.  *)
THEOREM ReceivedInOrder == Spec => []InOrder
<1>1. IInv => InOrder
  <2> SUFFICES ASSUME IInv, NEW n \in Peers \ rerouted PROVE Rising(Trail(n))
    BY DEF InOrder, Rising
  <2> QED BY TrailIs DEF IInv, Rest, Sorted
<1> QED BY <1>1, InvariantHolds, PTL

(* push_event_to never drops an event that was in a queue before.           *)
THEOREM RequeuedIsNotDropped == Spec => []RequeueNeverDrops
<1>1. IInv => RequeueNeverDrops
  BY DEF IInv, Rest, Requeued
<1> QED BY <1>1, InvariantHolds, PTL
=============================================================================
