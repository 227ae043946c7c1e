-------------------------- MODULE NetworkEventQueue --------------------------
(***************************************************************************)
(* The outgoing events of one KOI-net node: NetworkEventQueue, the         *)
(* broadcast path of RequestHandler.make_request, ErrorHandler and the     *)
(* handshake of Actor.                                                     *)
(*                                                                         *)
(* One thread (the pipeline's worker) pushes and flushes; `todo' is what   *)
(* remains of the call it is in.  The server thread drains a poll queue    *)
(* whenever the peer polls.  A request ends the way the network decides.   *)
(* `received' is what each peer got, in order.                             *)
(***************************************************************************)
EXTENDS Naturals, Sequences, FiniteSets

CONSTANTS
    Peers,         \* RIDs of the other nodes
    FirstContact,  \* config.koi_net.first_contact.rid, or None
    MaxEvents,     \* bound: events pushed
    MaxChanges,    \* bound: changes of what is cached about the peers, and restarts
    None           \* Python's None

Kinds == {"note", "bye", "hello"}   \* any event; FORGET of myself; NEW of myself
Event == [id : 1..MaxEvents, kind : Kinds]

ASSUME QueueAssumption ==
    /\ FirstContact \in Peers \union {None} /\ None \notin Peers
    /\ None \notin {"FULL", "PARTIAL", "WEBHOOK", "POLL"}
    /\ MaxEvents \in Nat /\ MaxChanges \in Nat

ASSUME NoneIsNoRequest == None \notin [node : Peers, events : Seq(Event)]

VARIABLES
    profile,   \* node_type in the cached bundle of each peer, or None
    edge,      \* edge_type of the cached edge from this node to each peer, or None
    webhook,   \* webhook_event_queue
    poll,      \* poll_event_queue
    todo,      \* the calls the pushing thread has still to make
    flight,    \* the broadcast request it waits for, or None
    response,  \* response[n]: the poll response on its way to n
    counter,   \* ErrorHandler.timeout_counter
    forgets,   \* peers whose FORGET the error handler put into the kobj queue
    received,  \* the events each peer has received
    pushes,    \* number of events pushed so far
    changes,   \* number of changes and restarts so far
    accepted,  \* ghost: ids ever put into a queue
    lost,      \* ghost: <<id, reason>> of the events that are gone
    rerouted   \* ghost: peers whose queue changed while events were underway

known == <<profile, edge>>
queues == <<webhook, poll>>
thread == <<todo, flight>>
errors == <<counter, forgets>>
outcome == <<received, lost>>
vars == <<known, queues, thread, response, errors, outcome, pushes, changes, accepted, rerouted>>

Init ==
    /\ profile \in [Peers -> {"FULL", "PARTIAL", None}]
    /\ edge = [n \in Peers |-> None]
    /\ webhook = [n \in Peers |-> <<>>] /\ poll = [n \in Peers |-> <<>>]
    /\ todo = <<>> /\ flight = None
    /\ response = [n \in Peers |-> <<>>]
    /\ counter = [n \in Peers |-> 0] /\ forgets = {}
    /\ received = [n \in Peers |-> <<>>]
    /\ pushes = 0 /\ changes = 0
    /\ accepted = {} /\ lost = {} /\ rerouted = {}

-----------------------------------------------------------------------------
(* Calls the thread makes. *)

Idle == todo = <<>> /\ flight = None

PushCall(n, e) == [op |-> "push", node |-> n, event |-> e]
FlushCall(n) == [op |-> "flush", node |-> n]

NewEvent(i, kind) == [id |-> pushes + i, kind |-> kind]

\* Actor.handshake_with
HandshakeSwapped(n) == <<PushCall(n, NewEvent(2, "hello")), PushCall(n, NewEvent(1, "bye")),
                         FlushCall(n)>>
HandshakeFlushedEach(n) == <<PushCall(n, NewEvent(1, "bye")), FlushCall(n),
                             PushCall(n, NewEvent(2, "hello")), FlushCall(n)>>
HandshakeCalls(n) == <<PushCall(n, NewEvent(1, "bye")), PushCall(n, NewEvent(2, "hello")),
                       FlushCall(n)>>

\* The queue push_event_to chooses, or None for a node unknown to me.
Route(n) == IF edge[n] # None THEN edge[n]
            ELSE IF profile[n] = "FULL" THEN "WEBHOOK"
            ELSE IF profile[n] = "PARTIAL" THEN "POLL"
            ELSE IF n = FirstContact THEN "WEBHOOK" ELSE None

\* KnowledgePipeline.process pushes an event and flushes the webhook queue;
\* push_event_to(flush=True) flushes it only if the event went there.
Announce(n) ==
    /\ Idle /\ pushes < MaxEvents
    /\ pushes' = pushes + 1
    /\ \/ todo' = <<PushCall(n, NewEvent(1, "note")), FlushCall(n)>>
       \/ Route(n) # "WEBHOOK" /\ todo' = <<PushCall(n, NewEvent(1, "note"))>>
    /\ UNCHANGED <<known, queues, flight, response, errors, outcome, changes, accepted, rerouted>>

\* RequestHandler.get_url finds an address for the node.
Reachable(n) == profile[n] = "FULL" \/ (profile[n] = None /\ n = FirstContact)

\* NodeLifecycle.start with the first contact, or a fetch request that was
\* answered with UnknownNode (ErrorHandler.handle_protocol_error).
Handshake(n) ==
    /\ Idle /\ pushes + 2 <= MaxEvents
    /\ Reachable(n) \/ n = FirstContact
    /\ pushes' = pushes + 2
    /\ todo' = HandshakeCalls(n)
    /\ UNCHANGED <<known, queues, flight, response, errors, outcome, changes, accepted, rerouted>>

Put(queue, n, e) == [queue EXCEPT ![n] = Append(@, e)]

PushEventTo ==
    /\ flight = None /\ todo # <<>> /\ Head(todo).op = "push"
    /\ todo' = Tail(todo)
    /\ LET n == Head(todo).node
           e == Head(todo).event
       IN  \/ /\ Route(n) = "WEBHOOK" /\ webhook' = Put(webhook, n, e)
              /\ accepted' = accepted \union {e.id}
              /\ UNCHANGED <<poll, lost>>
           \/ /\ Route(n) = "POLL" /\ poll' = Put(poll, n, e)
              /\ accepted' = accepted \union {e.id}
              /\ UNCHANGED <<webhook, lost>>
           \/ /\ Route(n) = None
              /\ lost' = lost \union {<<e.id, "unknown to me">>}
              /\ UNCHANGED <<queues, accepted>>
    /\ UNCHANGED <<known, flight, response, errors, received, pushes, changes, rerouted>>

\* _flush_queue: every event is taken out of the queue.
Peek(queue, n) == queue
Drain(queue, n) == [queue EXCEPT ![n] = <<>>]

FlushWebhookQueue ==
    /\ flight = None /\ todo # <<>> /\ Head(todo).op = "flush"
    /\ todo' = Tail(todo)
    /\ LET n == Head(todo).node IN
         /\ flight' = IF webhook[n] = <<>> THEN None ELSE [node |-> n, events |-> webhook[n]]
         /\ webhook' = Drain(webhook, n)
    /\ UNCHANGED <<known, poll, response, errors, outcome, pushes, changes, accepted, rerouted>>

-----------------------------------------------------------------------------
(* How the broadcast of the drained events ends (make_request). *)

Ids(events) == {events[i].id : i \in DOMAIN events}
Lose(events, reason) == lost' = lost \union {<<id, reason>> : id \in Ids(events)}

\* get_url raises NodeNotFoundError, which flush_webhook_queue swallows.
NodeNotFound ==
    /\ flight # None
    /\ profile[flight.node] = None /\ flight.node # FirstContact
    /\ Lose(flight.events, "node not found")
    /\ flight' = None
    /\ UNCHANGED <<known, queues, todo, response, errors, received, pushes, changes, accepted, rerouted>>

\* get_url raises PartialNodeQueryError, which ends the whole call.
PartialNode ==
    /\ flight # None /\ profile[flight.node] = "PARTIAL"
    /\ Lose(flight.events, "partial node")
    /\ flight' = None /\ todo' = <<>>
    /\ UNCHANGED <<known, queues, response, errors, received, pushes, changes, accepted, rerouted>>

Delivered ==
    /\ flight # None /\ Reachable(flight.node)
    /\ received' = [received EXCEPT ![flight.node] = @ \o flight.events]
    /\ flight' = None
    /\ UNCHANGED <<known, queues, todo, response, errors, lost, pushes, changes, accepted, rerouted>>

\* handle_connection_error: past three time outs the node's FORGET is queued
\* for the pipeline.  The counter is never set back; past the limit its value
\* makes no difference and it is capped.
CountAndForgetNow(n) ==
    /\ counter' = [counter EXCEPT ![n] = IF @ > 3 THEN @ ELSE @ + 1]
    /\ profile' = [profile EXCEPT ![n] = IF counter[n] + 1 > 3 THEN None ELSE @]
    /\ UNCHANGED <<edge, forgets>>
CountConnectionError(n) ==
    /\ counter' = [counter EXCEPT ![n] = IF @ > 3 THEN @ ELSE @ + 1]
    /\ forgets' = IF counter[n] + 1 > 3 THEN forgets \union {n} ELSE forgets
    /\ UNCHANGED known

\* The except clause: every event is pushed again, behind the queue's end.
RequeueWrapped(n, events) ==
    [i \in 1..Len(events) |-> PushCall(n, [node |-> n, event |-> events[i]])]
RequeueRest(n, events) == [i \in 1..(Len(events) - 1) |-> PushCall(n, events[i + 1])]
RequeueReversed(n, events) ==
    [i \in 1..Len(events) |-> PushCall(n, events[Len(events) + 1 - i])]
Requeue(n, events) == [i \in 1..Len(events) |-> PushCall(n, events[i])]

ConnectError ==
    /\ flight # None /\ Reachable(flight.node)
    /\ CountConnectionError(flight.node)
    /\ todo' = Requeue(flight.node, flight.events) \o todo
    /\ flight' = None
    /\ UNCHANGED <<queues, response, outcome, pushes, changes, accepted, rerouted>>

\* Any other httpx exception (ConnectTimeout before, ReadTimeout after the
\* peer took the events) is not caught and ends the whole call.
OtherHttpError ==
    /\ flight # None /\ Reachable(flight.node)
    /\ \/ Lose(flight.events, "time out") /\ UNCHANGED received
       \/ /\ received' = [received EXCEPT ![flight.node] = @ \o flight.events]
          /\ UNCHANGED lost
    /\ flight' = None /\ todo' = <<>>
    /\ UNCHANGED <<known, queues, response, errors, pushes, changes, accepted, rerouted>>

\* The peer answers UnknownNode; it does not when the events introduce this
\* node (Secure._handle_unknown_node).  The events count as broadcast.
UnknownNode ==
    /\ flight # None /\ Reachable(flight.node)
    /\ \A i \in DOMAIN flight.events : flight.events[i].kind # "hello"
    /\ pushes + 2 <= MaxEvents
    /\ pushes' = pushes + 2
    /\ Lose(flight.events, "error response")
    /\ todo' = HandshakeCalls(flight.node) \o todo
    /\ flight' = None
    /\ UNCHANGED <<known, queues, response, errors, received, changes, accepted, rerouted>>

\* The peer answers with another protocol error, which nobody handles.
ErrorAnswer ==
    /\ flight # None /\ Reachable(flight.node)
    /\ Lose(flight.events, "error response")
    /\ flight' = None
    /\ UNCHANGED <<known, queues, todo, response, errors, received, pushes, changes, accepted, rerouted>>

\* A fetch request of the pipeline cannot connect.
FetchFails(n) ==
    /\ Idle /\ Reachable(n) /\ changes < MaxChanges
    /\ changes' = changes + 1
    /\ CountConnectionError(n)
    /\ UNCHANGED <<queues, thread, response, outcome, pushes, accepted, rerouted>>

-----------------------------------------------------------------------------
(* The server thread: NodeServer.poll_events, for a peer that is known. *)

Poll(n) ==
    /\ profile[n] # None /\ response[n] = <<>> /\ poll[n] # <<>>
    /\ response' = [response EXCEPT ![n] = poll[n]]
    /\ poll' = Drain(poll, n)
    /\ UNCHANGED <<known, webhook, thread, errors, outcome, pushes, changes, accepted, rerouted>>

PollEnds(n) ==
    /\ response[n] # <<>>
    /\ response' = [response EXCEPT ![n] = <<>>]
    /\ \/ /\ received' = [received EXCEPT ![n] = @ \o response[n]]
          /\ UNCHANGED lost
       \/ Lose(response[n], "poll response") /\ UNCHANGED received
    /\ UNCHANGED <<known, queues, thread, errors, pushes, changes, accepted, rerouted>>

-----------------------------------------------------------------------------
(* What the pipeline caches about the peers changes between two calls. *)

Underway(n) == webhook[n] # <<>> \/ poll[n] # <<>> \/ response[n] # <<>>

Change(n) ==
    /\ Idle /\ changes < MaxChanges
    /\ changes' = changes + 1
    /\ rerouted' = IF Route(n)' # Route(n) /\ Underway(n) THEN rerouted \union {n} ELSE rerouted
    /\ UNCHANGED <<queues, thread, response, counter, outcome, pushes, accepted>>

\* The bundle of a peer, or an edge to it, is written.
Learn(n) ==
    /\ \/ /\ \E t \in {"FULL", "PARTIAL"} : profile' = [profile EXCEPT ![n] = t]
          /\ UNCHANGED edge
       \/ /\ \E t \in {"WEBHOOK", "POLL"} : edge' = [edge EXCEPT ![n] = t]
          /\ UNCHANGED profile
    /\ Change(n)
    /\ UNCHANGED forgets

\* The peer's FORGET is processed.  It only queues FORGETs of the peer's edges,
\* which the pipeline processes later; until then push_event_to goes by the edge.
ForgetNode(n) ==
    /\ profile[n] # None
    /\ profile' = [profile EXCEPT ![n] = None]
    /\ forgets' = forgets \ {n}
    /\ UNCHANGED edge
    /\ Change(n)

\* The FORGET of the edge to the peer is processed, for whatever reason it came.
ForgetEdge(n) ==
    /\ edge[n] # None
    /\ edge' = [edge EXCEPT ![n] = None]
    /\ UNCHANGED <<profile, forgets>>
    /\ Change(n)

\* NodeLifecycle.stop and start: the cache is on disk, the queues are new.
Restart ==
    /\ Idle /\ changes < MaxChanges
    /\ changes' = changes + 1
    /\ webhook' = [n \in Peers |-> <<>>] /\ poll' = [n \in Peers |-> <<>>]
    /\ lost' = lost \union UNION {{<<id, "restart">> : id \in Ids(webhook[n] \o poll[n])} : n \in Peers}
    /\ counter' = [n \in Peers |-> 0] /\ forgets' = {}
    /\ UNCHANGED <<known, thread, response, received, pushes, accepted, rerouted>>

-----------------------------------------------------------------------------
Call == PushEventTo \/ FlushWebhookQueue \/ NodeNotFound \/ PartialNode \/ Delivered
        \/ ConnectError \/ OtherHttpError \/ UnknownNode \/ ErrorAnswer

Next == \/ \E n \in Peers : Announce(n) \/ Handshake(n) \/ FetchFails(n) \/ Poll(n)
                             \/ PollEnds(n) \/ Learn(n)
                             \/ ForgetNode(n) \/ ForgetEdge(n)
        \/ Call \/ Restart

\* The thread goes on with the call it is in, and httpx ends every request
\* within its time out; nothing obliges the rest to happen.
Spec == Init /\ [][Next]_vars /\ WF_vars(Call)

-----------------------------------------------------------------------------
(* Correctness *)

\* Every variable holds a value of the kind the code gives it.
TypeOK ==
    /\ profile \in [Peers -> {"FULL", "PARTIAL", None}]
    /\ edge \in [Peers -> {"WEBHOOK", "POLL", None}]
    /\ webhook \in [Peers -> Seq(Event)] /\ poll \in [Peers -> Seq(Event)]
    /\ todo \in Seq([op : {"push"}, node : Peers, event : Event] \union [op : {"flush"}, node : Peers])
    /\ flight \in [node : Peers, events : Seq(Event)] \union {None}
    /\ response \in [Peers -> Seq(Event)] /\ received \in [Peers -> Seq(Event)]
    /\ counter \in [Peers -> 0..4] /\ forgets \subseteq Peers
    /\ pushes \in 0..MaxEvents /\ changes \in 0..MaxChanges
    /\ accepted \subseteq 1..MaxEvents /\ rerouted \subseteq Peers

\* The events of n the thread has in its hands: on the wire, or to be pushed.
Flying(n) == IF flight # None /\ flight.node = n THEN flight.events ELSE <<>>
Pushes(n) == {i \in DOMAIN todo : todo[i].op = "push" /\ todo[i].node = n}
Pending(n) ==
    LET first[k \in 0..Len(todo)] ==   \* those among the first k calls
            IF k = 0 THEN <<>>
            ELSE IF k \in Pushes(n) THEN Append(first[k - 1], todo[k].event) ELSE first[k - 1]
    IN  first[Len(todo)]

\* Everything pushed for n that is not lost, the oldest first.
Trail(n) == received[n] \o response[n] \o poll[n] \o Flying(n) \o webhook[n] \o Pending(n)

\* flush_webhook_queue, _flush_queue and the requeue: whatever fails, an event is
\* in one place only, so that no peer receives it twice.
AtMostOnce == \A n \in Peers : LET t == Trail(n) IN
    \A i, j \in DOMAIN t : t[i].id = t[j].id => i = j

\* As long as a peer keeps its kind of queue while events wait for it, it gets
\* its events in the order they were pushed, failed flushes included.
InOrder == \A n \in Peers \ rerouted : LET t == Trail(n) IN
    \A i, j \in DOMAIN t : i < j => t[i].id < t[j].id

\* An event that was in a queue is never dropped by push_event_to as being for
\* an unknown node: the FORGET of a node that timed out waits in the kobj queue
\* until the events of the failed flush are back.
RequeueNeverDrops == \A id \in accepted : <<id, "unknown to me">> \notin lost

\* NodeLifecycle.start "Loads event queues into memory" and stop "Saves event queues
\* to storage": what waits in a queue when the node stops is there when it starts again.
\* It is not: nothing calls _save_event_queues and _load_event_queues.
QueuesOutliveRestart == \A id \in accepted : <<id, "restart">> \notin lost

\* A request that carries this node's FORGET carries its NEW behind it, so that the
\* peer never answers a handshake as one from an unknown node, with another handshake.
HandshakesGoWhole ==
    flight # None =>
        \A i \in DOMAIN flight.events : flight.events[i].kind = "bye" =>
            \E j \in DOMAIN flight.events : j > i /\ flight.events[j].kind = "hello"

Numbers(events) == [i \in DOMAIN events |-> events[i].id]

\* What waits for n, wherever it is.
WaitingFor(n) == Ids(response[n]) \union Ids(poll[n]) \union Ids(Flying(n)) \union Ids(webhook[n])
                 \union {todo[i].event.id : i \in Pushes(n)}

Outbox == INSTANCE EventOutbox
            WITH sent <- pushes, waiting <- [n \in Peers |-> WaitingFor(n)],
                 got <- [n \in Peers |-> Numbers(received[n])], astray <- rerouted

\* Queues, flushes, requeues, polls, handshakes and restarts, in whatever order they
\* come: at every moment an event waits for its peer, was received by it once, or is
\* lost for good, and a step moves events one way only.  What an error answer, a time
\* out or a restart has lost does not come back; what is requeued was not received.
ImplementsOutbox == Outbox!Spec

\* What was in a queue for n and is now neither waiting for it nor received by it.
Vanished(n) == {id \in WaitingFor(n) \intersect accepted :
                    id \notin WaitingFor(n)' \union Ids(received'[n])}

StaysOffTheWire == \A n \in Peers : \A id \in Vanished(n) :
    \/ id \in Ids(response[n])
    \/ id \in Ids(Flying(n)) /\ ~ConnectError

\* As long as the node runs, an event that was in a queue is lost with the request or
\* the poll response that carries it, and in no other way: not by a push, a flush, a
\* poll or a change of what is cached, not with what another peer is sent, and not
\* with a request that a failed connection brings back.
LostOnlyOnTheWire == [][Restart \/ StaysOffTheWire]_vars

\* flush_webhook_queue: "If the remote node cannot be reached, all events will be
\* requeued": a broadcast to a node with an address that is neither received nor
\* answered leaves its events to be pushed again.
UnreachedIsRequeued ==
    [][OtherHttpError /\ received' = received => Ids(flight.events) \subseteq Ids(Pending(flight.node)')]_vars

=============================================================================
