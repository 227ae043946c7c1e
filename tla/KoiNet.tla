-------------------------------- MODULE KoiNet --------------------------------
(***************************************************************************)
(* A KOI network of two nodes: a coordinator, which runs the server and    *)
(* the handshake_handler of examples/coordinator.py, and a partial node    *)
(* that polls it, from the first handshake to the two edges between them.  *)
(*                                                                         *)
(* Each node is an instance of KnowledgePipeline; this module connects     *)
(* them: the partial node's main thread (NodeLifecycle, NodePoller), the   *)
(* coordinator's server thread with envelope validation, its poll queue,   *)
(* and crashes of the partial node.  Requests are neither lost nor timed   *)
(* out here: that is NetworkEventQueue.                                    *)
(***************************************************************************)
EXTENDS Naturals, Sequences

CONSTANTS
    c,           \* RID of the coordinator, the partial node's first contact
    p,           \* RID of the partial node
    MaxEarly,    \* bound: polls that find the coordinator's worker still busy
    MaxRestarts, \* bound: restarts of the partial node
    None         \* Python's None

ASSUME KoiNetAssumption ==
    /\ c # p /\ {c, p} \intersect {<<c, p>>, <<p, c>>} = {}
    /\ None \notin {c, p, <<c, p>>, <<p, c>>} \union {"NEW", "UPDATE", "FORGET"}
    /\ MaxEarly \in Nat /\ MaxRestarts \in Nat

VARIABLES
    cacheC, graphC, queueC, pcC, kobjC, normC, targetsC, pushedC, checkedC, droppedC,
    cacheP, graphP, queueP, pcP, kobjP, normP, targetsP, pushedP, checkedP, droppedP,
    clock,     \* the time, the same for both
    mode,      \* where the partial node's main thread is
    server,    \* events of the request that the coordinator's server has still to queue
    pollqueue, \* the coordinator's poll queue for the partial node
    early,     \* polls so far that found the worker busy
    restarts   \* restarts so far

coord == <<cacheC, graphC, queueC, pcC, kobjC, normC, targetsC, pushedC, checkedC, droppedC>>
workP == <<queueP, pcP, kobjP, normP, targetsP, pushedP, checkedP, droppedP>>
part == <<cacheP, graphP, workP>>
vars == <<coord, part, clock, mode, server, pollqueue, early, restarts>>

Profile(n) == [ts |-> 0, val |-> [node_type |-> IF n = c THEN "FULL" ELSE "PARTIAL",
                                  provides |-> IF n = c THEN {"node", "edge"} ELSE {},
                                  key_ok |-> TRUE]]

Toward == <<c, p>>  \* the edge by which the partial node subscribes to the coordinator
Back == <<p, c>>    \* the edge by which the coordinator subscribes to the partial node
Rids == {c, p, Toward, Back}

\* The cache of a new node holds its own bundle.
Fresh(n) == [r \in Rids |-> IF r = n THEN Profile(n) ELSE None]

\* Events arrive as steps of this module and bring their bundles.
Incoming == {}
Served == [r \in Rids |-> {}]

\* The two nodes.  approved is history that no definition used here reads.
Coord == INSTANCE KnowledgePipeline
           WITH Me <- c, Peers <- {p}, Objects <- {}, Values <- {}, Provides <- {"node", "edge"},
                OwnType <- "FULL", FirstContact <- None, Stored <- Fresh(c), StartClock <- 0,
                MaxInputs <- 0, cache <- cacheC, graph <- graphC, kobj_queue <- queueC, pc <- pcC,
                kobj <- kobjC, norm <- normC, targets <- targetsC, pushed <- pushedC,
                inputs <- 0, checked <- checkedC, dropped <- droppedC, approved <- <<>>

Part == INSTANCE KnowledgePipeline
          WITH Me <- p, Peers <- {c}, Objects <- {}, Values <- {}, Provides <- {},
               OwnType <- "PARTIAL", FirstContact <- c, Stored <- Fresh(p), StartClock <- 0,
               MaxInputs <- 0, cache <- cacheP, graph <- graphP, kobj_queue <- queueP, pc <- pcP,
               kobj <- kobjP, norm <- normP, targets <- targetsP, pushed <- pushedP,
               inputs <- 0, checked <- checkedP, dropped <- droppedP, approved <- <<>>

\* None is not a bundle.
ASSUME NoneIsNoBundle == None \notin Coord!Bundles

Init ==
    /\ cacheC = Fresh(c) /\ cacheP = Fresh(p)
    /\ graphC = {} /\ queueC = <<>> /\ pcC = "idle" /\ kobjC = None /\ normC = None
    /\ targetsC = {} /\ pushedC = None /\ checkedC = None /\ droppedC = {}
    /\ graphP = {} /\ queueP = <<>> /\ pcP = "idle" /\ kobjP = None /\ normP = None
    /\ targetsP = {} /\ pushedP = None /\ checkedP = None /\ droppedP = {}
    /\ clock = 1 /\ mode = "start" /\ server = <<>> /\ pollqueue = <<>> /\ early = 0 /\ restarts = 0

-----------------------------------------------------------------------------
(* Requests of the partial node to the coordinator. *)

NodeEvent(n, type) == [node |-> IF n = p THEN c ELSE p, event |-> type, rid |-> n,
                       version |-> IF type = "NEW" THEN Profile(n) ELSE None]

\* Actor.handshake_with: FORGET and NEW of the sender in one request.
HandshakeSwapped == <<NodeEvent(p, "NEW"), NodeEvent(p, "FORGET")>>
Handshake == <<NodeEvent(p, "FORGET"), NodeEvent(p, "NEW")>>

\* Secure._handle_unknown_node
Introduces(events, n) == \E i \in DOMAIN events : events[i].rid = n /\ events[i].event = "NEW"

\* Secure.validate_envelope of a request: the sender is cached or introduces itself.
KnownToCoord(events) == cacheC[p] # None \/ Introduces(events, p)
KnownToPart(events) == cacheP[c] # None \/ Introduces(events, c)

\* RequestHandler.broadcast_events; an UnknownNode answer makes the error handler
\* shake hands, and the events that were refused are gone.
Send(events) == server' = IF KnownToCoord(events) THEN events ELSE Handshake

Waiting == server # <<>>

\* NodeServer.broadcast_events queues the events one by one.
ServerPuts ==
    /\ Waiting
    /\ LET e == Head(server) IN
         Coord!Handle(<<Coord!Knowledge(e.rid, e.event, p, e.version)>>)
    /\ server' = Tail(server)
    /\ UNCHANGED <<cacheC, graphC, pcC, kobjC, normC, targetsC, pushedC, checkedC, droppedC,
                   part, clock, mode, pollqueue, early, restarts>>

-----------------------------------------------------------------------------
(* The coordinator's worker. *)

\* push_event_to: the partial node has a poll queue as soon as it or an edge to
\* it is known; else the event is dropped.
PushToPart(e) ==
    pollqueue' = IF cacheC[p] # None \/ (Toward \in graphC /\ cacheC[Toward] # None)
                 THEN Append(pollqueue, e) ELSE pollqueue

\* handshake_handler of examples/coordinator.py, after the default handlers of
\* the Network chain.
NewNode(k) == k.rid = p /\ k.event = "NEW"

BackEdge == [status |-> "PROPOSED", edge_type |-> "WEBHOOK", rid_types |-> {"node", "edge"}]

BackEdgeBundle == Coord!Knowledge(Back, None, None, [ts |-> clock, val |-> BackEdge])

ProposalSwapped == <<BackEdgeBundle, Coord!Knowledge(Back, "FORGET", None, None)>>
Proposal == <<Coord!Knowledge(Back, "FORGET", None, None), BackEdgeBundle>>

HandshakeHandler ==
    /\ pcC = "network" /\ NewNode(kobjC)
    /\ PushToPart(NodeEvent(c, "NEW"))
    /\ Coord!Handle(Proposal)
    /\ clock' = clock + 1
    /\ targetsC' = Coord!NetworkTargets(kobjC)
    /\ pcC' = "broadcast"
    /\ UNCHANGED <<cacheC, graphC, kobjC, normC, pushedC, checkedC, droppedC,
                   part, mode, server, early, restarts>>

CoordBroadcasts ==
    /\ Coord!Broadcast /\ pcC' = "broadcast"
    /\ PushToPart(pushedC')
    /\ UNCHANGED <<part, mode, server, early, restarts>>

CoordWorks ==
    /\ \/ Coord!RidChain \/ Coord!AttachCached \/ Coord!ManifestChain \/ Coord!BundleChain
       \/ Coord!ApproveEdge \/ Coord!CacheAction \/ Coord!Generate \/ Coord!FinalChain
       \/ Coord!OutputFilter /\ ~NewNode(kobjC)
    /\ UNCHANGED <<part, mode, server, pollqueue, early, restarts>>

Coordinator == HandshakeHandler \/ CoordBroadcasts \/ CoordWorks

-----------------------------------------------------------------------------
(* The partial node: one thread that starts, polls and processes. *)

NoNeighbors == graphP = {}

\* NodeLifecycle.start
Start ==
    /\ mode = "start" /\ ~Waiting
    /\ graphP' = Part!CachedEdges
    /\ server' = IF graphP' = {} THEN Handshake ELSE <<>>
    /\ mode' = "poll"
    /\ UNCHANGED <<coord, cacheP, workP, clock, pollqueue, early, restarts>>

CanPoll == /\ mode = "poll" /\ ~Waiting
           /\ NoNeighbors \/ cacheP[c] # None
           /\ Coord!Quiet \/ early < MaxEarly
           /\ early' = IF Coord!Quiet THEN early ELSE early + 1

\* The coordinator does not know the sender yet: another handshake.
PollRefused ==
    /\ CanPoll /\ ~KnownToCoord(<<>>)
    /\ Send(<<>>)
    /\ UNCHANGED <<coord, part, clock, mode, pollqueue, restarts>>

\* NodePoller.poll
Poll ==
    /\ CanPoll /\ KnownToCoord(<<>>) /\ KnownToPart(pollqueue)
    /\ Part!Handle([i \in DOMAIN pollqueue |->
          Part!Knowledge(pollqueue[i].rid, pollqueue[i].event, c, pollqueue[i].version)])
    /\ pollqueue' = <<>>
    /\ mode' = "flush"
    /\ UNCHANGED <<coord, cacheP, graphP, pcP, kobjP, normP, targetsP, pushedP, checkedP, droppedP,
                   clock, server, restarts>>

\* The response does not introduce a coordinator that is still unknown:
\* validate_envelope raises, and neither poll_neighbors nor poll catches it.
PollFails ==
    /\ CanPoll /\ KnownToCoord(<<>>) /\ ~KnownToPart(pollqueue)
    /\ pollqueue' = <<>>
    /\ mode' = "stop"
    /\ UNCHANGED <<coord, part, clock, server, restarts>>

Processing == mode \in {"flush", "stop"} /\ ~Waiting

PartWorks ==
    /\ Processing
    /\ \/ Part!RidChain \/ Part!AttachCached \/ Part!ManifestChain \/ Part!BundleChain
       \/ Part!ApproveEdge \/ Part!CacheAction \/ Part!Generate \/ Part!ProposeEdge
       \/ Part!OutputFilter \/ Part!FinalChain
    /\ UNCHANGED <<coord, mode, server, pollqueue, early, restarts>>

PartBroadcasts ==
    /\ Processing
    /\ Part!Broadcast /\ pcP' = "broadcast"
    /\ Send(<<pushedP'>>)
    /\ UNCHANGED <<coord, mode, pollqueue, early, restarts>>

\* coordinator_contact fetches the RIDs of the nodes the coordinator knows, none
\* of which is new here.
PartCatchesUp ==
    /\ Processing /\ KnownToCoord(<<>>)
    /\ Part!CatchUp /\ pcP' = "filter" /\ queueP' = queueP
    /\ UNCHANGED <<coord, mode, server, pollqueue, early, restarts>>

\* The error response has no rids: the exception leaves flush_kobj_queue and the
\* poll loop; in stop() the next one ends the program.
CatchUpRefused ==
    /\ Processing /\ ~KnownToCoord(<<>>)
    /\ Part!CatchUp /\ pcP' = "idle"
    /\ Send(<<>>)
    /\ mode' = IF mode = "flush" THEN "stop" ELSE "down"
    /\ UNCHANGED <<coord, pollqueue, early, restarts>>

\* flush_kobj_queue has emptied the queue.
Flushed ==
    /\ Processing /\ Part!Quiet
    /\ mode' = IF mode = "flush" THEN "poll" ELSE "down"
    /\ UNCHANGED <<coord, part, clock, server, pollqueue, early, restarts>>

Partial == Start \/ PollRefused \/ Poll \/ PollFails \/ PartWorks \/ PartBroadcasts
           \/ PartCatchesUp \/ CatchUpRefused \/ Flushed

\* The process is killed: only its cache is left (the graph is generated anew).
MemoryIsLost ==
    /\ graphP' = {} /\ queueP' = <<>> /\ pcP' = "idle" /\ kobjP' = None /\ normP' = None
    /\ targetsP' = {} /\ pushedP' = None /\ checkedP' = None /\ droppedP' = {}

Crash ==
    /\ restarts < MaxRestarts /\ mode # "down"
    /\ mode' = "down"
    /\ MemoryIsLost
    /\ UNCHANGED <<coord, cacheP, clock, server, pollqueue, early, restarts>>

\* A node that was killed, or that an exception has stopped, is started again.
Restart ==
    /\ mode = "down" /\ restarts < MaxRestarts
    /\ restarts' = restarts + 1
    /\ mode' = "start"
    /\ MemoryIsLost
    /\ UNCHANGED <<coord, cacheP, clock, server, pollqueue, early>>

-----------------------------------------------------------------------------
Next == Coordinator \/ ServerPuts \/ Partial \/ Crash \/ Restart

\* Both nodes' threads run; nothing obliges a node to crash or to be restarted.
Spec == /\ Init /\ [][Next]_vars
        /\ WF_vars(Coordinator) /\ WF_vars(ServerPuts) /\ WF_vars(Partial)

-----------------------------------------------------------------------------
(* Correctness *)

\* Nothing is underway in either node or between them.
Settled == Coord!Quiet /\ Part!Quiet /\ ~Waiting /\ pollqueue = <<>> /\ mode = "poll"

Approved(cache, e) == cache[e] # None /\ cache[e].val.status = "APPROVED"

\* Both nodes hold both edges as approved, and each in the same version.
Subscribed == \A e \in {Toward, Back} : Approved(cacheC, e) /\ cacheP[e] = cacheC[e]

\* README.md: the first contact "can be used to make your first connection and
\* find out about other nodes in the network": a node that goes on polling, was
\* never restarted and polled at most once while the coordinator's worker was
\* busy is subscribed to its coordinator in the end, and the coordinator to it;
\* the versions of an edge that cross between them (proposal, approval) converge.
\* (Restarted between caching the coordinator and writing the edge it proposes, it
\* never is: the coordinator's NEW has the cached hash then.  With two early polls
\* a second handshake may be underway when it broadcasts that edge.)
SubscribedUnlessRestarted ==
    <>[](mode \notin {"stop", "down"} /\ restarts = 0 /\ early <= 1) => <>[]Subscribed

\* README.md: partial nodes "are capable of receiving events via polling": the
\* handshake, polls and answers of two correct nodes that reach each other do
\* not end the poll loop with an exception.
PollerSurvives == mode # "stop"

\* The FORGET that starts a handshake never leaves one node unknown to the other
\* when the network comes to rest, whichever was refused, repeated or cut short.
NodesKnowEachOther == Settled => cacheC[p] # None /\ cacheP[c] # None

\* An edge that its proposer deleted, or lost, does not stay behind at the other
\* node: the coordinator holds no subscription of a partial node that does not
\* know of it, and the partial node none of the coordinator's.
NoEdgeWithoutProposer ==
    Settled => /\ cacheC[Toward] # None => cacheP[Toward] # None
               /\ cacheP[Back] # None => cacheC[Back] # None
=============================================================================
