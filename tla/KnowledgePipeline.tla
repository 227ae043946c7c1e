-------------------------- MODULE KnowledgePipeline --------------------------
(***************************************************************************)
(* The knowledge processing pipeline of one KOI-net node: the FIFO of      *)
(* knowledge objects, the single worker that takes each object through the *)
(* RID, Manifest, Bundle, Network and Final handler chains, the default    *)
(* handlers, the RID cache and the network graph derived from it.          *)
(*                                                                         *)
(* The other threads of the node only append to the FIFO, so they are the  *)
(* actions Receive, LocalChange and ForgetUnreachable.  The calls the      *)
(* worker makes to other nodes are points where the rest of the network    *)
(* moves: the answer is any version the peer may hold by then, or an       *)
(* exception.  What is handed to the NetworkEventQueue is `pushed'.        *)
(***************************************************************************)
EXTENDS Naturals, Sequences, FiniteSets

CONSTANTS
    Me,            \* identity.rid, the RID of this node
    Peers,         \* RIDs of the other nodes
    Objects,       \* RIDs that are neither nodes nor edges
    Values,        \* contents an object RID may have
    Provides,      \* identity.profile.provides.event, as a set of RID types
    OwnType,       \* identity.profile.node_type
    FirstContact,  \* config.koi_net.first_contact.rid, or None
    Incoming,      \* knowledge objects the peers' events normalise to
    Served,        \* Served[r]: the versions of r a peer may answer a fetch with
    Stored,        \* Stored[r]: what the cache directory holds when the node starts
    StartClock,    \* this node's clock when the model starts
    MaxInputs,     \* bound: knowledge objects queued from outside the worker
    None           \* Python's None

Nodes == {Me} \union Peers

RidTypes == {"node", "edge", "object"}
NodeTypes == {"FULL", "PARTIAL"}

\* An edge RID is the hash of source and target: here the pair of them.
Edges == {e \in Nodes \X Nodes : e[1] # e[2]}
Rids == Nodes \union Edges \union Objects

RidType(r) == IF r \in Nodes THEN "node" ELSE IF r \in Edges THEN "edge" ELSE "object"

\* key_ok: the hash of the public key is the hash in the node's RID.
NodeProfile == [node_type : NodeTypes, provides : SUBSET RidTypes, key_ok : BOOLEAN]
EdgeProfile == [status : {"PROPOSED", "APPROVED"}, edge_type : {"WEBHOOK", "POLL"},
                rid_types : SUBSET RidTypes]

Contents(r) == IF r \in Nodes THEN NodeProfile
               ELSE IF r \in Edges THEN EdgeProfile ELSE Values

\* A manifest is (timestamp, hash) and hashes are injective, so the pair
\* (ts, val) stands for a manifest and for the bundle it describes.
Bundle(r) == [ts : Nat, val : Contents(r)]
Bundles == [ts : Nat, val : NodeProfile \union EdgeProfile \union Values]

Events == {"NEW", "UPDATE", "FORGET"}

(* full: the contents came with the manifest (KnowledgeObject.bundle is set) *)
Kobj == {k \in [rid : Rids, event : Events \union {None}, source : Peers \union {None},
                version : Bundles \union {None}, full : BOOLEAN] :
           k.version # None => k.version \in Bundle(k.rid)}

OwnProfile == [node_type |-> OwnType, provides |-> Provides, key_ok |-> TRUE]

ASSUME PipelineAssumption ==
    /\ Me \notin Peers /\ IsFiniteSet(Peers)
    /\ Nodes \intersect Edges = {} /\ Objects \intersect (Nodes \union Edges) = {}
    /\ None \notin Rids /\ None \notin Nat /\ None \notin Bundles /\ None \notin Kobj /\ None \notin Events
    /\ Provides \subseteq RidTypes /\ OwnType \in NodeTypes
    /\ FirstContact \in Peers \union {None}
    /\ Incoming \subseteq {k \in Kobj : k.source \in Peers /\ k.event # None}
    /\ Served \in [Rids -> SUBSET Bundles]
    /\ \A r \in Rids : Served[r] \subseteq Bundle(r)
    /\ Stored \in [Rids -> Bundles \union {None}]
    /\ \A r \in Rids : Stored[r] # None => Stored[r] \in Bundle(r)
    /\ Stored[Me] # None /\ Stored[Me].val = OwnProfile
    /\ StartClock \in Nat /\ MaxInputs \in Nat

VARIABLES
    cache,       \* cache[r]: the bundle stored for r, or None
    graph,       \* the edge RIDs in NetworkGraph.dg
    kobj_queue,  \* ProcessorInterface.kobj_queue
    pc,          \* where the worker is in KnowledgePipeline.process
    kobj,        \* the knowledge object in process, or None
    norm,        \* kobj.normalized_event_type
    targets,     \* kobj.network_targets not yet pushed to
    pushed,      \* the last event handed to NetworkEventQueue.push_event_to
    clock,       \* the time the next local manifest is stamped with
    inputs,      \* knowledge objects queued from outside so far
    checked,     \* ghost: the manifest the Manifest chain let through
    dropped,     \* ghost: the edges this node deleted from its cache
    approved     \* ghost: the stamp of the last approval queued for each peer, or None

vars == <<cache, graph, kobj_queue, pc, kobj, norm, targets, pushed, clock, inputs,
          checked, dropped, approved>>
worker == <<pc, kobj, norm, targets, checked>>

CachedEdges == {e \in Edges : cache[e] # None}

\* NodeLifecycle.start has generated the graph and processed the own bundle.
Init ==
    /\ cache = Stored
    /\ graph = CachedEdges
    /\ kobj_queue = <<>>
    /\ pc = "idle" /\ kobj = None /\ norm = None /\ targets = {} /\ checked = None
    /\ pushed = None
    /\ clock = StartClock
    /\ inputs = 0
    /\ dropped = {}
    /\ approved = [n \in Peers |-> None]

-----------------------------------------------------------------------------
(* ProcessorInterface.handle and the callers of it outside the worker. *)

Knowledge(r, event, source, version) ==
    [rid |-> r, event |-> event, source |-> source, version |-> version,
     full |-> version # None]

Handle(ks) == kobj_queue' = kobj_queue \o ks

Input(k) ==
    /\ inputs < MaxInputs
    /\ inputs' = inputs + 1
    /\ Handle(<<k>>)

\* NodeServer.broadcast_events and NodePoller.poll: an event from a peer.
Receive ==
    /\ \E k \in Incoming : Input(k)
    /\ UNCHANGED <<cache, graph, worker, pushed, clock, dropped, approved>>

\* The program around the node handles an object of its own.
LocalChange ==
    /\ \E r \in Objects :
         \/ /\ \E v \in Values : Input(Knowledge(r, None, None, [ts |-> clock, val |-> v]))
            /\ clock' = clock + 1
         \/ /\ Input(Knowledge(r, "FORGET", None, None))
            /\ UNCHANGED clock
    /\ UNCHANGED <<cache, graph, worker, pushed, dropped, approved>>

\* RequestHandler.get_url finds an address for the node.
CanQuery(n) == IF cache[n] # None THEN cache[n].val.node_type = "FULL" ELSE n = FirstContact

\* ErrorHandler.handle_connection_error gives up on a node.
ForgetUnreachable ==
    /\ \E n \in Peers : CanQuery(n) /\ Input(Knowledge(n, "FORGET", None, None))
    /\ UNCHANGED <<cache, graph, worker, pushed, clock, dropped, approved>>

-----------------------------------------------------------------------------
(* The worker: kobj_processor_worker and KnowledgePipeline.process. *)

\* process() returns.
Stop == /\ pc' = "idle" /\ kobj' = None /\ norm' = None /\ targets' = {} /\ checked' = None

\* An exception leaves process(): kobj_processor_worker logs it and goes on.
AbortUncaught == pc' = "dead" /\ UNCHANGED <<kobj, norm, targets, checked>>
Abort == Stop

Goto(stage) == pc' = stage /\ UNCHANGED <<kobj, norm, targets, checked>>

AboutMeInternal(k) == k.rid = Me /\ k.source = None
AboutMe(k) == k.rid = Me /\ k.source # None

\* The next knowledge object is taken and goes through basic_rid_handler.
RidChain ==
    /\ pc = "idle" /\ kobj_queue # <<>>
    /\ kobj_queue' = Tail(kobj_queue)
    /\ LET k == Head(kobj_queue) IN
         \/ /\ AboutMe(k)
            /\ Stop
         \/ /\ ~AboutMe(k)
            /\ kobj' = k
            /\ norm' = IF k.event = "FORGET" THEN "FORGET" ELSE None
            /\ pc' = IF k.event = "FORGET" THEN "forget" ELSE "manifest"
            /\ UNCHANGED <<targets, checked>>
    /\ UNCHANGED <<cache, graph, pushed, clock, inputs, dropped, approved>>

\* FORGET: the cached bundle is attached, or there is nothing to forget.
AttachCached ==
    /\ pc = "forget"
    /\ \/ cache[kobj.rid] = None /\ Stop
       \/ /\ cache[kobj.rid] # None
          /\ kobj' = [kobj EXCEPT !.version = cache[kobj.rid], !.full = TRUE]
          /\ pc' = "bundle"
          /\ UNCHANGED <<norm, targets, checked>>
    /\ UNCHANGED <<cache, graph, kobj_queue, pushed, clock, inputs, dropped, approved>>

\* request_handler.fetch_manifests, answered by the source as of now.
FetchManifest ==
    /\ pc = "manifest" /\ kobj.version = None
    /\ \/ Stop     \* no source, or not found
       \/ Abort    \* the source has no address, is down, or answers with an error
       \/ /\ kobj.source # None /\ CanQuery(kobj.source)
          /\ \E m \in Served[kobj.rid] : kobj' = [kobj EXCEPT !.version = m]
          /\ UNCHANGED <<pc, norm, targets, checked>>
    /\ UNCHANGED <<cache, graph, kobj_queue, pushed, clock, inputs, dropped, approved>>

\* The checks of basic_manifest_handler against the cached version.
AcceptableByHash(new, prev) == prev # None => new.val # prev.val
Acceptable(new, prev) == prev # None => new.val # prev.val /\ new.ts > prev.ts

NormalizedAsAnnounced(k) == IF k.event = "NEW" THEN "NEW" ELSE "UPDATE"
Normalized(k) == IF cache[k.rid] = None THEN "NEW" ELSE "UPDATE"

ManifestChain ==
    /\ pc = "manifest" /\ kobj.version # None
    /\ \/ ~Acceptable(kobj.version, cache[kobj.rid]) /\ Stop
       \/ /\ Acceptable(kobj.version, cache[kobj.rid])
          /\ norm' = Normalized(kobj)
          /\ checked' = kobj.version
          /\ pc' = IF kobj.full THEN "bundle" ELSE "fetch"
          /\ UNCHANGED <<kobj, targets>>
    /\ UNCHANGED <<cache, graph, kobj_queue, pushed, clock, inputs, dropped, approved>>

\* request_handler.fetch_bundles: the bundle brings its own manifest, and a
\* difference to the one just checked is only logged.
FetchBundle ==
    /\ pc = "fetch"
    /\ \/ Stop
       \/ Abort
       \/ /\ kobj.source # None /\ CanQuery(kobj.source)
          /\ \E b \in Served[kobj.rid] :
               kobj' = [kobj EXCEPT !.version = b, !.full = TRUE]
          /\ pc' = "bundle"
          /\ UNCHANGED <<norm, targets, checked>>
    /\ UNCHANGED <<cache, graph, kobj_queue, pushed, clock, inputs, dropped, approved>>

-----------------------------------------------------------------------------
(* The Bundle chain: secure_profile_handler and edge_negotiation_handler.  Both *)
(* are registered for NEW and UPDATE events, so neither sees an object whose   *)
(* event type is None.                                                         *)

IsChangeNewOnly(k) == k.event = "NEW"
IsChange(k) == k.event \in {"NEW", "UPDATE"}

BadKey(k) == k.rid \in Nodes /\ IsChange(k) /\ ~k.version.val.key_ok

\* A peer proposes to subscribe to this node.
Proposal(k) == /\ k.rid \in Edges /\ IsChange(k) /\ k.source # None
               /\ k.rid[1] = Me /\ k.version.val.status = "PROPOSED"

\* Partial nodes cannot use webhooks; the types asked for must be provided.
Refused(profile, peer) ==
    \/ profile.edge_type = "WEBHOOK" /\ cache[peer].val.node_type = "PARTIAL"
    \/ ~(profile.rid_types \subseteq Provides \union {"node", "edge"})

Push(n, event, r, version) ==
    pushed' = [node |-> n, event |-> event, rid |-> r, version |-> version]

BundleChain ==
    /\ pc = "bundle"
    /\ \/ /\ ~BadKey(kobj) /\ ~Proposal(kobj)
          /\ Goto("write")
          /\ UNCHANGED <<kobj_queue, pushed, clock>>
       \/ /\ BadKey(kobj) \/ (Proposal(kobj) /\ cache[kobj.rid[2]] = None)
          /\ Stop
          /\ UNCHANGED <<kobj_queue, pushed, clock>>
    /\ UNCHANGED <<cache, graph, inputs, dropped, approved>>

RefuseEdge ==
    /\ pc = "bundle" /\ Proposal(kobj) /\ cache[kobj.rid[2]] # None
    /\ Refused(kobj.version.val, kobj.rid[2])
    /\ Push(kobj.rid[2], "FORGET", kobj.rid, None)
    /\ Stop
    /\ UNCHANGED <<cache, graph, kobj_queue, clock, inputs, dropped, approved>>

\* The approved edge is queued behind whatever is waiting; the proposed one
\* goes on to be written.
ApproveEdge ==
    /\ pc = "bundle" /\ Proposal(kobj) /\ cache[kobj.rid[2]] # None
    /\ ~Refused(kobj.version.val, kobj.rid[2])
    /\ Handle(<<Knowledge(kobj.rid, "UPDATE", None,
                 [ts |-> clock, val |-> [kobj.version.val EXCEPT !.status = "APPROVED"]])>>)
    /\ clock' = clock + 1
    /\ approved' = [n \in DOMAIN approved |-> IF n = kobj.rid[2] THEN clock ELSE approved[n]]
    /\ Goto("write")
    /\ UNCHANGED <<cache, graph, pushed, inputs, dropped>>

-----------------------------------------------------------------------------
(* The cache action and NetworkGraph.generate. *)

ChangesGraphUnlessForget == norm # "FORGET" /\ kobj.rid \in Nodes \union Edges
ChangesGraph == kobj.rid \in Nodes \union Edges

CacheAction ==
    /\ pc = "write"
    /\ cache' = [cache EXCEPT ![kobj.rid] = IF norm = "FORGET" THEN None ELSE kobj.version]
    /\ dropped' = IF norm = "FORGET" THEN dropped \union {kobj.rid}
                                     ELSE dropped \ {kobj.rid}
    /\ Goto(IF ChangesGraph THEN "graph" ELSE "network")
    /\ UNCHANGED <<graph, kobj_queue, pushed, clock, inputs, approved>>

Generate ==
    /\ pc = "graph"
    /\ graph' = CachedEdges
    /\ Goto("network")
    /\ UNCHANGED <<cache, kobj_queue, pushed, clock, inputs, dropped, approved>>

-----------------------------------------------------------------------------
(* The Network chain: coordinator_contact, then basic_network_output_filter. *)

\* An event provider of nodes that this node has no edge from.
NewCoordinatorSwapped(k) == /\ k.rid \in Peers
                            /\ "node" \in k.version.val.provides
                            /\ <<Me, k.rid>> \notin graph
NewCoordinator(k) == /\ k.rid \in Peers
                     /\ "node" \in k.version.val.provides
                     /\ <<k.rid, Me>> \notin graph

ProposedEdgeOfNodeType == [status |-> "PROPOSED", rid_types |-> {"node"}, edge_type |-> OwnType]
ProposedEdge == [status |-> "PROPOSED", rid_types |-> {"node"},
                 edge_type |-> IF OwnType = "FULL" THEN "WEBHOOK" ELSE "POLL"]

\* coordinator_contact queues the edge it proposes (generate_edge_bundle) ...
ProposeEdge ==
    /\ pc = "network" /\ NewCoordinator(kobj)
    /\ Handle(<<Knowledge(<<kobj.rid, Me>>, None, None, [ts |-> clock, val |-> ProposedEdge])>>)
    /\ clock' = clock + 1
    /\ Goto("catchup")
    /\ UNCHANGED <<cache, graph, pushed, inputs, dropped, approved>>

Orderings(S) == {f \in [1..Cardinality(S) -> S] : \A i, j \in 1..Cardinality(S) :
                                                       f[i] = f[j] => i = j}

\* ... and asks the coordinator for the nodes it knows.  An exception here
\* leaves process(): the Network chain, the broadcast and the Final chain are skipped.
CatchUp ==
    /\ pc = "catchup"
    /\ \/ Abort /\ UNCHANGED kobj_queue
       \/ /\ CanQuery(kobj.rid)
          /\ \E known \in SUBSET Nodes :
               \E new \in Orderings({n \in known \ {Me} : cache[n] = None}) :
                  Handle([i \in DOMAIN new |-> Knowledge(new[i], None, kobj.rid, None)])
          /\ Goto("filter")
    /\ UNCHANGED <<cache, graph, pushed, clock, inputs, dropped, approved>>

\* NetworkGraph.get_neighbors(direction="out", allowed_type=type)
Subscribers(type) == {n \in Peers : /\ <<Me, n>> \in graph /\ cache[<<Me, n>>] # None
                                    /\ type \in cache[<<Me, n>>].val.rid_types}

\* The other end of an internally sourced edge of this node.
OtherEnd(k) == IF k.source = None /\ k.rid \in Edges
               THEN {n \in Peers : k.rid \in {<<Me, n>>, <<n, Me>>}} ELSE {}

InvolvesMe(k) == OtherEnd(k) # {} \/ (k.source = None /\ k.rid = Me)

NetworkTargets(k) == OtherEnd(k) \union (IF RidType(k.rid) \in Provides \/ InvolvesMe(k)
                                          THEN Subscribers(RidType(k.rid)) ELSE {})

OutputFilter ==
    /\ \/ pc = "filter"
       \/ pc = "network" /\ ~NewCoordinator(kobj)
    /\ targets' = NetworkTargets(kobj)
    /\ pc' = "broadcast"
    /\ UNCHANGED <<cache, graph, kobj_queue, kobj, norm, pushed, clock, inputs, checked, dropped, approved>>

-----------------------------------------------------------------------------
(* push_event_to and flush_webhook_queue for each network target. *)

\* KnowledgeObject.normalized_event carries no bundle when it is a FORGET.
NormalizedBundleAlways == kobj.version
NormalizedBundle == IF norm = "FORGET" THEN None ELSE kobj.version

Broadcast ==
    /\ pc = "broadcast"
    /\ \E n \in targets :
         /\ Push(n, norm, kobj.rid, NormalizedBundle)
         /\ \/ /\ targets' = targets \ {n}
               /\ UNCHANGED <<pc, kobj, norm, checked>>
            \/ Abort    \* the flush raises something other than a ConnectError
    /\ UNCHANGED <<cache, graph, kobj_queue, clock, inputs, dropped, approved>>

\* The Final chain: forget_edge_on_node_deletion.
IfCached(e) == IF e \in graph /\ cache[e] # None THEN <<e>> ELSE <<>>
EdgesFrom(n) == IfCached(<<n, Me>>)
EdgesWith(n) == IfCached(<<Me, n>>) \o IfCached(<<n, Me>>)

FinalChain ==
    /\ pc = "broadcast" /\ targets = {}
    /\ LET gone == IF norm = "FORGET" /\ kobj.rid \in Peers THEN EdgesWith(kobj.rid) ELSE <<>>
       IN  Handle([i \in DOMAIN gone |-> Knowledge(gone[i], "FORGET", None, None)])
    /\ Stop
    /\ UNCHANGED <<cache, graph, pushed, clock, inputs, dropped, approved>>

-----------------------------------------------------------------------------
Process == \/ RidChain \/ AttachCached \/ FetchManifest \/ ManifestChain \/ FetchBundle
           \/ BundleChain \/ RefuseEdge \/ ApproveEdge \/ CacheAction \/ Generate
           \/ ProposeEdge \/ CatchUp \/ OutputFilter \/ Broadcast \/ FinalChain

Next == Receive \/ LocalChange \/ ForgetUnreachable \/ Process

\* The worker thread loops for ever; nothing obliges the others to act.
Spec == Init /\ [][Next]_vars /\ WF_vars(Process)

-----------------------------------------------------------------------------
(* Correctness *)

\* Every variable holds a value of the kind the code gives it.
TypeOK ==
    /\ cache \in [Rids -> Bundles \union {None}]
    /\ \A r \in Rids : cache[r] # None => cache[r] \in Bundle(r)
    /\ graph \subseteq Edges
    /\ kobj_queue \in Seq(Kobj)
    /\ pc \in {"idle", "forget", "manifest", "fetch", "bundle", "write", "graph", "network",
               "catchup", "filter", "broadcast"}
    /\ kobj \in Kobj \union {None}
    /\ norm \in Events \union {None}
    /\ targets \subseteq Peers
    /\ pushed \in [node : Peers, event : Events, rid : Rids, version : Bundles \union {None}]
                   \union {None}
    /\ clock \in Nat /\ inputs \in 0..MaxInputs
    /\ checked \in Bundles \union {None}
    /\ dropped \subseteq Rids
    /\ approved \in [Peers -> Nat \union {None}]

Quiet == pc = "idle" /\ kobj_queue = <<>>

Newer(new, old) == new.ts > old.ts /\ new.val # old.val

\* basic_manifest_handler: "Blocks manifests with the same hash, or aren't newer
\* than the cached version": a cached bundle is only ever replaced by a newer
\* one with other contents.
CacheMovesForward ==
    [][\A r \in Rids : cache[r] # None /\ cache'[r] # None /\ cache'[r] # cache[r]
                          => Newer(cache'[r], cache[r])]_vars

\* What the code does guarantee: the manifest that was checked is newer than
\* what it replaces at the moment of the write, whatever was queued, fetched
\* and written since; only a bundle that a peer answered with in place of the
\* checked one (knowledge_pipeline.py warns and goes on) escapes it.
CheckedMovesForward ==
    [][\A r \in Rids : cache[r] # None /\ cache'[r] # None /\ cache'[r] # cache[r]
                          => /\ Newer(checked, cache[r])
                             /\ cache'[r] # checked => cache'[r] \in Served[r]]_vars

\* The normalized event type broadcast to the network names the transition the
\* cache really made: NEW from absent, FORGET to absent, UPDATE in between.
EventNamesTransition ==
    [][\A r \in Rids : cache'[r] # cache[r] =>
          norm = (IF cache[r] = None THEN "NEW"
                  ELSE IF cache'[r] = None THEN "FORGET" ELSE "UPDATE")]_vars

\* An event that leaves for a network target carries what the cache holds when
\* it leaves, so a peer never learns a version this node does not have; only
\* the refusal of an edge speaks of a bundle that was not taken.
BroadcastTellsCache ==
    [][pushed' # pushed => \/ pushed'.version = cache[pushed'.rid]
                           \/ pc = "bundle" /\ pushed'.event = "FORGET"]_vars

\* The graph used for routing and subscriptions is the cached edges, except
\* between the cache action and the regeneration that follows it.
GraphMirrorsCache == pc # "graph" => graph = CachedEdges

\* basic_rid_handler: nobody else tells this node who it is.
SelfIsSelfMade == cache[Me] = Stored[Me]

IsProposal(version) == version # None /\ version.val.status = "PROPOSED"

\* edge_negotiation_handler: "Automatically approves proposed edges if they
\* request RID types this node can provide": once the queue is empty no peer's
\* proposal to subscribe is left in the cache without its approval.  It fails
\* for a peer whose clock is ahead, which stamps its proposal after the approval.
NoProposalLeftOver == Quiet => \A n \in Peers : ~IsProposal(cache[<<Me, n>>])

\* What the code does guarantee: a proposal that is left over was stored by an
\* earlier life of the node, whose queue is gone, or it was approved, and the
\* stamp the proposer gave it is not behind the one this node gave the approval,
\* so that the Manifest chain refused the approval.  Nothing that arrives,
\* fails or is forgotten in between leaves a proposal over otherwise.
OnlyStampsLeaveProposals ==
    Quiet => \A n \in Peers :
      LET edge == cache[<<Me, n>>] IN
        IsProposal(edge) => \/ edge = Stored[<<Me, n>>]
                            \/ approved[n] # None /\ approved[n] <= edge.ts

\* coordinator_contact: once the queue is empty, this node has an edge from each
\* provider of nodes it learned of or heard news of in this life, unless the
\* edge was there and was deleted since: by a peer's FORGET, or by this node's
\* own forget_edge_on_node_deletion, whose FORGET of the edge may be processed
\* after the coordinator has come back.
CoordinatorContacted(n) ==
    cache[n] # None /\ "node" \in cache[n].val.provides => cache[<<n, Me>>] # None

CoordinatorsContacted ==
    Quiet => \A n \in Peers : \/ CoordinatorContacted(n)
                              \/ cache[n] = Stored[n] \/ <<n, Me>> \in dropped

\* forget_edge_on_node_deletion: when the Final chain sees a node deleted, every
\* edge between this node and that one is deleted in the end.
ForgottenNodeLosesEdges ==
    \A e \in Edges :
       (pc = "broadcast" /\ targets = {} /\ norm = "FORGET" /\ kobj.rid \in Peers
          /\ Me \in {e[1], e[2]} /\ kobj.rid \in {e[1], e[2]})
       ~> (e \notin graph)

\* What handlers put back into the queue comes to an end: when no more input
\* arrives the queue drains.
QueueDrains == (inputs = MaxInputs) ~> Quiet

=============================================================================
