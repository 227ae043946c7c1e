----------------------- MODULE KnowledgePipeline_proofs -----------------------
(***************************************************************************)
(* Proofs about KnowledgePipeline, for any peers, objects, contents,       *)
(* inputs, stored cache and answers of the peers.                          *)
(***************************************************************************)
EXTENDS KnowledgePipeline, FiniteSetTheorems, TLAPS

-----------------------------------------------------------------------------
(* The inductive invariant: type correctness, and what is true of the       *)
(* knowledge object at each stage of process().                             *)

\* The stages at which the manifest is known and the event type normalized.
Normalized_Stages == {"fetch", "bundle", "write", "graph", "network", "catchup", "filter",
                      "broadcast"}
\* The stages after the cache action.
Written_Stages == {"graph", "network", "catchup", "filter", "broadcast"}

StageOK ==
    /\ pc # "idle" => kobj \in Kobj
    /\ pc \in Normalized_Stages => kobj.version # None /\ norm \in Events
    /\ pc = "forget" => norm = "FORGET"
    /\ pc = "catchup" => kobj.rid \in Peers

\* Nothing about this node's own bundle passes the RID chain.
SelfOK ==
    /\ \A i \in 1..Len(kobj_queue) : kobj_queue[i].rid = Me => kobj_queue[i].source # None
    /\ pc # "idle" => kobj.rid # Me
    /\ cache[Me] = Stored[Me]

\* Between the check and the write nothing else writes the cache.
CheckOK ==
    pc \in {"fetch", "bundle", "write"} =>
      /\ norm = "FORGET" => cache[kobj.rid] # None
      /\ norm # "FORGET" => /\ norm = (IF cache[kobj.rid] = None THEN "NEW" ELSE "UPDATE")
                            /\ cache[kobj.rid] # None => Newer(checked, cache[kobj.rid])
                            /\ pc # "fetch" => \/ kobj.version = checked
                                               \/ kobj.version \in Served[kobj.rid]

\* After the write the cache holds what will be broadcast.
WrittenOK == pc \in Written_Stages => cache[kobj.rid] = NormalizedBundle

IInv == TypeOK /\ StageOK /\ SelfOK /\ CheckOK /\ WrittenOK /\ GraphMirrorsCache

-----------------------------------------------------------------------------
(* Facts about the data. *)

\* The contents of a RID are those of its type.
LEMMA ContentsOfType ==
    /\ \A r \in Nodes : Contents(r) = NodeProfile
    /\ \A r \in Edges : Contents(r) = EdgeProfile
    /\ \A r \in Objects : Contents(r) = Values
  BY PipelineAssumption DEF Contents

\* A bundle of one RID is a bundle.
LEMMA BundleIsBundle == \A r \in Rids : Bundle(r) \subseteq Bundles
  BY ContentsOfType DEF Bundle, Bundles, Rids

\* The approval is a bundle of the edge that was proposed.
LEMMA ApprovedIsBundle ==
    ASSUME NEW r \in Edges, NEW profile \in EdgeProfile, clock \in Nat
    PROVE  [ts |-> clock, val |-> [profile EXCEPT !.status = "APPROVED"]] \in Bundle(r)
  <1>1. [profile EXCEPT !.status = "APPROVED"] \in EdgeProfile
    BY DEF EdgeProfile
  <1> QED
    BY <1>1, ContentsOfType DEF Bundle

\* KnowledgeObject.from_rid and from_bundle build knowledge objects.
LEMMA KnowledgeType ==
    ASSUME NEW r \in Rids, NEW event \in Events \union {None}, NEW source \in Peers \union {None},
           NEW version \in Bundle(r) \union {None}
    PROVE  Knowledge(r, event, source, version) \in Kobj
  BY BundleIsBundle DEF Knowledge, Kobj

\* What a peer sends is a knowledge object with a source.
LEMMA IncomingType == \A k \in Incoming : k \in Kobj /\ k.source \in Peers
  BY PipelineAssumption

\* The queue stays a sequence of knowledge objects when some are added.
LEMMA HandleType ==
    ASSUME kobj_queue \in Seq(Kobj), NEW ks \in Seq(Kobj), Handle(ks)
    PROVE  kobj_queue' \in Seq(Kobj)
  BY DEF Handle

-----------------------------------------------------------------------------
(* Type correctness. *)

LEMMA InitInv == Init => IInv
  <1> SUFFICES ASSUME Init PROVE IInv
    OBVIOUS
  <1>1. TypeOK
    BY PipelineAssumption DEF Init, TypeOK, CachedEdges
  <1>2. StageOK /\ CheckOK /\ WrittenOK
    BY DEF Init, StageOK, CheckOK, WrittenOK, Normalized_Stages, Written_Stages
  <1>3. SelfOK /\ GraphMirrorsCache
    BY DEF Init, SelfOK, GraphMirrorsCache
  <1> QED
    BY <1>1, <1>2, <1>3 DEF IInv

\* Where the worker returns, only the worker's variables matter.
LEMMA InputType ==
    ASSUME TypeOK, NEW k \in Kobj, Input(k)
    PROVE  kobj_queue' \in Seq(Kobj) /\ inputs' \in 0..MaxInputs
  BY PipelineAssumption DEF TypeOK, Input, Handle

\* NetworkGraph.get_edges returns edges between this node and the other.
LEMMA EdgesWithType == ASSUME NEW n \in Peers PROVE EdgesWith(n) \in Seq(Edges)
  <1>1. <<Me, n>> \in Edges /\ <<n, Me>> \in Edges
    BY PipelineAssumption DEF Edges, Nodes
  <1> QED
    BY <1>1 DEF EdgesWith, IfCached

LEMMA TypeStep == ASSUME TypeOK, StageOK, [Next]_vars PROVE TypeOK'
  <1> USE DEF TypeOK
  <1>1. CASE Receive
    <2>1. PICK k \in Incoming : Input(k)
      BY <1>1 DEF Receive
    <2>2. kobj_queue' \in Seq(Kobj) /\ inputs' \in 0..MaxInputs
      BY <2>1, IncomingType, InputType
    <2> QED
      BY <1>1, <2>2 DEF Receive, worker
  <1>2. CASE LocalChange
    <2>1. PICK r \in Objects :
            \/ /\ \E v \in Values : Input(Knowledge(r, None, None, [ts |-> clock, val |-> v]))
               /\ clock' = clock + 1
            \/ Input(Knowledge(r, "FORGET", None, None)) /\ UNCHANGED clock
      BY <1>2 DEF LocalChange
    <2>2. \A v \in Values : [ts |-> clock, val |-> v] \in Bundle(r)
      BY ContentsOfType DEF Bundle
    <2>3. /\ \A v \in Values : Knowledge(r, None, None, [ts |-> clock, val |-> v]) \in Kobj
          /\ Knowledge(r, "FORGET", None, None) \in Kobj
      BY <2>2, KnowledgeType DEF Rids, Events
    <2>4. PICK k \in Kobj : Input(k)
      BY <2>1, <2>3
    <2>5. kobj_queue' \in Seq(Kobj) /\ inputs' \in 0..MaxInputs
      BY <2>4, InputType
    <2>6. clock' \in Nat
      BY <2>1
    <2> QED
      BY <1>2, <2>5, <2>6 DEF LocalChange, worker
  <1>3. CASE ForgetUnreachable
    <2>1. PICK n \in Peers : Input(Knowledge(n, "FORGET", None, None))
      BY <1>3 DEF ForgetUnreachable
    <2>2. Knowledge(n, "FORGET", None, None) \in Kobj
      BY KnowledgeType DEF Rids, Nodes, Events
    <2>3. kobj_queue' \in Seq(Kobj) /\ inputs' \in 0..MaxInputs
      BY <2>1, <2>2, InputType
    <2> QED
      BY <1>3, <2>3 DEF ForgetUnreachable, worker
  <1>4. CASE RidChain
    <2>1. Head(kobj_queue) \in Kobj /\ kobj_queue' \in Seq(Kobj)
      BY <1>4 DEF RidChain
    <2> QED
      BY <1>4, <2>1 DEF RidChain, Stop, Events
  <1>5. CASE AttachCached
    <2>1. cache[kobj.rid] # None => [kobj EXCEPT !.version = cache[kobj.rid], !.full = TRUE] \in Kobj
      BY <1>5 DEF AttachCached, StageOK, Kobj
    <2> QED
      BY <1>5, <2>1 DEF AttachCached, Stop
  <1>6. CASE FetchManifest
    <2>1. \A m \in Served[kobj.rid] : [kobj EXCEPT !.version = m] \in Kobj
      BY <1>6, BundleIsBundle, PipelineAssumption DEF FetchManifest, StageOK, Kobj
    <2> QED
      BY <1>6, <2>1 DEF FetchManifest, Stop, Abort
  <1>7. CASE ManifestChain
    <2>1. kobj.version \in Bundles
      BY <1>7 DEF ManifestChain, StageOK, Kobj
    <2> QED
      BY <1>7, <2>1 DEF ManifestChain, Stop, Normalized, Events
  <1>8. CASE FetchBundle
    <2>1. \A b \in Served[kobj.rid] : [kobj EXCEPT !.version = b, !.full = TRUE] \in Kobj
      BY <1>8, BundleIsBundle, PipelineAssumption DEF FetchBundle, StageOK, Kobj
    <2> QED
      BY <1>8, <2>1 DEF FetchBundle, Stop, Abort
  <1>9. CASE BundleChain
    BY <1>9 DEF BundleChain, Goto, Stop
  <1>10. CASE RefuseEdge
    <2>1. kobj \in Kobj /\ kobj.rid \in Edges /\ kobj.rid[1] = Me
      BY <1>10 DEF RefuseEdge, Proposal, StageOK
    <2>2. kobj.rid[2] \in Peers /\ kobj.rid \in Rids
      BY <2>1 DEF Edges, Nodes, Rids
    <2>3. pushed' \in [node : Peers, event : Events, rid : Rids, version : Bundles \union {None}]
      BY <1>10, <2>2 DEF RefuseEdge, Push, Events
    <2> QED
      BY <1>10, <2>3 DEF RefuseEdge, Stop
  <1>11. CASE ApproveEdge
    <2>1. kobj \in Kobj /\ kobj.rid \in Edges /\ kobj.version # None
      BY <1>11 DEF ApproveEdge, Proposal, StageOK, Normalized_Stages
    <2>2. kobj.version.val \in EdgeProfile
      BY <2>1, ContentsOfType DEF Kobj, Bundle
    <2>3. [ts |-> clock, val |-> [kobj.version.val EXCEPT !.status = "APPROVED"]] \in Bundle(kobj.rid)
      BY <2>1, <2>2, ApprovedIsBundle
    <2>4. Knowledge(kobj.rid, "UPDATE", None,
            [ts |-> clock, val |-> [kobj.version.val EXCEPT !.status = "APPROVED"]]) \in Kobj
      BY <2>1, <2>3, KnowledgeType DEF Rids, Events
    <2> QED
      BY <1>11, <2>4 DEF ApproveEdge, Handle, Goto
  <1>12. CASE CacheAction
    <2>1. kobj \in Kobj /\ kobj.version # None /\ kobj.rid \in Rids
      BY <1>12 DEF CacheAction, StageOK, Normalized_Stages, Kobj
    <2>2. kobj.version \in Bundle(kobj.rid) /\ kobj.version \in Bundles
      BY <2>1, BundleIsBundle DEF Kobj
    <2> QED
      BY <1>12, <2>1, <2>2 DEF CacheAction, Goto
  <1>13. CASE Generate
    BY <1>13 DEF Generate, Goto, CachedEdges
  <1>14. CASE ProposeEdge
    <2>1. kobj \in Kobj /\ kobj.rid \in Peers
      BY <1>14 DEF ProposeEdge, NewCoordinator, StageOK
    <2>2. <<kobj.rid, Me>> \in Edges
      BY <2>1, PipelineAssumption DEF Edges, Nodes
    <2>3. [ts |-> clock, val |-> ProposedEdge] \in Bundle(<<kobj.rid, Me>>)
      <3>1. ProposedEdge \in EdgeProfile
        BY DEF EdgeProfile, ProposedEdge, RidTypes
      <3> QED
        BY <2>2, <3>1, ContentsOfType DEF Bundle
    <2>4. Knowledge(<<kobj.rid, Me>>, None, None, [ts |-> clock, val |-> ProposedEdge]) \in Kobj
      BY <2>2, <2>3, KnowledgeType DEF Rids
    <2> QED
      BY <1>14, <2>4 DEF ProposeEdge, Handle, Goto
  <1>15. CASE CatchUp
    <2>1. CASE UNCHANGED kobj_queue
      BY <1>15, <2>1 DEF CatchUp, Abort, Stop, Goto
    <2>2. CASE \E known \in SUBSET Nodes :
                 \E new \in Orderings({n \in known \ {Me} : cache[n] = None}) :
                   Handle([i \in DOMAIN new |-> Knowledge(new[i], None, kobj.rid, None)])
      <3> DEFINE Unknown(known) == {n \in known \ {Me} : cache[n] = None}
                 Asked(new) == [i \in DOMAIN new |-> Knowledge(new[i], None, kobj.rid, None)]
      <3>1. PICK known \in SUBSET Nodes : \E new \in Orderings(Unknown(known)) : Handle(Asked(new))
        BY <2>2
      <3>2. PICK new \in Orderings(Unknown(known)) : Handle(Asked(new))
        BY <3>1
      <3>3. kobj.rid \in Peers
        BY <1>15 DEF CatchUp, StageOK
      <3>4. Cardinality(Unknown(known)) \in Nat
        BY FS_Subset, FS_CardinalityType, FS_AddElement, PipelineAssumption DEF Nodes
      <3>5. \A n \in Nodes : Knowledge(n, None, kobj.rid, None) \in Kobj
        BY <3>3, KnowledgeType DEF Rids
      <3>6. Asked(new) \in Seq(Kobj)
        <4> DEFINE m == Cardinality(Unknown(known))
        <4>1. new \in [1..m -> Nodes]
          BY DEF Orderings
        <4>2. Asked(new) \in [1..m -> Kobj]
          BY <3>5, <4>1
        <4>3. m \in Nat
          BY <3>4
        <4> HIDE DEF m, Asked
        <4> QED
          BY <4>2, <4>3
      <3>7. kobj_queue' \in Seq(Kobj)
        BY <3>2, <3>6, HandleType
      <3> QED
        BY <1>15, <3>7 DEF CatchUp, Abort, Stop, Goto
    <2> QED
      BY <1>15, <2>1, <2>2 DEF CatchUp
  <1>16. CASE OutputFilter
    BY <1>16 DEF OutputFilter, NetworkTargets, OtherEnd, Subscribers
  <1>17. CASE Broadcast
    <2>1. kobj \in Kobj /\ kobj.version # None /\ norm \in Events
      BY <1>17 DEF Broadcast, StageOK, Normalized_Stages
    <2>2. NormalizedBundle \in Bundles \union {None} /\ kobj.rid \in Rids
      BY <2>1 DEF NormalizedBundle, Kobj
    <2> QED
      BY <1>17, <2>1, <2>2 DEF Broadcast, Push, Stop, Abort
  <1>18. CASE FinalChain
    <2> DEFINE gone == IF norm = "FORGET" /\ kobj.rid \in Peers THEN EdgesWith(kobj.rid) ELSE <<>>
               Asked == [i \in DOMAIN gone |-> Knowledge(gone[i], "FORGET", None, None)]
    <2>1. Handle(Asked)
      BY <1>18 DEF FinalChain
    <2>2. gone \in Seq(Edges)
      BY EdgesWithType
    <2>3. \A e \in Edges : Knowledge(e, "FORGET", None, None) \in Kobj
      BY KnowledgeType DEF Rids, Events
    <2>4. Asked \in Seq(Kobj)
      BY <2>2, <2>3
    <2>5. kobj_queue' \in Seq(Kobj)
      BY <2>1, <2>4, HandleType
    <2> QED
      BY <1>18, <2>5 DEF FinalChain, Stop
  <1>19. CASE UNCHANGED vars
    BY <1>19 DEF vars, worker
  <1> QED
    BY <1>1, <1>2, <1>3, <1>4, <1>5, <1>6, <1>7, <1>8, <1>9, <1>10, <1>11, <1>12, <1>13, <1>14,
       <1>15, <1>16, <1>17, <1>18, <1>19 DEF Next, Process

-----------------------------------------------------------------------------
(* The stages of process(). *)

\* The actions of the other threads leave the worker where it is.
LEMMA OutsideStep ==
    ASSUME Receive \/ LocalChange \/ ForgetUnreachable \/ UNCHANGED vars
    PROVE  UNCHANGED <<cache, graph, pc, kobj, norm, targets, checked, pushed>>
  BY DEF Receive, LocalChange, ForgetUnreachable, vars, worker

LEMMA StageStep == ASSUME TypeOK, TypeOK', StageOK, [Next]_vars PROVE StageOK'
  <1> USE DEF StageOK, Normalized_Stages
  <1>1. CASE Receive \/ LocalChange \/ ForgetUnreachable \/ UNCHANGED vars
    BY <1>1, OutsideStep
  <1>2. CASE RidChain
    <2>1. Head(kobj_queue) \in Kobj
      BY <1>2 DEF RidChain, TypeOK
    <2> QED
      BY <1>2, <2>1 DEF RidChain, Stop
  <1>3. CASE AttachCached
    <2>1. kobj \in Kobj /\ norm = "FORGET"
      BY <1>3 DEF AttachCached
    <2>2. cache[kobj.rid] # None => [kobj EXCEPT !.version = cache[kobj.rid], !.full = TRUE] \in Kobj
      BY <2>1 DEF TypeOK, Kobj
    <2>3. [kobj EXCEPT !.version = cache[kobj.rid], !.full = TRUE].version = cache[kobj.rid]
      BY <2>1 DEF Kobj
    <2> QED
      BY <1>3, <2>1, <2>2, <2>3 DEF AttachCached, Stop, Events
  <1>4. CASE FetchManifest
    <2>1. kobj \in Kobj
      BY <1>4 DEF FetchManifest
    <2>2. \A m \in Served[kobj.rid] : [kobj EXCEPT !.version = m] \in Kobj
      BY <2>1, BundleIsBundle, PipelineAssumption DEF Kobj
    <2> QED
      BY <1>4, <2>2 DEF FetchManifest, Stop, Abort
  <1>5. CASE ManifestChain
    BY <1>5 DEF ManifestChain, Stop, Normalized, Events
  <1>6. CASE FetchBundle
    <2>1. kobj \in Kobj /\ kobj.version # None /\ norm \in Events
      BY <1>6 DEF FetchBundle
    <2>2. \A b \in Served[kobj.rid] : b \in Bundle(kobj.rid) /\ b \in Bundles /\ b # None
      BY <2>1, BundleIsBundle, PipelineAssumption DEF Kobj
    <2>3. \A b \in Served[kobj.rid] :
             /\ [kobj EXCEPT !.version = b, !.full = TRUE] \in Kobj
             /\ [kobj EXCEPT !.version = b, !.full = TRUE].version = b
      BY <2>1, <2>2 DEF Kobj
    <2> QED
      BY <1>6, <2>1, <2>2, <2>3 DEF FetchBundle, Stop, Abort
  <1>7. CASE BundleChain \/ RefuseEdge \/ ApproveEdge
    BY <1>7 DEF BundleChain, RefuseEdge, ApproveEdge, Goto, Stop
  <1>8. CASE CacheAction \/ Generate
    BY <1>8 DEF CacheAction, Generate, Goto
  <1>9. CASE ProposeEdge
    BY <1>9 DEF ProposeEdge, NewCoordinator, Goto
  <1>10. CASE CatchUp
    BY <1>10 DEF CatchUp, Abort, Stop, Goto
  <1>11. CASE OutputFilter
    BY <1>11 DEF OutputFilter
  <1>12. CASE Broadcast \/ FinalChain
    BY <1>12 DEF Broadcast, FinalChain, Abort, Stop
  <1> QED
    BY <1>1, <1>2, <1>3, <1>4, <1>5, <1>6, <1>7, <1>8, <1>9, <1>10, <1>11, <1>12
    DEF Next, Process

-----------------------------------------------------------------------------
(* The cache between the check, the write and the broadcast. *)

LEMMA CheckStep == ASSUME TypeOK, StageOK, CheckOK, [Next]_vars PROVE CheckOK'
  <1> USE DEF CheckOK
  <1>1. CASE Receive \/ LocalChange \/ ForgetUnreachable \/ UNCHANGED vars
    BY <1>1, OutsideStep DEF Newer
  <1>2. CASE RidChain
    BY <1>2 DEF RidChain, Stop
  <1>3. CASE AttachCached
    <2>1. kobj \in Kobj /\ norm = "FORGET"
      BY <1>3 DEF AttachCached, StageOK
    <2> QED
      BY <1>3, <2>1 DEF AttachCached, Stop, Kobj
  <1>4. CASE FetchManifest
    BY <1>4 DEF FetchManifest, Stop, Abort
  <1>5. CASE ManifestChain
    BY <1>5, PipelineAssumption DEF ManifestChain, Stop, Normalized, Acceptable, Newer, Events
  <1>6. CASE FetchBundle
    <2>1. kobj \in Kobj
      BY <1>6 DEF FetchBundle, StageOK
    <2>2. \A b \in Served[kobj.rid] :
             /\ [kobj EXCEPT !.version = b, !.full = TRUE].version = b
             /\ [kobj EXCEPT !.version = b, !.full = TRUE].rid = kobj.rid
      BY <2>1 DEF Kobj
    <2>3. CASE pc' = "idle"
      BY <2>3
    <2>4. CASE pc' = "bundle"
      <3>1. PICK b \in Served[kobj.rid] : kobj' = [kobj EXCEPT !.version = b, !.full = TRUE]
        BY <1>6, <2>4 DEF FetchBundle, Stop, Abort
      <3>2. kobj'.rid = kobj.rid /\ kobj'.version \in Served[kobj'.rid]
        BY <2>2, <3>1
      <3>3. pc = "fetch" /\ UNCHANGED <<cache, norm, checked>>
        BY <1>6, <2>4 DEF FetchBundle, Stop, Abort
      <3> QED
        BY <2>4, <3>2, <3>3 DEF Newer
    <2> QED
      BY <1>6, <2>3, <2>4 DEF FetchBundle, Stop, Abort
  <1>7. CASE BundleChain \/ RefuseEdge \/ ApproveEdge
    BY <1>7 DEF BundleChain, RefuseEdge, ApproveEdge, Goto, Stop, Newer
  <1>8. CASE CacheAction
    BY <1>8 DEF CacheAction, Goto
  <1>9. CASE Generate \/ ProposeEdge \/ CatchUp \/ OutputFilter \/ Broadcast \/ FinalChain
    BY <1>9 DEF Generate, ProposeEdge, CatchUp, OutputFilter, Broadcast, FinalChain, Goto, Stop, Abort
  <1> QED
    BY <1>1, <1>2, <1>3, <1>4, <1>5, <1>6, <1>7, <1>8, <1>9 DEF Next, Process

LEMMA WrittenStep == ASSUME TypeOK, StageOK, WrittenOK, [Next]_vars PROVE WrittenOK'
  <1> USE DEF WrittenOK, NormalizedBundle, Written_Stages
  <1>1. CASE Receive \/ LocalChange \/ ForgetUnreachable \/ UNCHANGED vars
    BY <1>1, OutsideStep
  <1>2. CASE RidChain \/ AttachCached \/ FetchManifest \/ ManifestChain \/ FetchBundle
    BY <1>2 DEF RidChain, AttachCached, FetchManifest, ManifestChain, FetchBundle, Stop, Abort
  <1>3. CASE BundleChain \/ RefuseEdge \/ ApproveEdge
    BY <1>3 DEF BundleChain, RefuseEdge, ApproveEdge, Goto, Stop
  <1>4. CASE CacheAction
    <2>1. kobj.rid \in Rids
      BY <1>4 DEF CacheAction, StageOK, Kobj
    <2> QED
      BY <1>4, <2>1 DEF CacheAction, Goto, TypeOK
  <1>5. CASE Generate \/ ProposeEdge \/ CatchUp \/ OutputFilter \/ Broadcast \/ FinalChain
    BY <1>5 DEF Generate, ProposeEdge, CatchUp, OutputFilter, Broadcast, FinalChain, Goto, Stop, Abort
  <1> QED
    BY <1>1, <1>2, <1>3, <1>4, <1>5 DEF Next, Process

LEMMA GraphStep == ASSUME TypeOK, StageOK, GraphMirrorsCache, [Next]_vars PROVE GraphMirrorsCache'
  <1> USE DEF GraphMirrorsCache, CachedEdges
  <1>1. CASE Receive \/ LocalChange \/ ForgetUnreachable \/ UNCHANGED vars
    BY <1>1, OutsideStep
  <1>2. CASE RidChain \/ AttachCached \/ FetchManifest \/ ManifestChain \/ FetchBundle
    BY <1>2 DEF RidChain, AttachCached, FetchManifest, ManifestChain, FetchBundle, Stop, Abort
  <1>3. CASE BundleChain \/ RefuseEdge \/ ApproveEdge
    BY <1>3 DEF BundleChain, RefuseEdge, ApproveEdge, Goto, Stop
  <1>4. CASE CacheAction
    <2>1. kobj.rid \notin Edges => \A e \in Edges : cache'[e] = cache[e]
      BY <1>4 DEF CacheAction, TypeOK, Rids
    <2> QED
      BY <1>4, <2>1 DEF CacheAction, ChangesGraph, Goto
  <1>5. CASE Generate
    BY <1>5 DEF Generate, Goto
  <1>6. CASE ProposeEdge \/ CatchUp \/ OutputFilter \/ Broadcast \/ FinalChain
    BY <1>6 DEF ProposeEdge, CatchUp, OutputFilter, Broadcast, FinalChain, Goto, Stop, Abort
  <1> QED
    BY <1>1, <1>2, <1>3, <1>4, <1>5, <1>6 DEF Next, Process


-----------------------------------------------------------------------------
(* This node's own bundle. *)

\* Whatever is appended to the queue without a source is not about this node.
LEMMA HandleSelf ==
    ASSUME kobj_queue \in Seq(Kobj), SelfOK, NEW ks \in Seq(Kobj), Handle(ks),
           \A i \in 1..Len(ks) : ks[i].rid = Me => ks[i].source # None
    PROVE  \A i \in 1..Len(kobj_queue') : kobj_queue'[i].rid = Me => kobj_queue'[i].source # None
  <1>1. kobj_queue' = kobj_queue \o ks
    BY DEF Handle
  <1>2. \A i \in 1..Len(kobj_queue \o ks) :
           (kobj_queue \o ks)[i] = IF i <= Len(kobj_queue) THEN kobj_queue[i]
                                                         ELSE ks[i - Len(kobj_queue)]
    OBVIOUS
  <1>3. \A i \in 1..Len(kobj_queue \o ks) : i > Len(kobj_queue) => i - Len(kobj_queue) \in 1..Len(ks)
    OBVIOUS
  <1>4. \A i \in 1..Len(kobj_queue \o ks) : i <= Len(kobj_queue) => i \in 1..Len(kobj_queue)
    OBVIOUS
  <1> QED
    BY <1>1, <1>2, <1>3, <1>4 DEF SelfOK

LEMMA SelfStep == ASSUME TypeOK, StageOK, SelfOK, [Next]_vars PROVE SelfOK'
  <1> DEFINE NotMe(k) == k.rid = Me => k.source # None
             AllNotMe == \A i \in 1..Len(kobj_queue) : NotMe(kobj_queue[i])
  <1>a. kobj_queue \in Seq(Kobj) /\ cache \in [Rids -> Bundles \union {None}]
    BY DEF TypeOK
  <1>b. \A k \in Kobj : NotMe(k) /\ Handle(<<k>>) => AllNotMe'
    <2> SUFFICES ASSUME NEW k \in Kobj, NotMe(k), Handle(<<k>>) PROVE AllNotMe'
      OBVIOUS
    <2>1. <<k>> \in Seq(Kobj) /\ \A i \in 1..Len(<<k>>) : NotMe(<<k>>[i])
      OBVIOUS
    <2> QED
      BY <1>a, <2>1, HandleSelf
  <1>c. UNCHANGED <<kobj_queue, cache>> /\ (pc' # "idle" => kobj'.rid = kobj.rid /\ pc # "idle")
          => SelfOK'
    BY DEF SelfOK
  <1>d. AllNotMe' /\ UNCHANGED cache /\ (pc' # "idle" => kobj'.rid = kobj.rid /\ pc # "idle")
          => SelfOK'
    BY DEF SelfOK
  <1>e. \A e \in Edges \union Objects \union Peers : e \in Rids /\ e # Me
    BY PipelineAssumption DEF Rids, Nodes
  <1>1. CASE Receive
    <2>1. PICK k \in Incoming : Input(k)
      BY <1>1 DEF Receive
    <2>2. k \in Kobj /\ NotMe(k)
      BY IncomingType, PipelineAssumption DEF Rids, Nodes
    <2> QED
      BY <1>1, <1>b, <1>d, <2>1, <2>2 DEF Receive, Input, worker
  <1>2. CASE LocalChange
    <2>1. PICK r \in Objects :
            \/ \E v \in Values : Input(Knowledge(r, None, None, [ts |-> clock, val |-> v]))
            \/ Input(Knowledge(r, "FORGET", None, None))
      BY <1>2 DEF LocalChange
    <2>2. \A v \in Values : [ts |-> clock, val |-> v] \in Bundle(r)
      BY ContentsOfType DEF Bundle, TypeOK
    <2>3. /\ \A v \in Values : Knowledge(r, None, None, [ts |-> clock, val |-> v]) \in Kobj
          /\ Knowledge(r, "FORGET", None, None) \in Kobj
      BY <2>2, KnowledgeType DEF Rids, Events
    <2>4. \A event, version : NotMe(Knowledge(r, event, None, version))
      BY <1>e DEF Knowledge
    <2>5. PICK k \in Kobj : NotMe(k) /\ Input(k)
      BY <2>1, <2>3, <2>4
    <2>6. UNCHANGED <<cache, pc, kobj>>
      BY <1>2, OutsideStep
    <2> QED
      BY <1>b, <1>d, <2>5, <2>6 DEF Input
  <1>3. CASE ForgetUnreachable
    <2>1. PICK n \in Peers : Input(Knowledge(n, "FORGET", None, None))
      BY <1>3 DEF ForgetUnreachable
    <2>2. /\ Knowledge(n, "FORGET", None, None) \in Kobj
          /\ NotMe(Knowledge(n, "FORGET", None, None))
      BY <1>e, KnowledgeType DEF Rids, Nodes, Events, Knowledge
    <2>3. UNCHANGED <<cache, pc, kobj>>
      BY <1>3, OutsideStep
    <2> QED
      BY <1>b, <1>d, <2>1, <2>2, <2>3 DEF Input
  <1>4. CASE RidChain
    <2>1. kobj_queue # <<>> /\ kobj_queue' = Tail(kobj_queue) /\ UNCHANGED cache
      BY <1>4 DEF RidChain
    <2>2. Head(kobj_queue) = kobj_queue[1] /\ 1 \in 1..Len(kobj_queue)
      BY <1>a, <2>1
    <2>3. pc' # "idle" => kobj' = Head(kobj_queue) /\ ~AboutMe(Head(kobj_queue))
      BY <1>4 DEF RidChain, Stop
    <2>4. pc' # "idle" => kobj'.rid # Me
      BY <2>2, <2>3 DEF SelfOK, AboutMe
    <2>5. \A i \in 1..Len(kobj_queue') : kobj_queue'[i] = kobj_queue[i + 1]
                                          /\ i + 1 \in 1..Len(kobj_queue)
      BY <1>a, <2>1
    <2> QED
      BY <2>1, <2>4, <2>5 DEF SelfOK
  <1>5. CASE AttachCached \/ FetchManifest \/ ManifestChain \/ FetchBundle
    <2>1. pc # "idle" /\ kobj \in Kobj
      BY <1>5 DEF AttachCached, FetchManifest, ManifestChain, FetchBundle, StageOK
    <2>2. \A b : /\ [kobj EXCEPT !.version = b].rid = kobj.rid
                 /\ [kobj EXCEPT !.version = b, !.full = TRUE].rid = kobj.rid
      BY <2>1 DEF Kobj
    <2> QED
      BY <1>5, <1>c, <2>1, <2>2
      DEF AttachCached, FetchManifest, ManifestChain, FetchBundle, Stop, Abort
  <1>6. CASE BundleChain \/ RefuseEdge
    <2>1. CASE BundleChain
      BY <1>c, <2>1 DEF BundleChain, Goto, Stop
    <2>2. CASE RefuseEdge
      BY <1>c, <2>2 DEF RefuseEdge, Stop
    <2> QED
      BY <1>6, <2>1, <2>2
  <1>7. CASE ApproveEdge
    <2> DEFINE answer == [ts |-> clock, val |-> [kobj.version.val EXCEPT !.status = "APPROVED"]]
    <2>1. kobj \in Kobj /\ kobj.rid \in Edges /\ kobj.version # None
      BY <1>7 DEF ApproveEdge, Proposal, StageOK, Normalized_Stages
    <2>2. kobj.version.val \in EdgeProfile
      BY <2>1, ContentsOfType DEF Kobj, Bundle
    <2>3. answer \in Bundle(kobj.rid)
      BY <2>1, <2>2, ApprovedIsBundle DEF TypeOK
    <2>4. /\ Knowledge(kobj.rid, "UPDATE", None, answer) \in Kobj
          /\ NotMe(Knowledge(kobj.rid, "UPDATE", None, answer))
      BY <1>e, <2>1, <2>3, KnowledgeType DEF Events, Knowledge
    <2> QED
      BY <1>7, <1>b, <1>d, <2>4 DEF ApproveEdge, Goto
  <1>8. CASE CacheAction
    <2>1. Me \in Rids /\ kobj.rid # Me
      BY <1>8 DEF CacheAction, SelfOK, Rids, Nodes
    <2>2. cache'[Me] = cache[Me]
      BY <1>8, <1>a, <2>1 DEF CacheAction
    <2> QED
      BY <1>8, <2>2 DEF CacheAction, Goto, SelfOK
  <1>9. CASE Generate \/ OutputFilter \/ Broadcast
    BY <1>9, <1>c DEF Generate, OutputFilter, Broadcast, Goto, Stop, Abort
  <1>10. CASE ProposeEdge
    <2> DEFINE proposed == [ts |-> clock, val |-> ProposedEdge]
    <2>1. <<kobj.rid, Me>> \in Edges
      BY <1>10, PipelineAssumption DEF ProposeEdge, NewCoordinator, Edges, Nodes
    <2>2. ProposedEdge \in EdgeProfile
      BY DEF EdgeProfile, ProposedEdge, RidTypes
    <2>3. proposed \in Bundle(<<kobj.rid, Me>>)
      BY <2>1, <2>2, ContentsOfType DEF Bundle, TypeOK
    <2>4. /\ Knowledge(<<kobj.rid, Me>>, None, None, proposed) \in Kobj
          /\ NotMe(Knowledge(<<kobj.rid, Me>>, None, None, proposed))
      BY <1>e, <2>1, <2>3, KnowledgeType DEF Knowledge
    <2> QED
      BY <1>10, <1>b, <1>d, <2>4 DEF ProposeEdge, Goto
  <1>11. CASE CatchUp
    <2>1. CASE UNCHANGED kobj_queue
      BY <1>11, <1>c, <2>1 DEF CatchUp, Abort, Stop, Goto
    <2>2. CASE \E known \in SUBSET Nodes :
                 \E new \in Orderings({n \in known \ {Me} : cache[n] = None}) :
                   Handle([i \in DOMAIN new |-> Knowledge(new[i], None, kobj.rid, None)])
      <3> DEFINE Unknown(known) == {n \in known \ {Me} : cache[n] = None}
                 Asked(new) == [i \in DOMAIN new |-> Knowledge(new[i], None, kobj.rid, None)]
      <3>1. PICK known \in SUBSET Nodes : \E new \in Orderings(Unknown(known)) : Handle(Asked(new))
        BY <2>2
      <3>2. PICK new \in Orderings(Unknown(known)) : Handle(Asked(new))
        BY <3>1
      <3>3. kobj.rid \in Peers /\ kobj.rid # None
        BY <1>11, PipelineAssumption DEF CatchUp, StageOK, Rids, Nodes
      <3>4. Cardinality(Unknown(known)) \in Nat
        BY FS_Subset, FS_CardinalityType, FS_AddElement, PipelineAssumption DEF Nodes
      <3>5. \A n \in Nodes : /\ Knowledge(n, None, kobj.rid, None) \in Kobj
                             /\ NotMe(Knowledge(n, None, kobj.rid, None))
        BY <3>3, KnowledgeType DEF Rids, Knowledge
      <3>6. /\ Asked(new) \in Seq(Kobj)
            /\ \A i \in 1..Len(Asked(new)) : NotMe(Asked(new)[i])
        <4> DEFINE m == Cardinality(Unknown(known))
        <4>1. new \in [1..m -> Nodes]
          BY DEF Orderings
        <4>2. Asked(new) \in [1..m -> Kobj]
          BY <3>5, <4>1
        <4>3. \A i \in 1..m : NotMe(Asked(new)[i])
          BY <3>5, <4>1
        <4>4. m \in Nat
          BY <3>4
        <4> HIDE DEF m, Asked, NotMe
        <4> QED
          BY <4>2, <4>3, <4>4
      <3>7. AllNotMe'
        <4> HIDE DEF Asked
        <4> QED
          BY <1>a, <3>2, <3>6, HandleSelf
      <3>8. UNCHANGED cache /\ (pc' # "idle" => kobj'.rid = kobj.rid /\ pc # "idle")
        BY <1>11 DEF CatchUp, Abort, Stop, Goto
      <3> QED
        BY <1>d, <3>7, <3>8
    <2> QED
      BY <1>11, <2>1, <2>2 DEF CatchUp
  <1>12. CASE FinalChain
    <2> DEFINE gone == IF norm = "FORGET" /\ kobj.rid \in Peers THEN EdgesWith(kobj.rid) ELSE <<>>
               Asked == [i \in DOMAIN gone |-> Knowledge(gone[i], "FORGET", None, None)]
    <2>1. Handle(Asked) /\ UNCHANGED cache /\ pc' = "idle"
      BY <1>12 DEF FinalChain, Stop
    <2>2. gone \in Seq(Edges)
      BY EdgesWithType
    <2>3. \A e \in Edges : /\ Knowledge(e, "FORGET", None, None) \in Kobj
                           /\ NotMe(Knowledge(e, "FORGET", None, None))
      BY <1>e, KnowledgeType DEF Rids, Events, Knowledge
    <2> HIDE DEF gone
    <2>4. Asked \in Seq(Kobj) /\ \A i \in 1..Len(Asked) : NotMe(Asked[i])
      BY <2>2, <2>3
    <2>5. AllNotMe'
      BY <1>a, <2>1, <2>4, HandleSelf
    <2> QED
      BY <1>d, <2>1, <2>5
  <1>13. CASE UNCHANGED vars
    BY <1>13, <1>c DEF vars, worker
  <1> QED
    BY <1>1, <1>2, <1>3, <1>4, <1>5, <1>6, <1>7, <1>8, <1>9, <1>10, <1>11, <1>12, <1>13
    DEF Next, Process

-----------------------------------------------------------------------------
(* The results. *)

LEMMA InvStep == IInv /\ [Next]_vars => IInv'
  <1> SUFFICES ASSUME IInv, [Next]_vars PROVE IInv'
    OBVIOUS
  <1>1. TypeOK'
    BY TypeStep DEF IInv
  <1> QED
    BY <1>1, StageStep, SelfStep, CheckStep, WrittenStep, GraphStep DEF IInv

LEMMA Invariant == Spec => []IInv
  BY InitInv, InvStep, PTL DEF Spec

\* Type correctness, for every network and every queue: what the peers' events,
\* fetches and catch-up and the handlers put into the queue stays a queue of
\* knowledge objects, and what is written stays a bundle of its RID.
THEOREM TypeCorrect == Spec => []TypeOK
  <1>1. IInv => TypeOK
    BY DEF IInv
  <1> QED
    BY <1>1, Invariant, PTL

\* NetworkGraph.generate is called wherever the cached edges changed: outside the
\* window between the two calls the graph is the cached edges.
THEOREM GraphIsTheCachedEdges == Spec => []GraphMirrorsCache
  <1>1. IInv => GraphMirrorsCache
    BY DEF IInv
  <1> QED
    BY <1>1, Invariant, PTL

\* basic_rid_handler stops every way in which the bundle of this node could be
\* written or deleted: nothing without a source speaks about it, and nothing
\* with a source passes.
THEOREM SelfIsSafe == Spec => []SelfIsSelfMade
  <1>1. IInv => SelfIsSelfMade
    BY DEF IInv, SelfOK, SelfIsSelfMade
  <1> QED
    BY <1>1, Invariant, PTL

-----------------------------------------------------------------------------
(* What a step may do to the cache and to the network. *)

\* The cache action is the only place where the pipeline writes the cache.
LEMMA OnlyCacheActionWrites == [Next]_vars /\ cache' # cache => CacheAction
  BY DEF Next, Process, vars, worker, Receive, LocalChange, ForgetUnreachable, RidChain,
         AttachCached, FetchManifest, ManifestChain, FetchBundle, BundleChain, RefuseEdge,
         ApproveEdge, Generate, ProposeEdge, CatchUp, OutputFilter, Broadcast, FinalChain

\* Events leave the worker at the refusal of an edge and at the broadcast.
LEMMA OnlyTheseActionsPush == [Next]_vars /\ pushed' # pushed => RefuseEdge \/ Broadcast
  BY DEF Next, Process, vars, worker, Receive, LocalChange, ForgetUnreachable, RidChain,
         AttachCached, FetchManifest, ManifestChain, FetchBundle, BundleChain, CacheAction,
         ApproveEdge, Generate, ProposeEdge, CatchUp, OutputFilter, FinalChain

\* The write concerns the object in process and nothing else.
LEMMA CacheActionWrites ==
    ASSUME TypeOK, CacheAction, NEW r \in Rids, cache'[r] # cache[r]
    PROVE  /\ r = kobj.rid
           /\ cache'[r] = IF norm = "FORGET" THEN None ELSE kobj.version
  BY DEF TypeOK, CacheAction

\* basic_manifest_handler's check still holds at the write: no other thread
\* writes the cache and no fetch changes what was checked, whatever the peers
\* answer; the one way round it is a bundle fetched in place of the checked one.
THEOREM WritesAreChecked == Spec => CheckedMovesForward
  <1>1. ASSUME IInv, [Next]_vars, NEW r \in Rids,
               cache[r] # None, cache'[r] # None, cache'[r] # cache[r]
        PROVE  Newer(checked, cache[r]) /\ (cache'[r] # checked => cache'[r] \in Served[r])
    <2>1. CacheAction
      BY <1>1, OnlyCacheActionWrites
    <2>2. pc = "write" /\ r = kobj.rid /\ norm # "FORGET" /\ cache'[r] = kobj.version
      BY <1>1, <2>1, CacheActionWrites DEF CacheAction, IInv
    <2> QED
      BY <1>1, <2>2 DEF IInv, CheckOK
  <1>2. IInv /\ [Next]_vars =>
          [\A r \in Rids : cache[r] # None /\ cache'[r] # None /\ cache'[r] # cache[r]
              => /\ Newer(checked, cache[r])
                 /\ cache'[r] # checked => cache'[r] \in Served[r]]_vars
    BY <1>1
  <1> QED
    BY <1>2, Invariant, PTL DEF Spec, CheckedMovesForward

\* The normalized event type, decided before the bundle is fetched and the
\* Bundle handlers run, is still the transition that the write makes.
THEOREM EventsNameTransitions == Spec => EventNamesTransition
  <1>1. ASSUME IInv, [Next]_vars, NEW r \in Rids, cache'[r] # cache[r]
        PROVE  norm = (IF cache[r] = None THEN "NEW"
                       ELSE IF cache'[r] = None THEN "FORGET" ELSE "UPDATE")
    <2>1. CacheAction
      BY <1>1, OnlyCacheActionWrites
    <2>2. /\ pc = "write" /\ r = kobj.rid
          /\ cache'[r] = IF norm = "FORGET" THEN None ELSE kobj.version
      BY <1>1, <2>1, CacheActionWrites DEF CacheAction, IInv
    <2>3. kobj.version # None
      BY <1>1, <2>2 DEF IInv, StageOK, Normalized_Stages
    <2> QED
      BY <1>1, <2>2, <2>3 DEF IInv, CheckOK
  <1>2. IInv /\ [Next]_vars =>
          [\A r \in Rids : cache'[r] # cache[r] =>
              norm = (IF cache[r] = None THEN "NEW"
                      ELSE IF cache'[r] = None THEN "FORGET" ELSE "UPDATE")]_vars
    BY <1>1
  <1> QED
    BY <1>2, Invariant, PTL DEF Spec, EventNamesTransition

\* Everything broadcast is what the cache holds at that moment: the handlers that
\* run between the write and the broadcast queue their own changes and make none.
THEOREM BroadcastsTellTheCache == Spec => BroadcastTellsCache
  <1>1. ASSUME IInv, [Next]_vars, pushed' # pushed
        PROVE  pushed'.version = cache[pushed'.rid] \/ (pc = "bundle" /\ pushed'.event = "FORGET")
    <2>1. CASE RefuseEdge
      BY <2>1 DEF RefuseEdge, Push
    <2>2. CASE Broadcast
      <3>1. pc = "broadcast" /\ pushed'.rid = kobj.rid /\ pushed'.version = NormalizedBundle
        BY <2>2 DEF Broadcast, Push
      <3> QED
        BY <1>1, <3>1 DEF IInv, WrittenOK, Written_Stages
    <2> QED
      BY <1>1, <2>1, <2>2, OnlyTheseActionsPush
  <1>2. IInv /\ [Next]_vars =>
          [pushed' # pushed => \/ pushed'.version = cache[pushed'.rid]
                               \/ pc = "bundle" /\ pushed'.event = "FORGET"]_vars
    BY <1>1
  <1> QED
    BY <1>2, Invariant, PTL DEF Spec, BroadcastTellsCache

-----------------------------------------------------------------------------
(* Feedback that is still in the queue.  What the two invariants of the quiet  *)
(* node need while it is not quiet: whatever is cached and not yet answered    *)
(* has its answer queued or in process, and that answer will be accepted.      *)

EventOK ==
    /\ pc # "idle" => (norm = "FORGET" <=> kobj.event = "FORGET")
    /\ pc \in {"manifest", "fetch"} => norm # "FORGET"

\* An approval by edge_negotiation_handler of the edge from n, and the last one.
IsApproval(k, n) ==
    /\ k.rid = <<Me, n>> /\ k.event = "UPDATE" /\ k.source = None /\ k.full /\ k.version # None
    /\ k.version.val.status = "APPROVED"
Approval(k, n) == IsApproval(k, n) /\ k.version.ts = approved[n]
\* The edge that coordinator_contact proposed to n.
OwnProposal(k, n) ==
    k.rid = <<n, Me>> /\ k.event = None /\ k.source = None /\ k.full /\ k.version # None

Unwritten == {"manifest", "bundle", "write"}
ApprovalQueued(n) == \E i \in 1..Len(kobj_queue) : Approval(kobj_queue[i], n)
ApprovalUnderway(n) == ApprovalQueued(n) \/ (pc \in Unwritten /\ Approval(kobj, n))
ProposalQueued(n) == \E i \in 1..Len(kobj_queue) : OwnProposal(kobj_queue[i], n)
ContactUnderway(n) ==
    \/ cache[<<n, Me>>] # None \/ <<n, Me>> \in dropped
    \/ ProposalQueued(n) \/ (pc \in Unwritten /\ OwnProposal(kobj, n))
    \/ pc \in {"graph", "network"} /\ kobj.rid = n /\ norm # "FORGET"

\* Only approvals speak of an edge from this node without a source.
SaidOK(k) ==
    \A n \in Peers : k.rid = <<Me, n>> /\ k.event # "FORGET" =>
      k.event # None /\ (k.source = None => IsApproval(k, n))

QueueOK == \A i \in 1..Len(kobj_queue) : SaidOK(kobj_queue[i])

\* The proposal v has an approval: one that is on its way, or one that it outdated.
Outdated(n, v) == approved[n] \in Nat /\ approved[n] <= v.ts
Answered(n, v) == ApprovalUnderway(n) \/ Outdated(n, v)

ProposalsInv ==
    /\ QueueOK
    /\ pc # "idle" => SaidOK(kobj)
    /\ pc = "write" /\ norm # "FORGET" => \A n \in Peers :
         kobj.rid = <<Me, n>> /\ IsProposal(kobj.version) => ApprovalQueued(n)
    /\ \A n \in Peers : IsProposal(cache[<<Me, n>>]) =>
         cache[<<Me, n>>] = Stored[<<Me, n>>] \/ Answered(n, cache[<<Me, n>>])

ContactInv ==
    \A n \in Peers : cache[n] # None /\ "node" \in cache[n].val.provides =>
                      cache[n] = Stored[n] \/ ContactUnderway(n)

LEMMA EdgeRids ==
    ASSUME NEW n \in Peers
    PROVE  /\ <<Me, n>> \in Edges /\ <<n, Me>> \in Edges /\ <<Me, n>> # <<n, Me>>
           /\ <<Me, n>> \in Rids /\ <<n, Me>> \in Rids /\ n \in Rids
           /\ \A m \in Peers : <<Me, n>> # <<m, Me>>
           /\ \A r \in Nodes \union Objects : r # <<Me, n>> /\ r # <<n, Me>>
  BY PipelineAssumption DEF Edges, Nodes, Rids

\* What is added to the queue leaves what is in it.
LEMMA QueueGrows ==
    ASSUME kobj_queue \in Seq(Kobj), NEW ks \in Seq(Kobj), Handle(ks)
    PROVE  /\ \A i \in 1..Len(kobj_queue) : i \in 1..Len(kobj_queue') /\ kobj_queue'[i] = kobj_queue[i]
           /\ \A i \in 1..Len(ks) : /\ Len(kobj_queue) + i \in 1..Len(kobj_queue')
                                    /\ kobj_queue'[Len(kobj_queue) + i] = ks[i]
           /\ \A i \in 1..Len(kobj_queue') :
                \/ i \in 1..Len(kobj_queue)
                \/ i - Len(kobj_queue) \in 1..Len(ks) /\ kobj_queue'[i] = ks[i - Len(kobj_queue)]
  BY DEF Handle

\* The queue before and after a step that adds to it.
QueueKept ==
    /\ \A n \in Peers : approved'[n] = approved[n] /\ ApprovalQueued(n) => ApprovalQueued(n)'
    /\ \A n \in Peers : ProposalQueued(n) => ProposalQueued(n)'

LEMMA QueueUnchanged == kobj_queue' = kobj_queue => QueueKept /\ (QueueOK => QueueOK')
  BY DEF QueueKept, QueueOK, ApprovalQueued, ProposalQueued, Approval

LEMMA QueueKeptByAdding ==
    ASSUME kobj_queue \in Seq(Kobj), NEW ks \in Seq(Kobj), Handle(ks)
    PROVE  /\ QueueKept
           /\ QueueOK /\ (\A i \in 1..Len(ks) : SaidOK(ks[i])) => QueueOK'
  <1>1. QueueOK /\ (\A i \in 1..Len(ks) : SaidOK(ks[i])) => QueueOK'
    BY QueueGrows DEF QueueOK
  <1>2. \A n \in Peers : approved'[n] = approved[n] /\ ApprovalQueued(n) => ApprovalQueued(n)'
    BY QueueGrows DEF ApprovalQueued, Approval
  <1>3. \A n \in Peers : ProposalQueued(n) => ProposalQueued(n)'
    BY QueueGrows DEF ProposalQueued
  <1> QED
    BY <1>1, <1>2, <1>3 DEF QueueKept

LEMMA QueueKeptByOne ==
    ASSUME kobj_queue \in Seq(Kobj), NEW k \in Kobj, Handle(<<k>>)
    PROVE  /\ QueueKept
           /\ QueueOK /\ SaidOK(k) => QueueOK'
           /\ \E i \in 1..Len(kobj_queue') : kobj_queue'[i] = k
  <1> DEFINE ks == <<k>>
  <1>1. ks \in Seq(Kobj) /\ Len(ks) = 1 /\ ks[1] = k /\ Handle(ks)
    OBVIOUS
  <1> HIDE DEF ks
  <1>2. SaidOK(k) => \A i \in 1..Len(ks) : SaidOK(ks[i])
    BY <1>1
  <1>3. QueueKept /\ (QueueOK /\ SaidOK(k) => QueueOK')
    BY <1>1, <1>2, QueueKeptByAdding
  <1>4. \A i \in 1..Len(ks) : /\ Len(kobj_queue) + i \in 1..Len(kobj_queue')
                              /\ kobj_queue'[Len(kobj_queue) + i] = ks[i]
    BY <1>1, QueueGrows
  <1>5. Len(kobj_queue) + 1 \in 1..Len(kobj_queue') /\ kobj_queue'[Len(kobj_queue) + 1] = k
    BY <1>1, <1>4
  <1> QED
    BY <1>3, <1>5

\* What is no announcement of an edge from this node needs no answer.
LEMMA SaidAboutOthers ==
    ASSUME NEW k, k.event = "FORGET" \/ k.rid \in Nodes \union Objects
                  \/ (\E n \in Peers : k.rid = <<n, Me>>)
    PROVE  SaidOK(k)
  BY EdgeRids DEF SaidOK

\* What the other threads add to the queue.
LEMMA QueueKeptOutside ==
    ASSUME TypeOK, Receive \/ LocalChange \/ ForgetUnreachable
    PROVE  QueueKept /\ (QueueOK => QueueOK')
  <1>a. kobj_queue \in Seq(Kobj) /\ clock \in Nat
    BY DEF TypeOK
  <1>1. CASE Receive
    <2>1. PICK k \in Incoming : Input(k)
      BY <1>1 DEF Receive
    <2>2. k \in Kobj /\ k.source \in Peers /\ k.event # None
      BY PipelineAssumption
    <2>3. k.source # None
      BY <2>2, PipelineAssumption DEF Rids, Nodes
    <2>4. SaidOK(k)
      BY <2>2, <2>3 DEF SaidOK
    <2> QED
      BY <1>a, <2>1, <2>2, <2>4, QueueKeptByOne DEF Input
  <1>2. CASE LocalChange
    <2>1. PICK r \in Objects :
            \/ \E v \in Values : Input(Knowledge(r, None, None, [ts |-> clock, val |-> v]))
            \/ Input(Knowledge(r, "FORGET", None, None))
      BY <1>2 DEF LocalChange
    <2>2. \A v \in Values : [ts |-> clock, val |-> v] \in Bundle(r)
      BY <1>a, ContentsOfType DEF Bundle
    <2>3. /\ \A v \in Values : Knowledge(r, None, None, [ts |-> clock, val |-> v]) \in Kobj
          /\ Knowledge(r, "FORGET", None, None) \in Kobj
      BY <2>2, KnowledgeType DEF Rids, Events
    <2>4. \A event, version : SaidOK(Knowledge(r, event, None, version))
      BY SaidAboutOthers DEF Knowledge
    <2>5. PICK k \in Kobj : SaidOK(k) /\ Input(k)
      BY <2>1, <2>3, <2>4
    <2> QED
      BY <1>a, <2>5, QueueKeptByOne DEF Input
  <1>3. CASE ForgetUnreachable
    <2>1. PICK n \in Peers : Input(Knowledge(n, "FORGET", None, None))
      BY <1>3 DEF ForgetUnreachable
    <2>2. Knowledge(n, "FORGET", None, None) \in Kobj
      BY KnowledgeType DEF Rids, Nodes, Events
    <2>3. SaidOK(Knowledge(n, "FORGET", None, None))
      BY SaidAboutOthers DEF Knowledge
    <2> QED
      BY <1>a, <2>1, <2>2, <2>3, QueueKeptByOne DEF Input
  <1> QED
    BY <1>1, <1>2, <1>3

\* What the worker's own handlers add to the queue.
LEMMA QueueKeptByApproval ==
    ASSUME TypeOK, StageOK, ApproveEdge
    PROVE  /\ QueueKept /\ (QueueOK => QueueOK')
           /\ \A n \in Peers : kobj.rid = <<Me, n>> => ApprovalQueued(n)'
           /\ \A n \in Peers : kobj.rid # <<Me, n>> => approved'[n] = approved[n]
  <1> DEFINE answer == [ts |-> clock, val |-> [kobj.version.val EXCEPT !.status = "APPROVED"]]
             k == Knowledge(kobj.rid, "UPDATE", None, answer)
  <1>a. kobj_queue \in Seq(Kobj) /\ clock \in Nat
    BY DEF TypeOK
  <1>1. kobj \in Kobj /\ kobj.rid \in Edges /\ kobj.rid[1] = Me /\ kobj.version # None
    BY DEF ApproveEdge, Proposal, StageOK, Normalized_Stages
  <1>2. kobj.version.val \in EdgeProfile
    BY <1>1, ContentsOfType DEF Kobj, Bundle
  <1>3. answer \in Bundle(kobj.rid)
    BY <1>1, <1>2, <1>a, ApprovedIsBundle
  <1>4. k \in Kobj
    BY <1>1, <1>3, KnowledgeType DEF Rids, Events
  <1>5. answer # None
    BY <1>1, <1>3, BundleIsBundle, PipelineAssumption DEF Rids
  <1>6. answer.val.status = "APPROVED" /\ answer.ts = clock
    BY <1>2 DEF EdgeProfile
  <1>b. Handle(<<k>>) /\ kobj' = kobj
        /\ approved' = [n \in DOMAIN approved |-> IF n = kobj.rid[2] THEN clock ELSE approved[n]]
    BY DEF ApproveEdge, Goto
  <1> HIDE DEF answer
  <1>7. \A n \in Peers : kobj.rid = <<Me, n>> => IsApproval(k, n)
    BY <1>5, <1>6 DEF IsApproval, Knowledge
  <1>8. k.rid = kobj.rid /\ k.version = answer /\ k.event = "UPDATE"
    BY DEF Knowledge
  <1>9. SaidOK(k)
    BY <1>7, <1>8, <1>4, PipelineAssumption DEF SaidOK, Events
  <1> HIDE DEF k
  <1>10. /\ QueueKept /\ (QueueOK => QueueOK')
         /\ \E i \in 1..Len(kobj_queue') : kobj_queue'[i] = k
    BY <1>a, <1>4, <1>9, <1>b, QueueKeptByOne
  <1>11. \A n \in Peers : approved'[n] = IF kobj.rid = <<Me, n>> THEN clock ELSE approved[n]
    <2>1. \A n \in Peers : n = kobj.rid[2] <=> kobj.rid = <<Me, n>>
      BY <1>1 DEF Edges
    <2> QED
      BY <1>b, <2>1 DEF TypeOK
  <1>12. \A n \in Peers : kobj.rid = <<Me, n>> => ApprovalQueued(n)'
    BY <1>6, <1>7, <1>8, <1>10, <1>11 DEF ApprovalQueued, Approval, IsApproval
  <1> QED
    BY <1>10, <1>11, <1>12

LEMMA QueueKeptByContact ==
    ASSUME TypeOK, StageOK, ProposeEdge
    PROVE  /\ QueueKept
           /\ ProposalQueued(kobj.rid)' /\ (QueueOK => QueueOK')
  <1> DEFINE proposed == [ts |-> clock, val |-> ProposedEdge]
             k == Knowledge(<<kobj.rid, Me>>, None, None, proposed)
  <1>a. kobj_queue \in Seq(Kobj) /\ clock \in Nat
    BY DEF TypeOK
  <1>1. kobj.rid \in Peers /\ <<kobj.rid, Me>> \in Edges
    BY EdgeRids DEF ProposeEdge, NewCoordinator
  <1>2. ProposedEdge \in EdgeProfile
    BY DEF EdgeProfile, ProposedEdge, RidTypes
  <1>3. proposed \in Bundle(<<kobj.rid, Me>>)
    BY <1>1, <1>2, <1>a, ContentsOfType DEF Bundle
  <1>4. k \in Kobj
    BY <1>1, <1>3, KnowledgeType DEF Rids
  <1>5. proposed # None
    BY <1>1, <1>3, BundleIsBundle, PipelineAssumption DEF Rids
  <1> HIDE DEF proposed
  <1>6. OwnProposal(k, kobj.rid) /\ k.rid = <<kobj.rid, Me>>
    BY <1>5 DEF OwnProposal, Knowledge
  <1>7. SaidOK(k)
    BY <1>1, <1>6, SaidAboutOthers
  <1>8. Handle(<<k>>) /\ kobj' = kobj
    BY DEF ProposeEdge, proposed, Goto
  <1> HIDE DEF k
  <1>9. /\ QueueKept
        /\ QueueOK => QueueOK'
        /\ \E i \in 1..Len(kobj_queue') : kobj_queue'[i] = k
    BY <1>a, <1>4, <1>7, <1>8, QueueKeptByOne
  <1>10. ProposalQueued(kobj.rid)'
    BY <1>6, <1>8, <1>9 DEF ProposalQueued
  <1> QED
    BY <1>8, <1>9, <1>10

LEMMA QueueKeptByCatchUp ==
    ASSUME TypeOK, StageOK, CatchUp
    PROVE  QueueKept /\ (QueueOK => QueueOK')
  <1>a. kobj_queue \in Seq(Kobj)
    BY DEF TypeOK
  <1>1. CASE UNCHANGED kobj_queue
    BY <1>1, QueueUnchanged
  <1>2. CASE \E known \in SUBSET Nodes :
               \E new \in Orderings({n \in known \ {Me} : cache[n] = None}) :
                 Handle([i \in DOMAIN new |-> Knowledge(new[i], None, kobj.rid, None)])
    <2> DEFINE Unknown(known) == {n \in known \ {Me} : cache[n] = None}
               Asked(new) == [i \in DOMAIN new |-> Knowledge(new[i], None, kobj.rid, None)]
    <2>1. PICK known \in SUBSET Nodes : \E new \in Orderings(Unknown(known)) : Handle(Asked(new))
      BY <1>2
    <2>2. PICK new \in Orderings(Unknown(known)) : Handle(Asked(new))
      BY <2>1
    <2>3. kobj.rid \in Peers
      BY DEF CatchUp, StageOK
    <2>4. Cardinality(Unknown(known)) \in Nat
      BY FS_Subset, FS_CardinalityType, FS_AddElement, PipelineAssumption DEF Nodes
    <2>5. \A n \in Nodes : /\ Knowledge(n, None, kobj.rid, None) \in Kobj
                           /\ Knowledge(n, None, kobj.rid, None).rid = n
      BY <2>3, KnowledgeType DEF Rids, Knowledge
    <2>6. \A n \in Nodes : SaidOK(Knowledge(n, None, kobj.rid, None))
      BY <2>5, SaidAboutOthers
    <2>7. /\ Asked(new) \in Seq(Kobj)
          /\ \A i \in 1..Len(Asked(new)) : SaidOK(Asked(new)[i])
      <3> DEFINE m == Cardinality(Unknown(known))
      <3>1. new \in [1..m -> Nodes]
        BY DEF Orderings
      <3>2. Asked(new) \in [1..m -> Kobj]
        BY <2>5, <3>1
      <3>3. \A i \in 1..m : SaidOK(Asked(new)[i])
        BY <2>6, <3>1
      <3>4. m \in Nat
        BY <2>4
      <3> HIDE DEF m, Asked
      <3> QED
        BY <3>2, <3>3, <3>4
    <2> HIDE DEF Asked
    <2> QED
      BY <1>a, <2>2, <2>7, QueueKeptByAdding
  <1> QED
    BY <1>1, <1>2 DEF CatchUp

LEMMA QueueKeptByFinal ==
    ASSUME TypeOK, FinalChain
    PROVE  QueueKept /\ (QueueOK => QueueOK')
  <1> DEFINE gone == IF norm = "FORGET" /\ kobj.rid \in Peers THEN EdgesWith(kobj.rid) ELSE <<>>
             Asked == [i \in DOMAIN gone |-> Knowledge(gone[i], "FORGET", None, None)]
  <1>a. kobj_queue \in Seq(Kobj)
    BY DEF TypeOK
  <1>1. Handle(Asked)
    BY DEF FinalChain
  <1>2. gone \in Seq(Edges)
    BY EdgesWithType
  <1>3. \A e \in Edges : /\ Knowledge(e, "FORGET", None, None) \in Kobj
                         /\ Knowledge(e, "FORGET", None, None).event = "FORGET"
    BY KnowledgeType DEF Rids, Events, Knowledge
  <1>4. \A e \in Edges : SaidOK(Knowledge(e, "FORGET", None, None))
    BY <1>3, SaidAboutOthers
  <1> HIDE DEF gone
  <1>5. Asked \in Seq(Kobj) /\ \A i \in 1..Len(Asked) : SaidOK(Asked[i])
    BY <1>2, <1>3, <1>4
  <1> HIDE DEF Asked
  <1> QED
    BY <1>a, <1>1, <1>5, QueueKeptByAdding

\* The normalized type is FORGET for withdrawn objects, and for no others.
LEMMA EventStep == ASSUME TypeOK, StageOK, EventOK, [Next]_vars PROVE EventOK'
  <1>1. CASE Receive \/ LocalChange \/ ForgetUnreachable
    BY <1>1, OutsideStep DEF EventOK
  <1>2. CASE RidChain
    <2>1. None # "FORGET"
      BY PipelineAssumption DEF Events
    <2> QED
      BY <1>2, <2>1 DEF RidChain, Stop, EventOK
  <1>3. CASE AttachCached \/ FetchManifest \/ FetchBundle
    <2>1. kobj \in Kobj /\ pc # "idle"
      BY <1>3 DEF AttachCached, FetchManifest, FetchBundle, StageOK
    <2>2. \A b : /\ [kobj EXCEPT !.version = b].event = kobj.event
                 /\ [kobj EXCEPT !.version = b, !.full = TRUE].event = kobj.event
      BY <2>1 DEF Kobj
    <2> QED
      BY <1>3, <2>1, <2>2 DEF AttachCached, FetchManifest, FetchBundle, Stop, Abort, EventOK
  <1>4. CASE ManifestChain
    BY <1>4 DEF ManifestChain, Stop, Normalized, EventOK
  <1>5. CASE BundleChain \/ RefuseEdge \/ ApproveEdge \/ CacheAction \/ Generate \/ ProposeEdge
    BY <1>5 DEF BundleChain, RefuseEdge, ApproveEdge, CacheAction, Generate, ProposeEdge, Goto,
                Stop, EventOK
  <1>6. CASE CatchUp \/ OutputFilter \/ Broadcast \/ FinalChain
    BY <1>6 DEF CatchUp, OutputFilter, Broadcast, FinalChain, Goto, Abort, Stop, EventOK
  <1>7. CASE UNCHANGED vars
    BY <1>7 DEF vars, worker, EventOK
  <1> QED
    BY <1>1, <1>2, <1>3, <1>4, <1>5, <1>6, <1>7 DEF Next, Process

-----------------------------------------------------------------------------
(* The steps of the worker, for the approvals.  What they have in common: *)
(* the queue only grows, and an approval in process is on its way to the cache. *)

LEMMA ApprovalIsAccepted ==
    ASSUME NEW k \in Kobj, NEW n \in Peers, Approval(k, n),
           IsProposal(cache[<<Me, n>>]), cache[<<Me, n>>].ts \in Nat
    PROVE  Outdated(n, cache[<<Me, n>>]) \/ Acceptable(k.version, cache[<<Me, n>>])
  <1>1. k.version.ts \in Nat /\ k.version.ts = approved[n]
    BY DEF Approval, IsApproval, Kobj, Bundle
  <1>2. k.version.val # cache[<<Me, n>>].val
    BY DEF Approval, IsApproval, IsProposal
  <1> QED
    BY <1>1, <1>2 DEF Outdated, Acceptable

LEMMA CachedStamp ==
    ASSUME TypeOK, NEW r \in Rids, cache[r] # None
    PROVE  cache[r].ts \in Nat
  BY DEF TypeOK, Bundle

\* An approval is neither a node with a bad key nor a proposal of a peer.
LEMMA ApprovalPasses ==
    ASSUME NEW k, NEW n \in Peers, Approval(k, n)
    PROVE  ~BadKey(k) /\ ~Proposal(k) /\ ~AboutMe(k) /\ k.event # "FORGET" /\ k.rid = <<Me, n>>
  BY EdgeRids DEF Approval, IsApproval, BadKey, Proposal, AboutMe, Nodes

LEMMA ProposalsInit == ASSUME Init PROVE ProposalsInv
  BY DEF Init, ProposalsInv, QueueOK

\* A step that leaves the cache alone and keeps the queue.
LEMMA ProposalsKept ==
    ASSUME ProposalsInv, QueueKept, QueueOK', approved' = approved, cache' = cache,
           pc' # "idle" => SaidOK(kobj'), pc' # "write",
           \A n \in Peers : IsProposal(cache[<<Me, n>>]) /\ pc \in Unwritten /\ Approval(kobj, n)
                              => \/ Outdated(n, cache[<<Me, n>>])
                                 \/ pc' \in Unwritten /\ kobj' = kobj
    PROVE  ProposalsInv'
  <1>1. ASSUME NEW n \in Peers, IsProposal(cache[<<Me, n>>]), cache[<<Me, n>>] # Stored[<<Me, n>>]
        PROVE  Answered(n, cache[<<Me, n>>])'
    BY <1>1 DEF ProposalsInv, Answered, ApprovalUnderway, QueueKept, Outdated, Approval
  <1> QED
    BY <1>1 DEF ProposalsInv

LEMMA ProposalsStep ==
    ASSUME TypeOK, StageOK, EventOK, ProposalsInv, [Next]_vars
    PROVE  ProposalsInv'
  <1>a. QueueOK /\ (pc # "idle" => SaidOK(kobj))
    BY DEF ProposalsInv
  <1>1. CASE Receive \/ LocalChange \/ ForgetUnreachable \/ UNCHANGED vars
    <2>1. QueueKept /\ QueueOK'
      BY <1>1, <1>a, QueueKeptOutside, QueueUnchanged DEF vars
    <2>2. UNCHANGED <<cache, pc, kobj, norm, approved>>
      BY <1>1, OutsideStep DEF Receive, LocalChange, ForgetUnreachable, vars
    <2>3. \A n \in Peers : ApprovalQueued(n) => ApprovalQueued(n)'
      BY <2>1, <2>2 DEF QueueKept
    <2>4. \A n \in Peers : \A v : Answered(n, v) => Answered(n, v)'
      BY <2>2, <2>3 DEF Answered, ApprovalUnderway, Outdated, Approval
    <2>5. SaidOK(kobj)' = SaidOK(kobj)
      BY <2>2 DEF SaidOK
    <2> QED
      BY <2>1, <2>2, <2>3, <2>4, <2>5 DEF ProposalsInv
  <1>2. CASE RidChain
    <2> DEFINE k == Head(kobj_queue)
    <2>1. kobj_queue \in Seq(Kobj) /\ kobj_queue # <<>> /\ kobj_queue' = Tail(kobj_queue)
      BY <1>2 DEF RidChain, TypeOK
    <2>2. k = kobj_queue[1] /\ 1 \in 1..Len(kobj_queue)
      BY <2>1
    <2>3. \A i \in 1..Len(kobj_queue') : kobj_queue'[i] = kobj_queue[i + 1]
                                          /\ i + 1 \in 1..Len(kobj_queue)
      BY <2>1
    <2>4. \A i \in 1..Len(kobj_queue) : i = 1 \/ (i - 1 \in 1..Len(kobj_queue')
                                                  /\ kobj_queue'[i - 1] = kobj_queue[i])
      BY <2>1
    <2>5. QueueOK' /\ SaidOK(k)
      BY <1>a, <2>2, <2>3 DEF QueueOK
    <2>6. /\ pc = "idle" /\ UNCHANGED <<cache, approved>> /\ pc' # "write"
          /\ ~AboutMe(k) => /\ kobj' = k
                            /\ pc' = IF k.event = "FORGET" THEN "forget" ELSE "manifest"
          /\ AboutMe(k) => pc' = "idle"
      BY <1>2 DEF RidChain, Stop
    <2> HIDE DEF k
    <2>7. ASSUME NEW n \in Peers, ApprovalUnderway(n)
          PROVE  ApprovalUnderway(n)'
      <3>1. PICK i \in 1..Len(kobj_queue) : Approval(kobj_queue[i], n)
        BY <2>6, <2>7 DEF ApprovalUnderway, ApprovalQueued, Unwritten
      <3>2. CASE i = 1
        <4>1. Approval(k, n)
          BY <2>2, <3>1, <3>2
        <4>2. kobj' = k /\ pc' = "manifest"
          BY <4>1, <2>6, ApprovalPasses
        <4>3. Approval(kobj, n)'
          BY <2>6, <4>1, <4>2 DEF Approval
        <4> QED
          BY <4>2, <4>3 DEF ApprovalUnderway, Unwritten
      <3>3. CASE i # 1
        <4>1. i - 1 \in 1..Len(kobj_queue') /\ kobj_queue'[i - 1] = kobj_queue[i]
          BY <2>4, <3>3
        <4>2. Approval(kobj_queue[i - 1], n)'
          BY <2>6, <3>1, <4>1 DEF Approval
        <4> QED
          BY <4>1, <4>2 DEF ApprovalUnderway, ApprovalQueued
      <3> QED
        BY <3>2, <3>3
    <2>8. \A n \in Peers : \A v : Answered(n, v) => Answered(n, v)'
      BY <2>6, <2>7 DEF Answered, Outdated
    <2>9. pc' # "idle" => SaidOK(kobj)'
      BY <2>5, <2>6 DEF SaidOK
    <2> QED
      BY <2>5, <2>6, <2>8, <2>9 DEF ProposalsInv
  <1>3. CASE AttachCached \/ FetchManifest \/ FetchBundle
    <2>1. kobj \in Kobj /\ pc # "idle" /\ kobj.rid \in Rids
      BY <1>3 DEF AttachCached, FetchManifest, FetchBundle, StageOK, Kobj
    <2>2. QueueKept /\ QueueOK' /\ cache' = cache /\ approved' = approved /\ pc' # "write"
      BY <1>3, <1>a, QueueUnchanged
      DEF AttachCached, FetchManifest, FetchBundle, Stop, Abort
    <2>3. pc = "forget" => kobj.event = "FORGET"
      BY <2>1 DEF EventOK, StageOK
    <2>4. \A n \in Peers : pc \in Unwritten => ~Approval(kobj, n)
      BY <1>3 DEF AttachCached, FetchManifest, FetchBundle, Approval, IsApproval, Unwritten
    <2>5. ASSUME pc' # "idle" PROVE SaidOK(kobj')
      <3>1. CASE AttachCached
        <4>1. kobj'.event = "FORGET"
          BY <1>3, <2>1, <2>3, <2>5, <3>1 DEF AttachCached, Stop, Kobj
        <4> QED
          BY <4>1, SaidAboutOthers
      <3>2. CASE FetchManifest \/ FetchBundle
        <4>1. PICK m \in Served[kobj.rid] :
                 /\ kobj.source # None
                 /\ \/ kobj' = [kobj EXCEPT !.version = m]
                    \/ kobj' = [kobj EXCEPT !.version = m, !.full = TRUE]
          BY <2>5, <3>2 DEF FetchManifest, FetchBundle, Stop, Abort
        <4>2. kobj'.rid = kobj.rid /\ kobj'.event = kobj.event /\ kobj'.source = kobj.source
          BY <2>1, <4>1 DEF Kobj
        <4> QED
          BY <1>a, <2>1, <4>1, <4>2 DEF SaidOK
      <3> QED
        BY <1>3, <3>1, <3>2
    <2> QED
      BY <2>2, <2>4, <2>5, ProposalsKept
  <1>4. CASE ManifestChain
    <2>1. kobj \in Kobj /\ pc = "manifest" /\ kobj.version # None
      BY <1>4 DEF ManifestChain, StageOK
    <2>2. QueueKept /\ QueueOK' /\ cache' = cache /\ approved' = approved /\ pc' # "write"
          /\ (pc' # "idle" => kobj' = kobj)
      BY <1>4, <1>a, QueueUnchanged DEF ManifestChain, Stop
    <2>3. ASSUME NEW n \in Peers, IsProposal(cache[<<Me, n>>]), Approval(kobj, n),
                 ~Outdated(n, cache[<<Me, n>>])
          PROVE  pc' = "bundle" /\ kobj' = kobj
      <3>1. kobj.rid = <<Me, n>> /\ kobj.full
        BY <2>3 DEF Approval, IsApproval
      <3>2. cache[<<Me, n>>].ts \in Nat
        BY <2>3, EdgeRids, CachedStamp DEF IsProposal
      <3>3. Acceptable(kobj.version, cache[<<Me, n>>])
        BY <2>1, <2>3, <3>2, ApprovalIsAccepted
      <3> QED
        BY <1>4, <3>1, <3>3 DEF ManifestChain
    <2> QED
      BY <1>a, <2>1, <2>2, <2>3, ProposalsKept DEF Unwritten
  <1>5. CASE BundleChain
    <2>1. /\ pc = "bundle" /\ kobj \in Kobj /\ QueueKept /\ QueueOK' /\ cache' = cache
          /\ approved' = approved
      BY <1>5, <1>a, QueueUnchanged DEF BundleChain, StageOK
    <2>2. CASE pc' = "write" /\ kobj' = kobj /\ norm' = norm /\ ~BadKey(kobj) /\ ~Proposal(kobj)
      <3>1. ASSUME NEW n \in Peers, norm # "FORGET", kobj.rid = <<Me, n>>
            PROVE  ~IsProposal(kobj.version)
        <4>1. /\ kobj.event # "FORGET" /\ kobj.event # None
              /\ kobj.source = None => IsApproval(kobj, n)
          BY <1>a, <2>1, <3>1 DEF EventOK, SaidOK
        <4>2. IsChange(kobj)
          BY <2>1, <4>1 DEF Kobj, Events, IsChange
        <4>3. kobj.source = None => ~IsProposal(kobj.version)
          BY <4>1 DEF IsApproval, IsProposal
        <4>4. kobj.rid \in Edges /\ kobj.rid[1] = Me
          <5>1. <<Me, n>> \in Edges /\ <<Me, n>>[1] = Me
            BY EdgeRids
          <5> QED
            BY <3>1, <5>1
        <4>5. kobj.source # None /\ IsProposal(kobj.version) => Proposal(kobj)
          BY <4>2, <4>4 DEF Proposal, IsProposal
        <4> QED
          BY <2>2, <4>3, <4>5
      <3>2. \A n \in Peers : \A v : Answered(n, v) => Answered(n, v)'
        BY <2>1, <2>2 DEF Answered, Outdated, ApprovalUnderway, Approval, QueueKept, Unwritten
      <3>3. SaidOK(kobj)'
        BY <1>a, <2>1, <2>2 DEF SaidOK
      <3> QED
        BY <2>1, <2>2, <3>1, <3>2, <3>3 DEF ProposalsInv
    <2>3. CASE pc' = "idle" /\ (BadKey(kobj) \/ Proposal(kobj))
      <3>1. \A n \in Peers : ~Approval(kobj, n)
        BY <2>3, ApprovalPasses
      <3> QED
        BY <2>1, <2>3, <3>1, ProposalsKept
    <2> QED
      BY <1>5, <2>2, <2>3 DEF BundleChain, Goto, Stop
  <1>6. CASE RefuseEdge
    <2>1. /\ pc' = "idle" /\ Proposal(kobj) /\ QueueKept /\ QueueOK' /\ cache' = cache
          /\ approved' = approved
      BY <1>6, <1>a, QueueUnchanged DEF RefuseEdge, Stop
    <2>2. \A n \in Peers : ~Approval(kobj, n)
      BY <2>1, ApprovalPasses
    <2> QED
      BY <2>1, <2>2, ProposalsKept
  <1>7. CASE ApproveEdge
    <2>1. /\ QueueKept /\ QueueOK'
          /\ \A n \in Peers : kobj.rid = <<Me, n>> => ApprovalQueued(n)'
          /\ \A n \in Peers : kobj.rid # <<Me, n>> => approved'[n] = approved[n]
      BY <1>7, <1>a, QueueKeptByApproval
    <2>2. pc = "bundle" /\ pc' = "write" /\ kobj' = kobj /\ cache' = cache /\ Proposal(kobj)
      BY <1>7 DEF ApproveEdge, Goto
    <2>3. ASSUME NEW n \in Peers, NEW v, Answered(n, v) PROVE Answered(n, v)'
      <3>1. CASE kobj.rid = <<Me, n>>
        BY <2>1, <3>1 DEF Answered, ApprovalUnderway
      <3>2. CASE kobj.rid # <<Me, n>>
        BY <2>1, <2>3, <3>2 DEF Answered, Outdated, ApprovalUnderway, Approval, IsApproval, QueueKept
      <3> QED
        BY <3>1, <3>2
    <2>4. SaidOK(kobj)'
      BY <1>a, <2>2 DEF SaidOK
    <2> QED
      BY <2>1, <2>2, <2>3, <2>4 DEF ProposalsInv
  <1>8. CASE CacheAction
    <2>1. /\ pc = "write" /\ pc' \in {"graph", "network"} /\ kobj' = kobj /\ norm' = norm
          /\ QueueKept /\ QueueOK' /\ approved' = approved
          /\ cache' = [cache EXCEPT ![kobj.rid] = IF norm = "FORGET" THEN None ELSE kobj.version]
      BY <1>8, <1>a, QueueUnchanged DEF CacheAction, Goto
    <2>2. cache \in [Rids -> Bundles \union {None}]
      BY DEF TypeOK
    <2>3. ASSUME NEW n \in Peers, IsProposal(cache'[<<Me, n>>])
          PROVE  \/ cache'[<<Me, n>>] = Stored[<<Me, n>>]
                 \/ ApprovalQueued(n) \/ Outdated(n, cache'[<<Me, n>>])
      <3>1. CASE kobj.rid = <<Me, n>>
        <4>1. norm # "FORGET" /\ IsProposal(kobj.version)
          BY <2>1, <2>2, <2>3, <3>1, EdgeRids DEF IsProposal
        <4> QED
          BY <2>1, <3>1, <4>1 DEF ProposalsInv
      <3>2. CASE kobj.rid # <<Me, n>>
        <4>1. cache'[<<Me, n>>] = cache[<<Me, n>>]
          BY <2>1, <2>2, <3>2, EdgeRids
        <4> QED
          BY <2>3, <3>2, <4>1 DEF ProposalsInv, Answered, ApprovalUnderway, Approval, IsApproval
      <3> QED
        BY <3>1, <3>2
    <2>4. \A n \in Peers : \A v : ApprovalQueued(n) \/ Outdated(n, v) => Answered(n, v)'
      BY <2>1 DEF Answered, ApprovalUnderway, Outdated, QueueKept
    <2>5. SaidOK(kobj)'
      BY <1>a, <2>1 DEF SaidOK
    <2> QED
      BY <2>1, <2>3, <2>4, <2>5 DEF ProposalsInv
  <1>9. CASE Generate \/ OutputFilter \/ Broadcast
    <2>1. /\ pc \notin Unwritten /\ pc' # "write" /\ (pc' # "idle" => kobj' = kobj /\ pc # "idle")
          /\ QueueKept /\ QueueOK' /\ cache' = cache /\ approved' = approved
      BY <1>9, <1>a, QueueUnchanged
      DEF Generate, OutputFilter, Broadcast, Goto, Stop, Abort, Unwritten
    <2> QED
      BY <1>a, <2>1, ProposalsKept
  <1>10. CASE ProposeEdge \/ CatchUp \/ FinalChain
    <2>1. QueueKept /\ QueueOK'
      BY <1>10, <1>a, QueueKeptByContact, QueueKeptByCatchUp, QueueKeptByFinal
    <2>2. /\ pc \notin Unwritten /\ pc' # "write" /\ (pc' # "idle" => kobj' = kobj /\ pc # "idle")
          /\ cache' = cache /\ approved' = approved
      BY <1>10 DEF ProposeEdge, CatchUp, FinalChain, Goto, Stop, Abort, Unwritten
    <2> QED
      BY <1>a, <2>1, <2>2, ProposalsKept
  <1> QED
    BY <1>1, <1>2, <1>3, <1>4, <1>5, <1>6, <1>7, <1>8, <1>9, <1>10 DEF Next, Process

-----------------------------------------------------------------------------
(* The same for the edges this node proposes to coordinators. *)

\* A proposal of this node is not stopped by the RID and Bundle handlers.
LEMMA ContactPasses ==
    ASSUME NEW k, NEW n \in Peers, OwnProposal(k, n)
    PROVE  /\ ~BadKey(k) /\ ~Proposal(k) /\ ~AboutMe(k) /\ k.event # "FORGET"
           /\ k.rid = <<n, Me>>
  <1>1. None # "FORGET"
    BY PipelineAssumption DEF Events
  <1> QED
    BY <1>1, EdgeRids DEF OwnProposal, BadKey, Proposal, AboutMe, Nodes

LEMMA ContactInit == ASSUME Init PROVE ContactInv
  BY DEF Init, ContactInv

\* A step that leaves the cache alone and keeps the queue.
LEMMA ContactKept ==
    ASSUME ContactInv, QueueKept, cache' = cache, dropped' = dropped,
           \A n \in Peers :
             cache[n] # None /\ "node" \in cache[n].val.provides /\ cache[n] # Stored[n] =>
             /\ pc \in Unwritten /\ OwnProposal(kobj, n) =>
                  \/ pc' \in Unwritten /\ OwnProposal(kobj', n)
                  \/ cache[<<n, Me>>] # None
             /\ pc \in {"graph", "network"} /\ kobj.rid = n /\ norm # "FORGET" =>
                  \/ pc' \in {"graph", "network"} /\ kobj'.rid = n /\ norm' # "FORGET"
                  \/ cache[<<n, Me>>] # None \/ ProposalQueued(n)'
    PROVE  ContactInv'
  BY DEF ContactInv, ContactUnderway, QueueKept

LEMMA ContactStep ==
    ASSUME IInv, EventOK, ContactInv, [Next]_vars
    PROVE  ContactInv'
  <1>a. /\ TypeOK /\ StageOK /\ WrittenOK /\ GraphMirrorsCache
        /\ None # "FORGET"
    BY PipelineAssumption DEF IInv, Events
  <1>1. CASE Receive \/ LocalChange \/ ForgetUnreachable
    <2>1. QueueKept
      BY <1>1, <1>a, QueueKeptOutside
    <2>2. UNCHANGED <<cache, pc, kobj, norm, dropped>>
      BY <1>1 DEF Receive, LocalChange, ForgetUnreachable, worker
    <2> QED
      BY <2>1, <2>2, ContactKept
  <1>2. CASE RidChain
    <2> DEFINE k == Head(kobj_queue)
    <2>1. kobj_queue \in Seq(Kobj) /\ kobj_queue # <<>> /\ kobj_queue' = Tail(kobj_queue)
      BY <1>2, <1>a DEF RidChain, TypeOK
    <2>2. k = kobj_queue[1]
      BY <2>1
    <2>3. \A i \in 1..Len(kobj_queue) : i = 1 \/ (i - 1 \in 1..Len(kobj_queue')
                                                  /\ kobj_queue'[i - 1] = kobj_queue[i])
      BY <2>1
    <2>4. /\ pc = "idle" /\ UNCHANGED <<cache, dropped>>
          /\ ~AboutMe(k) => /\ kobj' = k
                            /\ pc' = IF k.event = "FORGET" THEN "forget" ELSE "manifest"
      BY <1>2 DEF RidChain
    <2> HIDE DEF k
    <2>5. ASSUME NEW n \in Peers, ProposalQueued(n)
          PROVE  ContactUnderway(n)'
      <3>1. PICK i \in 1..Len(kobj_queue) : OwnProposal(kobj_queue[i], n)
        BY <2>5 DEF ProposalQueued
      <3>2. CASE i = 1
        <4>1. OwnProposal(k, n)
          BY <2>2, <3>1, <3>2
        <4>2. kobj' = k /\ pc' = "manifest"
          BY <4>1, <2>4, ContactPasses
        <4> QED
          BY <4>1, <4>2 DEF ContactUnderway, Unwritten
      <3>3. CASE i # 1
        BY <2>3, <3>1, <3>3 DEF ContactUnderway, ProposalQueued
      <3> QED
        BY <3>2, <3>3
    <2>6. ASSUME NEW n \in Peers, ContactUnderway(n)
          PROVE  ContactUnderway(n)'
      BY <2>4, <2>5, <2>6 DEF ContactUnderway, Unwritten
    <2> QED
      BY <2>4, <2>6 DEF ContactInv
  <1>3. CASE AttachCached \/ FetchManifest \/ FetchBundle
    <2>1. QueueKept /\ cache' = cache /\ dropped' = dropped /\ pc \notin {"graph", "network"}
      BY <1>3, <1>a, QueueUnchanged DEF AttachCached, FetchManifest, FetchBundle
    <2>2. \A n \in Peers : pc \in Unwritten => ~OwnProposal(kobj, n)
      BY <1>3 DEF AttachCached, FetchManifest, FetchBundle, OwnProposal, Unwritten
    <2> QED
      BY <2>1, <2>2, ContactKept
  <1>4. CASE ManifestChain
    <2>1. QueueKept /\ cache' = cache /\ dropped' = dropped /\ pc = "manifest"
      BY <1>4, <1>a, QueueUnchanged DEF ManifestChain
    <2>2. ASSUME NEW n \in Peers, OwnProposal(kobj, n), cache[<<n, Me>>] = None
          PROVE  pc' = "bundle" /\ kobj' = kobj
      <3>1. kobj.full /\ Acceptable(kobj.version, cache[kobj.rid])
        BY <2>2 DEF OwnProposal, Acceptable
      <3> QED
        BY <1>4, <3>1 DEF ManifestChain
    <2> QED
      BY <2>1, <2>2, ContactKept DEF Unwritten
  <1>5. CASE BundleChain \/ RefuseEdge
    <2>1. QueueKept /\ cache' = cache /\ dropped' = dropped /\ pc = "bundle"
      BY <1>5, <1>a, QueueUnchanged DEF BundleChain, RefuseEdge
    <2>2. \A n \in Peers : OwnProposal(kobj, n) => pc' = "write" /\ kobj' = kobj
      BY <1>5, ContactPasses DEF BundleChain, RefuseEdge, Goto
    <2> QED
      BY <2>1, <2>2, ContactKept DEF Unwritten
  <1>6. CASE ApproveEdge
    <2>1. QueueKept
      BY <1>6, <1>a, QueueKeptByApproval
    <2>2. cache' = cache /\ dropped' = dropped /\ pc = "bundle" /\ pc' = "write" /\ kobj' = kobj
      BY <1>6 DEF ApproveEdge, Goto
    <2> QED
      BY <2>1, <2>2, ContactKept DEF Unwritten
  <1>7. CASE CacheAction
    <2>1. /\ pc = "write" /\ kobj' = kobj /\ norm' = norm /\ QueueKept
          /\ kobj \in Kobj /\ kobj.version # None
          /\ cache' = [cache EXCEPT ![kobj.rid] = IF norm = "FORGET" THEN None ELSE kobj.version]
          /\ dropped' = IF norm = "FORGET" THEN dropped \union {kobj.rid}
                                           ELSE dropped \ {kobj.rid}
          /\ pc' = IF ChangesGraph THEN "graph" ELSE "network"
      BY <1>7, <1>a, QueueUnchanged DEF CacheAction, Goto, StageOK, Normalized_Stages
    <2>2. cache \in [Rids -> Bundles \union {None}]
      BY <1>a DEF TypeOK
    <2>3. \A r \in Rids : cache'[r] = IF r = kobj.rid THEN IF norm = "FORGET" THEN None ELSE kobj.version
                                                     ELSE cache[r]
      BY <2>1, <2>2
    <2>4. ASSUME NEW n \in Peers, cache'[n] # None, "node" \in cache'[n].val.provides,
                 cache'[n] # Stored[n]
          PROVE  ContactUnderway(n)'
      <3>1. CASE kobj.rid = n
        BY <2>1, <2>3, <2>4, <3>1, EdgeRids DEF ContactUnderway
      <3>2. CASE kobj.rid = <<n, Me>>
        BY <2>1, <2>3, <3>2, EdgeRids DEF ContactUnderway
      <3>3. CASE kobj.rid # n /\ kobj.rid # <<n, Me>>
        <4>1. cache'[n] = cache[n] /\ cache'[<<n, Me>>] = cache[<<n, Me>>]
              /\ (<<n, Me>> \in dropped => <<n, Me>> \in dropped')
          BY <2>1, <2>3, <3>3, EdgeRids
        <4>2. ContactUnderway(n)
          BY <2>4, <4>1 DEF ContactInv
        <4> QED
          BY <2>1, <3>3, <4>1, <4>2, ContactPasses DEF ContactUnderway, QueueKept
      <3> QED
        BY <3>1, <3>2, <3>3
    <2> QED
      BY <2>4 DEF ContactInv
  <1>8. CASE Generate
    <2>1. /\ QueueKept /\ cache' = cache /\ dropped' = dropped /\ pc = "graph" /\ pc' = "network"
          /\ kobj' = kobj /\ norm' = norm
      BY <1>8, <1>a, QueueUnchanged DEF Generate, Goto
    <2> QED
      BY <2>1, ContactKept DEF Unwritten
  <1>9. CASE ProposeEdge
    <2>1. QueueKept /\ ProposalQueued(kobj.rid)'
      BY <1>9, <1>a, QueueKeptByContact
    <2>2. cache' = cache /\ dropped' = dropped /\ pc = "network" /\ kobj' = kobj
      BY <1>9 DEF ProposeEdge, Goto
    <2>3. \A n \in Peers : kobj.rid = n => ProposalQueued(n)'
      BY <2>1, <2>2
    <2> QED
      BY <2>1, <2>2, <2>3, ContactKept DEF Unwritten
  <1>10. CASE OutputFilter
    <2>1. /\ QueueKept /\ cache' = cache /\ dropped' = dropped /\ pc \in {"filter", "network"}
          /\ pc = "network" => ~NewCoordinator(kobj)
      BY <1>10, <1>a, QueueUnchanged DEF OutputFilter
    <2>2. ASSUME NEW n \in Peers, cache[n] # None, "node" \in cache[n].val.provides,
                 pc = "network", kobj.rid = n, norm # "FORGET"
          PROVE  cache[<<n, Me>>] # None
      <3>1. cache[n] = kobj.version
        BY <1>a, <2>2 DEF WrittenOK, Written_Stages, NormalizedBundle
      <3>2. <<n, Me>> \in graph
        BY <2>1, <2>2, <3>1 DEF NewCoordinator
      <3> QED
        BY <1>a, <2>2, <3>2 DEF GraphMirrorsCache, CachedEdges
    <2> QED
      BY <2>1, <2>2, ContactKept DEF Unwritten
  <1>11. CASE CatchUp \/ Broadcast \/ FinalChain
    <2>1. QueueKept
      BY <1>11, <1>a, QueueKeptByCatchUp, QueueKeptByFinal, QueueUnchanged DEF Broadcast
    <2>2. cache' = cache /\ dropped' = dropped /\ pc \notin Unwritten \union {"graph", "network"}
      BY <1>11 DEF CatchUp, Broadcast, FinalChain, Unwritten
    <2> QED
      BY <2>1, <2>2, ContactKept
  <1>12. CASE UNCHANGED vars
    <2>1. QueueKept /\ UNCHANGED <<cache, pc, kobj, norm, dropped>>
      BY <1>12, <1>a, QueueUnchanged DEF vars, worker
    <2> QED
      BY <2>1, ContactKept
  <1> QED
    BY <1>1, <1>2, <1>3, <1>4, <1>5, <1>6, <1>7, <1>8, <1>9, <1>10, <1>11, <1>12
    DEF Next, Process

-----------------------------------------------------------------------------
AnsweredInv == IInv /\ EventOK /\ ProposalsInv
ContactedInv == IInv /\ EventOK /\ ContactInv

LEMMA EventInit == Init => EventOK
  BY DEF Init, EventOK

LEMMA AnsweredInit == Init => AnsweredInv
  BY EventInit, InitInv, ProposalsInit DEF AnsweredInv

LEMMA ContactedInit == Init => ContactedInv
  BY EventInit, InitInv, ContactInit DEF ContactedInv

LEMMA AnsweredStep == AnsweredInv /\ [Next]_vars => AnsweredInv'
  <1> SUFFICES ASSUME AnsweredInv, [Next]_vars PROVE AnsweredInv'
    OBVIOUS
  <1>1. IInv /\ TypeOK /\ StageOK /\ EventOK /\ ProposalsInv
    BY DEF AnsweredInv, IInv
  <1>2. IInv'
    BY <1>1, InvStep
  <1> QED
    BY <1>1, <1>2, EventStep, ProposalsStep DEF AnsweredInv

LEMMA ContactedStep == ContactedInv /\ [Next]_vars => ContactedInv'
  <1> SUFFICES ASSUME ContactedInv, [Next]_vars PROVE ContactedInv'
    OBVIOUS
  <1>1. IInv /\ TypeOK /\ StageOK /\ EventOK /\ ContactInv
    BY DEF ContactedInv, IInv
  <1>2. IInv'
    BY <1>1, InvStep
  <1> QED
    BY <1>1, <1>2, EventStep, ContactStep DEF ContactedInv

\* What was in the queue has been processed when it is empty.
LEMMA NothingUnderway ==
    ASSUME Quiet
    PROVE  /\ \A n \in Peers : ~ApprovalUnderway(n)
           /\ \A n \in Peers : ContactUnderway(n) => cache[<<n, Me>>] # None \/ <<n, Me>> \in dropped
  BY DEF Quiet, ApprovalUnderway, ApprovalQueued, ContactUnderway, ProposalQueued, Unwritten

\* edge_negotiation_handler answers every proposal it lets through, whatever
\* its stamp, and nothing between the queue and the cache stops the answer but
\* the comparison of the two stamps: when the queue is empty a proposal of this
\* life is left over only with a stamp that is not behind its approval's.
THEOREM OnlyStampsStopApprovals == Spec => []OnlyStampsLeaveProposals
  <1>1. AnsweredInv => OnlyStampsLeaveProposals
    <2> SUFFICES ASSUME AnsweredInv, Quiet, NEW n \in Peers, IsProposal(cache[<<Me, n>>]),
                        cache[<<Me, n>>] # Stored[<<Me, n>>]
                 PROVE  approved[n] # None /\ approved[n] <= cache[<<Me, n>>].ts
      BY DEF OnlyStampsLeaveProposals
    <2>1. Outdated(n, cache[<<Me, n>>])
      BY NothingUnderway DEF AnsweredInv, ProposalsInv, Answered
    <2> QED
      BY <2>1, PipelineAssumption DEF Outdated
  <1> QED
    BY <1>1, AnsweredInit, AnsweredStep, PTL DEF Spec

\* coordinator_contact proposes an edge wherever a provider of nodes without
\* one is written, and nothing on the way from the queue to the cache stops that
\* edge, whatever the clocks say: when the queue is empty only a coordinator
\* this life has no news of, or whose edge was there and was deleted, lacks one.
THEOREM CoordinatorsAreContacted == Spec => []CoordinatorsContacted
  <1>1. ContactedInv => CoordinatorsContacted
    BY NothingUnderway DEF ContactedInv, ContactInv, CoordinatorsContacted, CoordinatorContacted
  <1> QED
    BY <1>1, ContactedInit, ContactedStep, PTL DEF Spec

=============================================================================
