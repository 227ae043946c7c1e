----------------------------- MODULE KoiNet_proofs -----------------------------
(***************************************************************************)
(* Proofs about two nodes: that they end up knowing each other, and that   *)
(* no edge stays behind without its proposer.  Both nodes are instances of *)
(* KnowledgePipeline, whose queues and stages are shared here by an        *)
(* invariant about everything that is underway: in the kobj queues, in     *)
(* process, in a request, in the poll queue.                               *)
(***************************************************************************)
EXTENDS KoiNet, SequenceTheorems, TLAPS

USE KoiNetAssumption

-----------------------------------------------------------------------------
(* What can be underway.                                                    *)

F == Coord!Knowledge(p, "FORGET", p, None)
N == Coord!Knowledge(p, "NEW", p, Profile(p))
M == Part!Knowledge(c, "NEW", c, Profile(c))

EdgeRids == {Toward, Back}
Events == {"NEW", "UPDATE", "FORGET"}
EdgeProfile == [status : {"PROPOSED", "APPROVED"}, edge_type : {"WEBHOOK", "POLL"},
                rid_types : SUBSET {"node", "edge", "object"}]
Versions == [ts : Nat, val : EdgeProfile]

EdgeObjects(n) ==
    {k \in [rid : EdgeRids, event : Events \union {None}, source : {n, None},
            version : Versions \union {None}, full : BOOLEAN] :
       /\ k.event = "FORGET" <=> k.version = None
       /\ k.full = (k.version # None)}

CoordObjects == {F, N} \union EdgeObjects(p)
AboutPart == [rid : {p}, event : Events, source : {c}, version : {Profile(p), None}, full : BOOLEAN]
PartObjects == {M} \union AboutPart \union {k \in EdgeObjects(c) : k.event = "FORGET" => k.source = c}

EdgeEvents(n) ==
    {e \in [node : {n}, event : Events, rid : EdgeRids, version : Versions \union {None}] :
       e.event = "FORGET" <=> e.version = None}
ToCoord == {e \in EdgeEvents(c) : e.event # "FORGET"}
ToPart == {NodeEvent(c, "NEW")} \union EdgeEvents(p)
          \union [node : {p}, event : Events, rid : {p}, version : {Profile(p), None}]

OnWire == server # <<>> /\ server[1].rid \in EdgeRids
NewOnWire == server = <<NodeEvent(p, "NEW")>>

Underway ==
    /\ queueC \in Seq(CoordObjects) /\ queueP \in Seq(PartObjects) /\ pollqueue \in Seq(ToPart)
    /\ \/ server \in {<<>>, Handshake, <<NodeEvent(p, "NEW")>>}
       \/ server = <<server[1]>> /\ server[1] \in ToCoord
    /\ clock \in Nat

Caches ==
    /\ cacheC \in [Rids -> Versions \union {Profile(c), Profile(p), None}]
    /\ cacheP \in [Rids -> Versions \union {Profile(c), Profile(p), None}]
    /\ cacheC[c] = Profile(c) /\ cacheP[p] = Profile(p)
    /\ cacheC[p] \in {Profile(p), None} /\ cacheP[c] \in {Profile(c), None}
    /\ \A e \in EdgeRids : /\ cacheC[e] \in Versions \union {None}
                           /\ cacheP[e] \in Versions \union {None}

Past == {"graph", "network", "catchup", "filter", "broadcast"}   \* the cache is written
Normed == {"bundle", "write"} \union Past

(* What the knowledge object of a node that knows the node n is, at each    *)
(* stage of process().                                                      *)
Held(n, news, cache, pc, kobj, norm, targets) ==
    /\ pc \in {"idle", "forget", "manifest"} \union Normed
    /\ targets \subseteq {n} /\ (targets # {} => pc = "broadcast")
    /\ pc # "idle" =>
         /\ kobj \in [rid : {n} \union EdgeRids, event : Events \union {None}, source : {n, None},
                      version : Versions \union {Profile(n), None}, full : BOOLEAN]
         /\ kobj.event = "FORGET" <=> norm = "FORGET"
         /\ kobj.rid = n => kobj.event = "FORGET" \/ kobj = news
         /\ kobj.rid # n => kobj.version \in Versions \/ pc = "forget"
         /\ pc = "forget" => kobj.event = "FORGET"
         /\ pc = "manifest" => kobj.event # "FORGET" /\ kobj.full
         /\ pc \in Normed => norm \in Events /\ kobj.version # None
         /\ pc \in {"bundle", "write"} /\ kobj = news => cache[n] = None
         /\ pc \in Past => cache[kobj.rid] = IF norm = "FORGET" THEN None ELSE kobj.version

HeldC ==
    /\ Held(p, N, cacheC, pcC, kobjC, normC, targetsC)
    /\ pcC \notin {"catchup", "filter"}
HeldP ==
    /\ Held(c, M, cacheP, pcP, kobjP, normP, targetsP)
    /\ pcP # "idle" => /\ kobjP.event = "FORGET" => kobjP.source = c /\ kobjP.rid # c
                       /\ pcP \in {"catchup", "filter"} => kobjP = M
                       /\ targetsP # {} => kobjP.source = None

Shapes == Underway /\ Caches /\ HeldC /\ HeldP

-----------------------------------------------------------------------------
(* What a step does to it, one definition for each kind of step.            *)

PartSame == UNCHANGED <<cacheP, queueP, pcP, kobjP, normP, targetsP, mode>>
CoordSame == UNCHANGED <<cacheC, queueC, pcC, kobjC, normC, targetsC>>

CoordTake ==
    /\ pcC = "idle" /\ queueC # <<>>
    /\ queueC' = Tail(queueC) /\ kobjC' = Head(queueC)
    /\ normC' = (IF kobjC'.event = "FORGET" THEN "FORGET" ELSE None)
    /\ pcC' = (IF kobjC'.event = "FORGET" THEN "forget" ELSE "manifest")
    /\ UNCHANGED <<cacheC, targetsC, pollqueue, server>> /\ PartSame

CoordDrop ==
    /\ \/ pcC = "forget" /\ cacheC[kobjC.rid] = None
       \/ pcC = "manifest" /\ cacheC[kobjC.rid] # None
       \/ pcC = "bundle" /\ kobjC.rid = Toward /\ kobjC.event # "FORGET"
    /\ pcC' = "idle" /\ targetsC' = {}
    /\ UNCHANGED <<cacheC, queueC, pollqueue, server>> /\ PartSame

CoordAttach ==
    /\ pcC = "forget" /\ cacheC[kobjC.rid] # None
    /\ kobjC' = [kobjC EXCEPT !.version = cacheC[kobjC.rid], !.full = TRUE]
    /\ pcC' = "bundle"
    /\ UNCHANGED <<cacheC, queueC, normC, targetsC, pollqueue, server>> /\ PartSame

CoordCheck ==
    /\ pcC = "manifest" /\ pcC' = "bundle"
    /\ kobjC.rid = p => cacheC[p] = None
    /\ normC' = (IF cacheC[kobjC.rid] = None THEN "NEW" ELSE "UPDATE")
    /\ UNCHANGED <<cacheC, queueC, kobjC, targetsC, pollqueue, server>> /\ PartSame

CoordGoOn ==
    /\ \/ pcC = "bundle" /\ pcC' = "write"
       \/ pcC = "graph" /\ pcC' = "network"
       \/ pcC = "network" /\ pcC' = "broadcast" /\ ~NewNode(kobjC)
    /\ targetsC' \subseteq {p} /\ (pcC' # "broadcast" => targetsC' = targetsC)
    /\ UNCHANGED <<cacheC, queueC, kobjC, normC, pollqueue, server>> /\ PartSame

CoordApprove ==
    /\ pcC = "bundle" /\ pcC' = "write"
    /\ kobjC.rid = Toward /\ kobjC.source = p /\ kobjC.event # "FORGET"
    /\ \E k \in EdgeObjects(p) : /\ k.rid = Toward /\ k.event = "UPDATE" /\ k.source = None
                                 /\ queueC' = queueC \o <<k>>
    /\ UNCHANGED <<cacheC, kobjC, normC, targetsC, pollqueue, server>> /\ PartSame

CoordWrite ==
    /\ pcC = "write" /\ pcC' = "graph"
    /\ cacheC' = [cacheC EXCEPT ![kobjC.rid] = IF normC = "FORGET" THEN None ELSE kobjC.version]
    /\ UNCHANGED <<queueC, kobjC, normC, targetsC, pollqueue, server>> /\ PartSame

CoordShake ==
    /\ pcC = "network" /\ pcC' = "broadcast" /\ kobjC = N
    /\ pollqueue' = Append(pollqueue, NodeEvent(c, "NEW"))
    /\ \E b \in EdgeObjects(p), f \in EdgeObjects(p) :
          /\ f.rid = Back /\ f.event = "FORGET" /\ f.source = None
          /\ b.rid = Back /\ b.event = None /\ b.source = None /\ b.version.val = BackEdge
          /\ queueC' = queueC \o <<f, b>>
    /\ targetsC' \subseteq {p}
    /\ UNCHANGED <<cacheC, kobjC, normC, server>> /\ PartSame

Told == [node |-> p, event |-> normC, rid |-> kobjC.rid,
         version |-> IF normC = "FORGET" THEN None ELSE kobjC.version]

CoordTell ==
    /\ pcC = "broadcast" /\ targetsC' \subseteq targetsC
    /\ pollqueue' \in {pollqueue, Append(pollqueue, Told)}
    /\ UNCHANGED <<cacheC, queueC, pcC, kobjC, normC, server>> /\ PartSame

CoordFinal ==
    /\ pcC = "broadcast" /\ pcC' = "idle" /\ targetsC' = {}
    /\ \E s \in Seq({k \in EdgeObjects(p) : k.event = "FORGET" /\ k.source = None}) :
          /\ queueC' = queueC \o s
          /\ s # <<>> => normC = "FORGET" /\ kobjC.rid = p
          /\ \A i \in DOMAIN s : cacheC[s[i].rid] # None
    /\ UNCHANGED <<cacheC, pollqueue, server>> /\ PartSame

AtWork == mode \in {"flush", "stop"} /\ server = <<>> /\ UNCHANGED <<mode, pollqueue>> /\ CoordSame

PartTake ==
    /\ pcP = "idle" /\ queueP # <<>>
    /\ queueP' = Tail(queueP) /\ kobjP' = Head(queueP) /\ kobjP'.rid # p
    /\ normP' = (IF kobjP'.event = "FORGET" THEN "FORGET" ELSE None)
    /\ pcP' = (IF kobjP'.event = "FORGET" THEN "forget" ELSE "manifest")
    /\ UNCHANGED <<cacheP, targetsP, server>> /\ AtWork

PartSkip ==
    /\ pcP = "idle" /\ queueP # <<>> /\ Head(queueP).rid = p
    /\ queueP' = Tail(queueP) /\ pcP' = "idle" /\ targetsP' = {}
    /\ UNCHANGED <<cacheP, server>> /\ AtWork

PartDrop ==
    /\ \/ pcP = "forget" /\ cacheP[kobjP.rid] = None
       \/ pcP = "manifest" /\ cacheP[kobjP.rid] # None
       \/ pcP = "bundle" /\ kobjP.rid = Back
    /\ pcP' = "idle" /\ targetsP' = {}
    /\ UNCHANGED <<cacheP, queueP, server>> /\ AtWork

PartAttach ==
    /\ pcP = "forget" /\ cacheP[kobjP.rid] # None
    /\ kobjP' = [kobjP EXCEPT !.version = cacheP[kobjP.rid], !.full = TRUE]
    /\ pcP' = "bundle"
    /\ UNCHANGED <<cacheP, queueP, normP, targetsP, server>> /\ AtWork

PartCheck ==
    /\ pcP = "manifest" /\ pcP' = "bundle"
    /\ kobjP.rid = c => cacheP[c] = None
    /\ normP' = (IF cacheP[kobjP.rid] = None THEN "NEW" ELSE "UPDATE")
    /\ UNCHANGED <<cacheP, queueP, kobjP, targetsP, server>> /\ AtWork

IsProposal(k) == /\ k.rid = Back /\ k.event \in {"NEW", "UPDATE"} /\ k.source # None
                 /\ k.version.val.status = "PROPOSED"

PartGoOn ==
    /\ \/ pcP = "bundle" /\ pcP' = "write" /\ ~IsProposal(kobjP)
       \/ pcP = "graph" /\ pcP' = "network"
       \/ pcP = "catchup" /\ pcP' = "filter"
       \/ pcP \in {"network", "filter"} /\ pcP' = "broadcast"
    /\ targetsP' \subseteq {c} /\ (pcP' # "broadcast" => targetsP' = targetsP)
    /\ targetsP' # {} => kobjP.source = None
    /\ UNCHANGED <<cacheP, queueP, kobjP, normP, server>> /\ AtWork

PartApprove ==
    /\ pcP = "bundle" /\ pcP' = "write"
    /\ kobjP.rid = Back /\ cacheP[c] # None
    /\ \E k \in EdgeObjects(c) : /\ k.rid = Back /\ k.event = "UPDATE" /\ k.source = None
                                 /\ queueP' = queueP \o <<k>>
    /\ UNCHANGED <<cacheP, kobjP, normP, targetsP, server>> /\ AtWork

PartWrite ==
    /\ pcP = "write" /\ pcP' = "graph"
    /\ cacheP' = [cacheP EXCEPT ![kobjP.rid] = IF normP = "FORGET" THEN None ELSE kobjP.version]
    /\ UNCHANGED <<queueP, kobjP, normP, targetsP, server>> /\ AtWork

PartPropose ==
    /\ pcP = "network" /\ pcP' = "catchup" /\ kobjP = M
    /\ \E k \in EdgeObjects(c) : /\ k.rid = Toward /\ k.event = None /\ k.source = None
                                 /\ queueP' = queueP \o <<k>>
    /\ UNCHANGED <<cacheP, kobjP, normP, targetsP, server>> /\ AtWork

PartTell ==
    /\ pcP = "broadcast" /\ targetsP = {c} /\ targetsP' = {}
    /\ \E e \in ToCoord : /\ e.rid = kobjP.rid
                          /\ server' = IF cacheC[p] # None THEN <<e>> ELSE Handshake
    /\ UNCHANGED <<cacheP, queueP, pcP, kobjP, normP>> /\ AtWork

PartFinal ==
    /\ pcP = "broadcast" /\ targetsP = {} /\ pcP' = "idle" /\ targetsP' = {}
    /\ UNCHANGED <<cacheP, queueP, server>> /\ AtWork

WorkerSame == UNCHANGED <<queueP, pcP, kobjP, normP, targetsP>>

Begins ==
    /\ mode = "start" /\ server = <<>> /\ mode' = "poll"
    /\ server' = Handshake \/ (server' = <<>> /\ \E e \in EdgeRids : cacheP[e] # None)
    /\ UNCHANGED <<cacheP, pollqueue>> /\ CoordSame /\ WorkerSame

ShakesAgain ==
    /\ server = <<>> /\ cacheC[p] = None /\ server' = Handshake
    /\ \/ mode = "poll" /\ mode' = mode /\ WorkerSame
       \/ /\ mode \in {"flush", "stop"} /\ mode' \in {"stop", "down"}
          /\ pcP' = "idle" /\ targetsP' = {} /\ UNCHANGED queueP
    /\ UNCHANGED <<cacheP, pollqueue>> /\ CoordSame

Received(e) == Part!Knowledge(e.rid, e.event, c, e.version)

Polls ==
    /\ mode = "poll" /\ server = <<>> /\ cacheC[p] # None /\ mode' = "flush"
    /\ queueP' = queueP \o [i \in DOMAIN pollqueue |-> Received(pollqueue[i])]
    /\ pollqueue' = <<>>
    /\ UNCHANGED <<cacheP, pcP, kobjP, normP, targetsP, server>> /\ CoordSame

PollLost ==
    /\ mode = "poll" /\ server = <<>> /\ mode' = "stop" /\ pollqueue' = <<>>
    /\ UNCHANGED <<cacheP, server>> /\ CoordSame /\ WorkerSame

Emptied ==
    /\ mode' = (IF mode = "flush" THEN "poll" ELSE "down") /\ mode \in {"flush", "stop"}
    /\ pcP = "idle" /\ queueP = <<>>
    /\ UNCHANGED <<cacheP, server, pollqueue>> /\ CoordSame /\ WorkerSame

Loses ==
    /\ mode' \in {"start", "down"}
    /\ queueP' = <<>> /\ pcP' = "idle" /\ targetsP' = {}
    /\ UNCHANGED <<cacheP, server, pollqueue>> /\ CoordSame

Puts ==
    /\ server # <<>> /\ server' = Tail(server)
    /\ queueC' = queueC \o <<Coord!Knowledge(server[1].rid, server[1].event, p, server[1].version)>>
    /\ UNCHANGED <<cacheC, pcC, kobjC, normC, targetsC, pollqueue>> /\ PartSame

Still == CoordSame /\ PartSame /\ UNCHANGED <<server, pollqueue>>

CoordStep == CoordTake \/ CoordDrop \/ CoordAttach \/ CoordCheck \/ CoordGoOn \/ CoordApprove
             \/ CoordWrite \/ CoordShake \/ CoordTell \/ CoordFinal
PartStep == PartTake \/ PartSkip \/ PartDrop \/ PartAttach \/ PartCheck \/ PartGoOn \/ PartApprove
            \/ PartWrite \/ PartPropose \/ PartTell \/ PartFinal
MainStep == Begins \/ ShakesAgain \/ Polls \/ PollLost \/ Emptied \/ Loses

-----------------------------------------------------------------------------
LEMMA Names ==
    /\ Coord!Edges = EdgeRids /\ Part!Edges = EdgeRids
    /\ Coord!Nodes = {c, p} /\ Part!Nodes = {c, p}
    /\ Toward # Back /\ EdgeRids = {Toward, Back} /\ Rids = {c, p, Toward, Back}
    /\ c \notin EdgeRids /\ p \notin EdgeRids /\ c # p /\ None \notin Rids \union Events
    /\ Toward[1] = c /\ Toward[2] = p /\ Back[1] = p /\ Back[2] = c
    /\ Toward = <<c, p>> /\ Back = <<p, c>>
<1>1. Coord!Nodes = {c, p} /\ Part!Nodes = {c, p}
  BY DEF Coord!Nodes, Part!Nodes
<1>2. \A e : e \in {c, p} \X {c, p} /\ e[1] # e[2] <=> e \in {<<c, p>>, <<p, c>>}
  OBVIOUS
<1>3. Coord!Edges = EdgeRids /\ Part!Edges = EdgeRids
  BY <1>1, <1>2 DEF Coord!Edges, Part!Edges, EdgeRids, Toward, Back
<1> QED BY <1>1, <1>3 DEF EdgeRids, Toward, Back, Rids, Events

LEMMA Values ==
    /\ Coord!EdgeProfile = EdgeProfile /\ Part!EdgeProfile = EdgeProfile
    /\ Versions \subseteq Coord!Bundles /\ None \notin Versions
    /\ Profile(c) # None /\ Profile(p) # None /\ Profile(c) # Profile(p)
<1>1. Coord!EdgeProfile = EdgeProfile /\ Part!EdgeProfile = EdgeProfile
  BY DEF Coord!EdgeProfile, Part!EdgeProfile, EdgeProfile, Coord!RidTypes, Part!RidTypes
<1>2. Versions \subseteq Coord!Bundles
  BY <1>1 DEF Versions, Coord!Bundles
<1>3. ASSUME NEW n \in {c, p} PROVE Profile(n) \in Coord!Bundles
  <2>1. Profile(n).val \in Coord!NodeProfile
    BY DEF Profile, Coord!NodeProfile, Coord!NodeTypes, Coord!RidTypes
  <2> QED BY <2>1 DEF Profile, Coord!Bundles
<1>4. Profile(c) # Profile(p)
  BY DEF Profile
<1> QED BY <1>1, <1>2, <1>3, <1>4, NoneIsNoBundle

LEMMA Objects ==
    /\ F = [rid |-> p, event |-> "FORGET", source |-> p, version |-> None, full |-> FALSE]
    /\ N = [rid |-> p, event |-> "NEW", source |-> p, version |-> Profile(p), full |-> TRUE]
    /\ M = [rid |-> c, event |-> "NEW", source |-> c, version |-> Profile(c), full |-> TRUE]
  BY Values DEF F, N, M, Coord!Knowledge, Part!Knowledge

LEMMA NoneIsNew ==
    /\ None \notin {c, p, Toward, Back} /\ None \notin {"NEW", "UPDATE", "FORGET"} /\ None # "FORGET"
    /\ None \notin Versions /\ Profile(c) # None /\ Profile(p) # None
  BY Values DEF Toward, Back

(* A node in process holds an object of one of these kinds.                 *)
LEMMA InProcess ==
    ASSUME Shapes
    PROVE  /\ pcC # "idle" => kobjC.rid \in {p} \union EdgeRids /\ kobjC.rid \in Rids
           /\ pcP # "idle" => kobjP.rid \in {c} \union EdgeRids /\ kobjP.rid \in Rids
           /\ pcC # "idle" /\ kobjC.rid = p /\ kobjC.event # "FORGET" => kobjC = N
           /\ pcP # "idle" /\ kobjP.rid = c => kobjP = M
<1>1. pcC # "idle" => /\ kobjC.rid \in {p} \union EdgeRids
                      /\ kobjC.rid = p /\ kobjC.event # "FORGET" => kobjC = N
  BY DEF Shapes, HeldC, Held
<1>2. pcP # "idle" => kobjP.rid \in {c} \union EdgeRids /\ (kobjP.rid = c => kobjP = M)
  BY DEF Shapes, HeldP, Held
<1> QED BY <1>1, <1>2, Names

LEMMA FirstOf ==
    ASSUME NEW S, NEW q \in Seq(S), q # <<>>
    PROVE  /\ Head(q) \in S /\ Head(q) = q[1] /\ Tail(q) \in Seq(S)
           /\ Len(q) \in Nat /\ Len(q) # 0 /\ DOMAIN q = 1..Len(q)
           /\ DOMAIN Tail(q) = 1..(Len(q) - 1) /\ \A i \in DOMAIN Tail(q) : Tail(q)[i] = q[i + 1]
  BY HeadTailProperties, LenProperties, EmptySeq

LEMMA Joined ==
    ASSUME NEW S, NEW q \in Seq(S), NEW s \in Seq(S)
    PROVE  /\ q \o s \in Seq(S) /\ Len(q) \in Nat /\ Len(s) \in Nat
           /\ DOMAIN q = 1..Len(q) /\ DOMAIN s = 1..Len(s)
           /\ DOMAIN (q \o s) = 1..(Len(q) + Len(s))
           /\ \A i \in DOMAIN q : (q \o s)[i] = q[i]
           /\ \A i \in DOMAIN s : (q \o s)[Len(q) + i] = s[i]
  BY ConcatProperties, LenProperties

LEMMA PairOf == \A x, y : <<x>> \o <<y>> = <<x, y>>
<1> TAKE x, y
<1> DEFINE s == <<x>> \o <<y>>
<1>1. <<x>> \in Seq({x, y}) /\ <<y>> \in Seq({x, y}) /\ <<x, y>> \in Seq({x, y})
      /\ Len(<<x>>) = 1 /\ Len(<<y>>) = 1 /\ Len(<<x, y>>) = 2
  OBVIOUS
<1>2. s \in Seq({x, y}) /\ Len(s) = 2 /\ s[1] = x /\ s[2] = y
  BY <1>1, ConcatProperties
<1> HIDE DEF s
<1>3. s = <<x, y>>
  BY <1>1, <1>2, SeqEqual
<1> QED BY <1>3 DEF s

(* The coordinator never proposes an edge to itself, refuses none, and      *)
(* fetches nothing.                                                         *)
LEMMA CoordHead ==
    ASSUME Shapes, queueC # <<>>
    PROVE  Head(queueC) \in CoordObjects /\ Head(queueC).rid # c
<1>1. Head(queueC) \in CoordObjects
  BY FirstOf DEF Shapes, Underway
<1> QED BY <1>1, Names, Objects DEF CoordObjects, EdgeObjects

LEMMA PartHead ==
    ASSUME Shapes, queueP # <<>>
    PROVE  Head(queueP) \in PartObjects /\ (Head(queueP).rid = p => Head(queueP).source # None)
<1>1. Head(queueP) \in PartObjects
  BY FirstOf DEF Shapes, Underway
<1> QED BY <1>1, Names, Objects DEF PartObjects, EdgeObjects, AboutPart

LEMMA CoordNetwork == Coord!NetworkTargets(kobjC) \subseteq {p}
  BY DEF Coord!NetworkTargets, Coord!OtherEnd, Coord!Subscribers

LEMMA PartNetwork ==
    /\ Part!NetworkTargets(kobjP) \subseteq {c}
    /\ kobjP.source # None => Part!NetworkTargets(kobjP) = {}
<1>1. Part!NetworkTargets(kobjP) \subseteq {c}
  BY DEF Part!NetworkTargets, Part!OtherEnd, Part!Subscribers
<1>2. ASSUME kobjP.source # None PROVE Part!NetworkTargets(kobjP) = {}
  <2>1. Part!OtherEnd(kobjP) = {} /\ ~Part!InvolvesMe(kobjP)
    BY <1>2 DEF Part!OtherEnd, Part!InvolvesMe
  <2> QED BY <2>1 DEF Part!NetworkTargets
<1> QED BY <1>1, <1>2

(* forget_edge_on_node_deletion: both edges, those of them that are cached. *)
LEMMA CoordEdgesGo ==
    ASSUME Shapes, Coord!FinalChain, PartSame, UNCHANGED <<server, pollqueue>>
    PROVE  CoordFinal
<1> DEFINE S == {k \in EdgeObjects(p) : k.event = "FORGET" /\ k.source = None}
           gone == IF normC = "FORGET" /\ kobjC.rid \in {p} THEN Coord!EdgesWith(kobjC.rid) ELSE <<>>
           s == [i \in DOMAIN gone |-> Coord!Knowledge(gone[i], "FORGET", None, None)]
<1>1. queueC' = queueC \o s
  BY DEF Coord!FinalChain, Coord!Handle
<1>2. \A e \in EdgeRids : Coord!Knowledge(e, "FORGET", None, None) \in S
  BY Names, Values DEF EdgeObjects, Coord!Knowledge, Events
<1>3. /\ gone \in Seq(EdgeRids) /\ \A i \in DOMAIN gone : cacheC[gone[i]] # None
      /\ gone # <<>> => normC = "FORGET" /\ kobjC.rid = p
  <2>1. CASE normC = "FORGET" /\ kobjC.rid = p
    <3>1. gone = Coord!IfCached(Toward) \o Coord!IfCached(Back)
      BY <2>1, Names DEF Coord!EdgesWith
    <3>2. ASSUME NEW e \in EdgeRids
          PROVE  Coord!IfCached(e) = <<>> \/ (Coord!IfCached(e) = <<e>> /\ cacheC[e] # None)
      BY DEF Coord!IfCached
    <3>3. \/ gone = <<>> \/ (gone = <<Toward>> /\ cacheC[Toward] # None)
          \/ (gone = <<Back>> /\ cacheC[Back] # None)
          \/ (gone = <<Toward, Back>> /\ cacheC[Toward] # None /\ cacheC[Back] # None)
      <4>1. Toward \in EdgeRids /\ Back \in EdgeRids
        BY Names
      <4>2. /\ <<>> \o <<>> = <<>> /\ <<Toward>> \o <<>> = <<Toward>> /\ <<>> \o <<Back>> = <<Back>>
            /\ <<Toward>> \o <<Back>> = <<Toward, Back>>
        <5>1. <<>> \o <<>> = <<>>
          BY <<>> \in Seq({}), ConcatEmptySeq
        <5>2. <<Toward>> \o <<>> = <<Toward>>
          OBVIOUS
        <5>3. <<>> \o <<Back>> = <<Back>>
          BY <<Back>> \in Seq({Back}), ConcatEmptySeq
        <5> QED BY <5>1, <5>2, <5>3, PairOf
      <4> HIDE DEF gone
      <4>3. \/ Coord!IfCached(Toward) = <<>>
            \/ Coord!IfCached(Toward) = <<Toward>> /\ cacheC[Toward] # None
        BY <3>2, <4>1
      <4>4. Coord!IfCached(Back) = <<>> \/ (Coord!IfCached(Back) = <<Back>> /\ cacheC[Back] # None)
        BY <3>2, <4>1
      <4> QED BY <3>1, <4>2, <4>3, <4>4, Zenon
    <3> HIDE DEF gone
    <3>4. \A e \in EdgeRids : <<e>> \in Seq(EdgeRids) /\ DOMAIN <<e>> = {1}
      OBVIOUS
    <3>5. <<Toward, Back>> \in Seq(EdgeRids) /\ DOMAIN <<Toward, Back>> = {1, 2}
      BY Names
    <3>6. Toward \in EdgeRids /\ Back \in EdgeRids
      BY Names
    <3>7. CASE gone = <<>>
      BY <2>1, <3>7, EmptySeq
    <3>8. CASE gone = <<Toward>> /\ cacheC[Toward] # None
      BY <2>1, <3>4, <3>6, <3>8
    <3>9. CASE gone = <<Back>> /\ cacheC[Back] # None
      BY <2>1, <3>4, <3>6, <3>9
    <3>10. CASE gone = <<Toward, Back>> /\ cacheC[Toward] # None /\ cacheC[Back] # None
      BY <2>1, <3>5, <3>10
    <3> QED BY <3>3, <3>7, <3>8, <3>9, <3>10
  <2>2. CASE ~(normC = "FORGET" /\ kobjC.rid = p)
    <3>1. gone = <<>>
      BY <2>2
    <3> HIDE DEF gone
    <3> QED BY <3>1, EmptySeq
  <2> QED BY <2>1, <2>2
<1> HIDE DEF gone
<1>4. Len(gone) \in Nat /\ DOMAIN gone = 1..Len(gone) /\ \A i \in DOMAIN gone : gone[i] \in EdgeRids
  BY <1>3, LenProperties, ElementOfSeq
<1>5. /\ s \in Seq(S) /\ (gone = <<>> => s = <<>>)
      /\ \A i \in DOMAIN s : s[i].rid = gone[i] /\ i \in DOMAIN gone
  <2>1. \A i \in 1..Len(gone) : Coord!Knowledge(gone[i], "FORGET", None, None) \in S
    BY <1>2, <1>4
  <2>2. s \in Seq(S)
    BY <1>4, <2>1
  <2> QED BY <2>2, <1>4 DEF Coord!Knowledge
<1> HIDE DEF s
<1>6. /\ pcC = "broadcast" /\ pcC' = "idle" /\ targetsC' = {} /\ cacheC' = cacheC
  BY DEF Coord!FinalChain, Coord!Stop
<1>7. /\ s # <<>> => normC = "FORGET" /\ kobjC.rid = p
      /\ \A i \in DOMAIN s : cacheC[s[i].rid] # None
  BY <1>3, <1>5
<1>8. \E t \in Seq(S) : /\ queueC' = queueC \o t
                        /\ t # <<>> => normC = "FORGET" /\ kobjC.rid = p
                        /\ \A i \in DOMAIN t : cacheC[t[i].rid] # None
  BY <1>1, <1>5, <1>7
<1> QED BY <1>6, <1>8 DEF CoordFinal

LEMMA CoordSteps == ASSUME Shapes, Coordinator PROVE CoordStep /\ clock' \in Nat
<1> USE DEF PartSame, part, workP, Coord!Stop, Coord!Goto
<1>c. clock \in Nat
  BY DEF Shapes, Underway
<1>1. CASE HandshakeHandler
  <2>1. pcC = "network" /\ kobjC = N /\ kobjC.rid = p
    BY <1>1, InProcess DEF HandshakeHandler, NewNode
  <2>2. cacheC[p] # None
    <3>1. /\ cacheC[kobjC.rid] = (IF normC = "FORGET" THEN None ELSE kobjC.version)
          /\ kobjC.event = "FORGET" <=> normC = "FORGET"
      BY <2>1 DEF Shapes, HeldC, Held, Past
    <3> QED BY <3>1, <2>1, Objects, Values
  <2>3. pollqueue' = Append(pollqueue, NodeEvent(c, "NEW"))
    BY <1>1, <2>2 DEF HandshakeHandler, PushToPart
  <2> DEFINE f == Coord!Knowledge(Back, "FORGET", None, None)
             b == Coord!Knowledge(Back, None, None, [ts |-> clock, val |-> BackEdge])
  <2>4. [ts |-> clock, val |-> BackEdge] \in Versions
    BY <1>c DEF Versions, EdgeProfile, BackEdge
  <2>5. f \in EdgeObjects(p) /\ b \in EdgeObjects(p)
    BY <2>4, Names, Values DEF EdgeObjects, Coord!Knowledge, Events
  <2>6. /\ f.rid = Back /\ f.event = "FORGET" /\ f.source = None
        /\ b.rid = Back /\ b.event = None /\ b.source = None /\ b.version.val = BackEdge
    BY DEF Coord!Knowledge
  <2>7. queueC' = queueC \o <<f, b>>
    BY <1>1 DEF HandshakeHandler, Coord!Handle, Proposal, BackEdgeBundle
  <2> HIDE DEF f, b
  <2>8. CoordShake
    BY <1>1, <2>1, <2>3, <2>5, <2>6, <2>7, CoordNetwork DEF HandshakeHandler, CoordShake
  <2> QED BY <2>8, <1>1, <1>c DEF HandshakeHandler, CoordStep
<1>2. CASE CoordBroadcasts
  <2>1. pushedC' = Told
    <3>1. PICK n \in targetsC :
             pushedC' = [node |-> n, event |-> normC, rid |-> kobjC.rid, version |-> Coord!NormalizedBundle]
      BY <1>2 DEF CoordBroadcasts, Coord!Broadcast, Coord!Push
    <3>2. n = p
      BY DEF Shapes, HeldC, Held
    <3> QED BY <3>1, <3>2 DEF Told, Coord!NormalizedBundle
  <2>2. pollqueue' \in {pollqueue, Append(pollqueue, Told)}
    BY <1>2, <2>1 DEF CoordBroadcasts, PushToPart
  <2>3. pcC' = "broadcast" /\ kobjC' = kobjC /\ normC' = normC /\ targetsC' \subseteq targetsC
    BY <1>2 DEF CoordBroadcasts, Coord!Broadcast, Coord!Abort
  <2>4. CoordTell
    BY <1>2, <2>2, <2>3 DEF CoordBroadcasts, Coord!Broadcast, CoordTell
  <2>5. clock' = clock
    BY <1>2 DEF CoordBroadcasts, Coord!Broadcast
  <2> QED BY <2>4, <2>5, <1>c DEF CoordStep
<1>3. CASE CoordWorks
  <2>u. PartSame /\ server' = server /\ pollqueue' = pollqueue
    BY <1>3 DEF CoordWorks
  <2>p. pcC # "idle" => kobjC.rid \in {p} \union EdgeRids /\ kobjC.rid \in Rids
    BY InProcess
  <2>1. CASE Coord!RidChain
    <3>1. Head(queueC).rid # c
      BY <2>1, CoordHead DEF Coord!RidChain
    <3>2. CoordTake
      BY <2>1, <2>u, <3>1 DEF Coord!RidChain, Coord!AboutMe, CoordTake
    <3> QED BY <3>2, <2>1, <1>c DEF Coord!RidChain, CoordStep
  <2>2. CASE Coord!AttachCached
    <3>1. CoordDrop \/ CoordAttach
      BY <2>2, <2>u DEF Coord!AttachCached, CoordDrop, CoordAttach
    <3> QED BY <3>1, <2>2, <1>c DEF Coord!AttachCached, CoordStep
  <2>3. CASE Coord!ManifestChain
    <3>1. pcC = "manifest" /\ kobjC.full
      BY <2>3 DEF Coord!ManifestChain, Shapes, HeldC, Held
    <3>2. kobjC.rid = p /\ cacheC[p] # None => ~Coord!Acceptable(kobjC.version, cacheC[kobjC.rid])
      <4>1. kobjC.event # "FORGET" /\ cacheC[p] \in {Profile(p), None}
        BY <3>1 DEF Shapes, HeldC, Held, Caches
      <4>2. kobjC.rid = p => kobjC.version = Profile(p)
        BY <3>1, <4>1, InProcess, Objects
      <4> QED BY <4>1, <4>2 DEF Coord!Acceptable
    <3>3. cacheC[kobjC.rid] = None => Coord!Acceptable(kobjC.version, cacheC[kobjC.rid])
      BY DEF Coord!Acceptable
    <3>4. CoordDrop \/ CoordCheck
      BY <2>3, <2>u, <3>1, <3>2, <3>3 DEF Coord!ManifestChain, Coord!Normalized, CoordDrop, CoordCheck
    <3> QED BY <3>4, <2>3, <1>c DEF Coord!ManifestChain, CoordStep
  <2>4. CASE Coord!BundleChain
    <3>1. pcC = "bundle"
      BY <2>4 DEF Coord!BundleChain
    <3>2. ~Coord!BadKey(kobjC)
      <4>1. Coord!BadKey(kobjC) => kobjC.rid \in {c, p} /\ kobjC.event # "FORGET" /\ ~kobjC.version.val.key_ok
        BY Names DEF Coord!BadKey, Coord!IsChange
      <4>2. Coord!BadKey(kobjC) => kobjC.rid = p
        BY <4>1, <2>p, <3>1, Names
      <4>3. Coord!BadKey(kobjC) => kobjC.version = Profile(p)
        BY <4>1, <4>2, <3>1, InProcess, Objects
      <4> QED BY <4>1, <4>3 DEF Profile
    <3>3. Coord!Proposal(kobjC) => kobjC.rid = Toward /\ kobjC.event # "FORGET"
      BY <2>p, <3>1, Names DEF Coord!Proposal, Coord!IsChange
    <3>4. targetsC = {}
      BY <3>1 DEF Shapes, HeldC, Held
    <3>5. CoordDrop \/ CoordGoOn
      BY <2>4, <2>u, <3>2, <3>3, <3>4 DEF Coord!BundleChain, CoordDrop, CoordGoOn
    <3> QED BY <3>5, <2>4, <1>c DEF Coord!BundleChain, CoordStep
  <2>5. CASE Coord!ApproveEdge
    <3>1. pcC = "bundle" /\ Coord!Proposal(kobjC)
      BY <2>5 DEF Coord!ApproveEdge
    <3>2. kobjC.rid = Toward /\ kobjC.event # "FORGET" /\ kobjC.source = p
      <4>1. kobjC.source \in {p, None}
        BY <3>1 DEF Shapes, HeldC, Held
      <4> QED BY <2>p, <3>1, <4>1, Names DEF Coord!Proposal, Coord!IsChange
    <3> DEFINE v == [kobjC.version.val EXCEPT !.status = "APPROVED"]
               k == Coord!Knowledge(kobjC.rid, "UPDATE", None, [ts |-> clock, val |-> v])
    <3>3. kobjC.version \in Versions
      BY <3>1, <3>2, Names DEF Shapes, HeldC, Held
    <3>4. v \in EdgeProfile
      BY <3>3 DEF Versions, EdgeProfile
    <3>5. [ts |-> clock, val |-> v] \in Versions
      BY <3>4, <1>c DEF Versions
    <3> HIDE DEF v
    <3>6. k \in EdgeObjects(p)
      BY <3>2, <3>5, Names, Values DEF EdgeObjects, Coord!Knowledge, Events
    <3>7. k.rid = Toward /\ k.event = "UPDATE" /\ k.source = None
      BY <3>2 DEF Coord!Knowledge
    <3>8. queueC' = queueC \o <<k>>
      BY <2>5 DEF Coord!ApproveEdge, Coord!Handle, v
    <3> HIDE DEF k
    <3>9. CoordApprove
      BY <2>5, <2>u, <3>1, <3>2, <3>6, <3>7, <3>8 DEF Coord!ApproveEdge, CoordApprove
    <3> QED BY <3>9, <2>5, <1>c DEF Coord!ApproveEdge, CoordStep
  <2>6. CASE Coord!CacheAction
    <3>1. Coord!ChangesGraph
      BY <2>6, <2>p, Names DEF Coord!CacheAction, Coord!ChangesGraph
    <3>2. CoordWrite
      BY <2>6, <2>u, <3>1 DEF Coord!CacheAction, CoordWrite
    <3> QED BY <3>2, <2>6, <1>c DEF Coord!CacheAction, CoordStep
  <2>7. CASE Coord!Generate
    <3>1. targetsC = {}
      BY <2>7 DEF Coord!Generate, Shapes, HeldC, Held
    <3>2. CoordGoOn
      BY <2>7, <2>u, <3>1 DEF Coord!Generate, CoordGoOn
    <3> QED BY <3>2, <2>7, <1>c DEF Coord!Generate, CoordStep
  <2>8. CASE Coord!OutputFilter /\ ~NewNode(kobjC)
    <3>1. pcC # "filter"
      BY DEF Shapes, HeldC
    <3>2. CoordGoOn
      BY <2>8, <2>u, <3>1, CoordNetwork DEF Coord!OutputFilter, CoordGoOn
    <3> QED BY <3>2, <2>8, <1>c DEF Coord!OutputFilter, CoordStep
  <2>9. CASE Coord!FinalChain
    <3>1. CoordFinal
      BY <2>9, <2>u, CoordEdgesGo
    <3> QED BY <3>1, <2>9, <1>c DEF Coord!FinalChain, CoordStep
  <2> QED BY <1>3, <2>1, <2>2, <2>3, <2>4, <2>5, <2>6, <2>7, <2>8, <2>9 DEF CoordWorks
<1> QED BY <1>1, <1>2, <1>3 DEF Coordinator

LEMMA PartEdgesStay ==
    ASSUME Shapes, Part!FinalChain
    PROVE  queueP' = queueP
<1>1. /\ pcP = "broadcast"
      /\ kobjP.event = "FORGET" <=> normP = "FORGET"
      /\ kobjP.event = "FORGET" => kobjP.rid # c
  BY DEF Part!FinalChain, Shapes, HeldP, Held
<1>2. ~(normP = "FORGET" /\ kobjP.rid \in {c})
  BY <1>1
<1> DEFINE gone == IF normP = "FORGET" /\ kobjP.rid \in {c} THEN Part!EdgesWith(kobjP.rid) ELSE <<>>
           s == [i \in DOMAIN gone |-> Part!Knowledge(gone[i], "FORGET", None, None)]
<1>3. queueP' = queueP \o s
  BY DEF Part!FinalChain, Part!Handle
<1>4. gone = <<>>
  BY <1>2
<1> HIDE DEF gone
<1>5. s = <<>>
  BY <1>4
<1> HIDE DEF s
<1> QED BY <1>3, <1>5, ConcatEmptySeq DEF Shapes, Underway

LEMMA WorkerSteps == ASSUME Shapes, PartWorks PROVE PartStep /\ clock' \in Nat
<1> USE DEF Part!Stop, Part!Goto
<1>c. clock \in Nat
  BY DEF Shapes, Underway
<1>u. AtWork /\ server' = server
  BY DEF PartWorks, Processing, Waiting, coord, AtWork, CoordSame
<1>p. pcP # "idle" => kobjP.rid \in {c} \union EdgeRids /\ kobjP.rid \in Rids
  BY InProcess
<1>t. targetsP # {} => pcP = "broadcast"
  BY DEF Shapes, HeldP, Held
<1>1. CASE Part!RidChain
  <2>1. Part!AboutMe(Head(queueP)) <=> Head(queueP).rid = p
    BY <1>1, PartHead DEF Part!RidChain, Part!AboutMe
  <2>2. PartTake \/ PartSkip
    BY <1>1, <1>u, <2>1 DEF Part!RidChain, PartTake, PartSkip
  <2> QED BY <2>2, <1>1, <1>c DEF Part!RidChain, PartStep
<1>2. CASE Part!AttachCached
  <2>1. PartDrop \/ PartAttach
    BY <1>2, <1>u DEF Part!AttachCached, PartDrop, PartAttach
  <2> QED BY <2>1, <1>2, <1>c DEF Part!AttachCached, PartStep
<1>3. CASE Part!ManifestChain
  <2>1. pcP = "manifest" /\ kobjP.full
    BY <1>3 DEF Part!ManifestChain, Shapes, HeldP, Held
  <2>2. kobjP.rid = c /\ cacheP[c] # None => ~Part!Acceptable(kobjP.version, cacheP[kobjP.rid])
    <3>1. cacheP[c] \in {Profile(c), None}
      BY DEF Shapes, Caches
    <3>2. kobjP.rid = c => kobjP.version = Profile(c)
      BY <2>1, InProcess, Objects
    <3> QED BY <3>1, <3>2 DEF Part!Acceptable
  <2>3. cacheP[kobjP.rid] = None => Part!Acceptable(kobjP.version, cacheP[kobjP.rid])
    BY DEF Part!Acceptable
  <2>4. PartDrop \/ PartCheck
    BY <1>3, <1>u, <2>1, <2>2, <2>3 DEF Part!ManifestChain, Part!Normalized, PartDrop, PartCheck
  <2> QED BY <2>4, <1>3, <1>c DEF Part!ManifestChain, PartStep
<1>4. CASE Part!BundleChain
  <2>1. pcP = "bundle"
    BY <1>4 DEF Part!BundleChain
  <2>2. ~Part!BadKey(kobjP)
    <3>1. Part!BadKey(kobjP) => kobjP.rid \in {c, p} /\ ~kobjP.version.val.key_ok
      BY Names DEF Part!BadKey
    <3>2. Part!BadKey(kobjP) => kobjP.rid = c
      BY <3>1, <1>p, <2>1, Names
    <3>3. Part!BadKey(kobjP) => kobjP.version = Profile(c)
      BY <3>2, <2>1, InProcess, Objects
    <3> QED BY <3>1, <3>3 DEF Profile
  <2>3. Part!Proposal(kobjP) => kobjP.rid = Back
    BY <1>p, <2>1, Names DEF Part!Proposal
  <2>4. IsProposal(kobjP) => Part!Proposal(kobjP)
    BY Names DEF Part!Proposal, IsProposal, Part!IsChange
  <2>5. PartDrop \/ PartGoOn
    BY <1>4, <1>u, <1>t, <2>1, <2>2, <2>3, <2>4 DEF Part!BundleChain, PartDrop, PartGoOn
  <2> QED BY <2>5, <1>4, <1>c DEF Part!BundleChain, PartStep
<1>5. CASE Part!ApproveEdge
  <2>1. pcP = "bundle" /\ Part!Proposal(kobjP) /\ cacheP[kobjP.rid[2]] # None
    BY <1>5 DEF Part!ApproveEdge
  <2>2. kobjP.rid = Back /\ cacheP[c] # None
    BY <1>p, <2>1, Names DEF Part!Proposal
  <2> DEFINE v == [kobjP.version.val EXCEPT !.status = "APPROVED"]
             k == Part!Knowledge(kobjP.rid, "UPDATE", None, [ts |-> clock, val |-> v])
  <2>3. kobjP.version \in Versions
    BY <2>1, <2>2, Names DEF Shapes, HeldP, Held
  <2>4. v \in EdgeProfile
    BY <2>3 DEF Versions, EdgeProfile
  <2>5. [ts |-> clock, val |-> v] \in Versions
    BY <2>4, <1>c DEF Versions
  <2> HIDE DEF v
  <2>6. k \in EdgeObjects(c)
    BY <2>2, <2>5, Names, Values DEF EdgeObjects, Part!Knowledge, Events
  <2>7. k.rid = Back /\ k.event = "UPDATE" /\ k.source = None
    BY <2>2 DEF Part!Knowledge
  <2>8. queueP' = queueP \o <<k>>
    BY <1>5 DEF Part!ApproveEdge, Part!Handle, v
  <2> HIDE DEF k
  <2>9. PartApprove
    BY <1>5, <1>u, <2>1, <2>2, <2>6, <2>7, <2>8 DEF Part!ApproveEdge, PartApprove
  <2> QED BY <2>9, <1>5, <1>c DEF Part!ApproveEdge, PartStep
<1>6. CASE Part!CacheAction
  <2>1. Part!ChangesGraph
    BY <1>6, <1>p, Names DEF Part!CacheAction, Part!ChangesGraph
  <2>2. PartWrite
    BY <1>6, <1>u, <2>1 DEF Part!CacheAction, PartWrite
  <2> QED BY <2>2, <1>6, <1>c DEF Part!CacheAction, PartStep
<1>7. CASE Part!Generate
  <2>1. PartGoOn
    BY <1>7, <1>u, <1>t DEF Part!Generate, PartGoOn
  <2> QED BY <2>1, <1>7, <1>c DEF Part!Generate, PartStep
<1>8. CASE Part!ProposeEdge
  <2>1. pcP = "network" /\ kobjP.rid = c
    BY <1>8 DEF Part!ProposeEdge, Part!NewCoordinator
  <2>2. kobjP = M
    BY <2>1, InProcess
  <2> DEFINE b == [ts |-> clock, val |-> Part!ProposedEdge]
             k == Part!Knowledge(<<kobjP.rid, p>>, None, None, b)
  <2>3. b \in Versions
    BY <1>c DEF Part!ProposedEdge, Versions, EdgeProfile
  <2> HIDE DEF b
  <2>4. k \in EdgeObjects(c) /\ k.rid = Toward /\ k.event = None /\ k.source = None
    BY <2>1, <2>3, Names, Values DEF EdgeObjects, Part!Knowledge, Events
  <2>5. queueP' = queueP \o <<k>>
    BY <1>8 DEF Part!ProposeEdge, Part!Handle, b
  <2> HIDE DEF k
  <2>6. PartPropose
    BY <1>8, <1>u, <2>1, <2>2, <2>4, <2>5 DEF Part!ProposeEdge, PartPropose
  <2> QED BY <2>6, <1>8, <1>c DEF Part!ProposeEdge, PartStep
<1>9. CASE Part!OutputFilter
  <2>1. PartGoOn
    BY <1>9, <1>u, PartNetwork DEF Part!OutputFilter, PartGoOn
  <2> QED BY <2>1, <1>9, <1>c DEF Part!OutputFilter, PartStep
<1>10. CASE Part!FinalChain
  <2>1. PartFinal
    BY <1>10, <1>u, PartEdgesStay DEF Part!FinalChain, PartFinal
  <2> QED BY <2>1, <1>10, <1>c DEF Part!FinalChain, PartStep
<1> QED BY <1>1, <1>2, <1>3, <1>4, <1>5, <1>6, <1>7, <1>8, <1>9, <1>10 DEF PartWorks

(* What the partial node broadcasts is an edge of its own.                  *)
LEMMA TellStep == ASSUME Shapes, PartBroadcasts PROVE PartTell /\ clock' \in Nat
<1>1. /\ mode \in {"flush", "stop"} /\ server = <<>> /\ UNCHANGED <<mode, pollqueue, clock>>
      /\ CoordSame /\ pcP = "broadcast" /\ pcP' = "broadcast"
      /\ UNCHANGED <<cacheP, queueP>>
  BY DEF PartBroadcasts, Processing, Waiting, coord, CoordSame, Part!Broadcast
<1>2. PICK n \in targetsP : /\ Part!Push(n, normP, kobjP.rid, Part!NormalizedBundle)
                            /\ targetsP' = targetsP \ {n} /\ UNCHANGED <<pcP, kobjP, normP>>
  BY <1>1 DEF PartBroadcasts, Part!Broadcast, Part!Abort, Part!Stop
<1>3. n = c /\ targetsP = {c}
  BY DEF Shapes, HeldP, Held
<1>4. /\ kobjP.source = None /\ kobjP.event # "FORGET" /\ normP # "FORGET" /\ normP \in Events
      /\ kobjP.rid \in EdgeRids /\ kobjP.version \in Versions
  <2>1. kobjP.source = None /\ kobjP.event # "FORGET"
    BY <1>1, <1>3, Names DEF Shapes, HeldP, Rids
  <2>2. kobjP.rid # c
    BY <2>1, <1>1, InProcess, Objects, Names DEF Rids
  <2> QED BY <2>1, <2>2, <1>1, InProcess DEF Shapes, HeldP, Held, Normed, Past
<1> DEFINE e == [node |-> c, event |-> normP, rid |-> kobjP.rid, version |-> kobjP.version]
<1>5. pushedP' = e
  BY <1>2, <1>3, <1>4 DEF Part!Push, Part!NormalizedBundle
<1>6. e \in ToCoord /\ e.rid = kobjP.rid
  BY <1>4, Values DEF ToCoord, EdgeEvents
<1> HIDE DEF e
<1>7. KnownToCoord(<<e>>) <=> cacheC[p] # None
  <2>1. ~Introduces(<<e>>, p)
    BY <1>4, <1>6, Names DEF Introduces
  <2> QED BY <2>1 DEF KnownToCoord
<1>8. server' = IF cacheC[p] # None THEN <<e>> ELSE Handshake
  BY <1>5, <1>7 DEF PartBroadcasts, Send
<1> QED BY <1>1, <1>2, <1>3, <1>6, <1>8 DEF PartTell, AtWork, Shapes, Underway

LEMMA UnknownToCoord == ~KnownToCoord(<<>>) <=> cacheC[p] = None
<1>1. ~Introduces(<<>>, p)
  BY DEF Introduces
<1> QED BY <1>1 DEF KnownToCoord

LEMMA PartSteps ==
    ASSUME Shapes, Partial
    PROVE  (PartStep \/ MainStep) /\ clock' \in Nat
<1> USE DEF coord, part, workP, CoordSame, WorkerSame
<1>c. clock \in Nat
  BY DEF Shapes, Underway
<1>1. CASE Start
  <2>1. graphP' # {} => \E e \in EdgeRids : cacheP[e] # None
    BY <1>1, Names DEF Start, Part!CachedEdges
  <2>2. Begins
    BY <1>1, <2>1 DEF Start, Waiting, Begins
  <2> QED BY <2>2, <1>1, <1>c DEF Start, MainStep
<1>2. CASE PollRefused
  <2>1. ShakesAgain
    BY <1>2, UnknownToCoord DEF PollRefused, CanPoll, Waiting, Send, ShakesAgain
  <2> QED BY <2>1, <1>2, <1>c DEF PollRefused, MainStep
<1>3. CASE Poll
  <2>1. queueP' = queueP \o [i \in DOMAIN pollqueue |-> Received(pollqueue[i])]
    BY <1>3 DEF Poll, Part!Handle, Received
  <2>2. Polls
    BY <1>3, <2>1, UnknownToCoord DEF Poll, CanPoll, Waiting, Polls
  <2> QED BY <2>2, <1>3, <1>c DEF Poll, MainStep
<1>4. CASE PollFails
  <2>1. PollLost
    BY <1>4 DEF PollFails, CanPoll, Waiting, PollLost
  <2> QED BY <2>1, <1>4, <1>c DEF PollFails, MainStep
<1>5. CASE PartWorks
  BY <1>5, WorkerSteps
<1>6. CASE PartBroadcasts
  BY <1>6, TellStep DEF PartStep
<1>7. CASE PartCatchesUp
  <2>1. pcP = "catchup" /\ pcP' = "filter" /\ UNCHANGED <<cacheP, kobjP, normP, targetsP, clock>>
    BY <1>7 DEF PartCatchesUp, Part!CatchUp, Part!Abort, Part!Stop, Part!Goto
  <2>2. targetsP = {}
    BY <2>1 DEF Shapes, HeldP, Held
  <2>3. PartGoOn
    BY <1>7, <2>1, <2>2 DEF PartCatchesUp, Processing, Waiting, PartGoOn, AtWork
  <2> QED BY <2>1, <2>3, <1>c DEF PartStep
<1>8. CASE CatchUpRefused
  <2>1. pcP = "catchup" /\ pcP' = "idle" /\ targetsP' = {} /\ UNCHANGED <<cacheP, queueP, clock>>
    BY <1>8 DEF CatchUpRefused, Part!CatchUp, Part!Abort, Part!Stop, Part!Goto
  <2>2. ShakesAgain
    BY <1>8, <2>1, UnknownToCoord DEF CatchUpRefused, Processing, Waiting, Send, ShakesAgain
  <2> QED BY <2>1, <2>2, <1>c DEF MainStep
<1>9. CASE Flushed
  <2>1. Emptied
    BY <1>9 DEF Flushed, Processing, Part!Quiet, Emptied
  <2> QED BY <2>1, <1>9, <1>c DEF Flushed, MainStep
<1> QED BY <1>1, <1>2, <1>3, <1>4, <1>5, <1>6, <1>7, <1>8, <1>9 DEF Partial

LEMMA EveryStep ==
    ASSUME Shapes, [Next]_vars
    PROVE  (CoordStep \/ PartStep \/ MainStep \/ Puts \/ Still) /\ clock' \in Nat
<1>c. clock \in Nat
  BY DEF Shapes, Underway
<1>1. CASE ServerPuts
  <2>1. Head(server) = server[1]
    BY <1>1 DEF ServerPuts, Waiting, Shapes, Underway, Handshake
  <2>2. Puts
    BY <1>1, <2>1 DEF ServerPuts, Waiting, Coord!Handle, Puts, PartSame, part, workP
  <2> QED BY <2>2, <1>1, <1>c DEF ServerPuts
<1>2. CASE Crash \/ Restart
  <2>1. Loses
    BY <1>2 DEF Crash, Restart, MemoryIsLost, Loses, coord, CoordSame
  <2> QED BY <2>1, <1>2, <1>c DEF Crash, Restart, MainStep
<1>3. CASE UNCHANGED vars
  BY <1>3, <1>c DEF vars, coord, part, workP, Still, CoordSame, PartSame
<1> QED BY <1>1, <1>2, <1>3, CoordSteps, PartSteps DEF Next

-----------------------------------------------------------------------------
(* The shapes are kept.                                                     *)

LEMMA ShapesInit == Init => Shapes
<1> SUFFICES ASSUME Init PROVE Shapes
  OBVIOUS
<1>1. Underway
  BY DEF Init, Underway
<1>2. Caches
  BY Names, Values DEF Init, Caches, Fresh, Rids
<1>3. HeldC /\ HeldP
  BY DEF Init, HeldC, HeldP, Held
<1> QED BY <1>1, <1>2, <1>3 DEF Shapes

LEMMA CoordUnderway ==
    ASSUME Shapes, CoordStep, clock' \in Nat
    PROVE  Underway'
<1>1. queueC' \in Seq(CoordObjects)
  <2>1. queueC \in Seq(CoordObjects) /\ EdgeObjects(p) \subseteq CoordObjects
    BY DEF Shapes, Underway, CoordObjects
  <2>2. CASE UNCHANGED queueC
    BY <2>1, <2>2
  <2>3. CASE CoordTake
    BY <2>1, <2>3, FirstOf DEF CoordTake
  <2>4. CASE CoordApprove
    BY <2>1, <2>4, Joined DEF CoordApprove
  <2>5. CASE CoordShake
    <3>1. PICK b \in EdgeObjects(p), f \in EdgeObjects(p) : queueC' = queueC \o <<f, b>>
      BY <2>5 DEF CoordShake
    <3>2. <<f, b>> \in Seq(CoordObjects)
      BY <2>1
    <3> QED BY <2>1, <3>1, <3>2, Joined
  <2>6. CASE CoordFinal
    <3>1. PICK s \in Seq({k \in EdgeObjects(p) : k.event = "FORGET" /\ k.source = None}) :
             queueC' = queueC \o s
      BY <2>6 DEF CoordFinal
    <3>2. s \in Seq(CoordObjects)
      BY <2>1
    <3> QED BY <2>1, <3>1, <3>2, Joined
  <2> QED BY <2>2, <2>3, <2>4, <2>5, <2>6
          DEF CoordStep, CoordDrop, CoordAttach, CoordCheck, CoordGoOn, CoordWrite, CoordTell
<1>2. pollqueue' \in Seq(ToPart)
  <2>1. pollqueue \in Seq(ToPart)
    BY DEF Shapes, Underway
  <2>2. CASE CoordShake
    BY <2>1, <2>2, AppendProperties DEF CoordShake, ToPart
  <2>3. CASE CoordTell
    <3>1. Told \in ToPart
      <4>1. /\ pcC = "broadcast" /\ normC \in Events /\ kobjC.version # None
            /\ normC = "FORGET" <=> kobjC.event = "FORGET"
        BY <2>3 DEF CoordTell, Shapes, HeldC, Held, Normed, Past
      <4>2. CASE kobjC.rid = p
        <5>1. normC # "FORGET" => kobjC.version = Profile(p)
          BY <4>1, <4>2, InProcess, Objects
        <5> QED BY <4>1, <4>2, <5>1 DEF Told, ToPart
      <4>3. CASE kobjC.rid # p
        <5>1. kobjC.rid \in EdgeRids /\ kobjC.version \in Versions
          BY <4>1, <4>3 DEF Shapes, HeldC, Held
        <5> QED BY <4>1, <5>1, Values DEF Told, ToPart, EdgeEvents
      <4> QED BY <4>2, <4>3
    <3> QED BY <2>1, <2>3, <3>1, AppendProperties DEF CoordTell
  <2> QED BY <2>1, <2>2, <2>3
          DEF CoordStep, CoordTake, CoordDrop, CoordAttach, CoordCheck, CoordGoOn, CoordApprove,
              CoordWrite, CoordFinal
<1>3. server' = server /\ queueP' = queueP
  BY DEF CoordStep, CoordTake, CoordDrop, CoordAttach, CoordCheck, CoordGoOn, CoordApprove,
         CoordWrite, CoordShake, CoordTell, CoordFinal, PartSame
<1> QED BY <1>1, <1>2, <1>3 DEF Shapes, Underway

LEMMA CoordHeld ==
    ASSUME Shapes, CoordStep
    PROVE  HeldC' /\ Caches'
<1>h. /\ pcC \in {"idle", "forget", "manifest"} \union Normed /\ pcC \notin {"catchup", "filter"}
      /\ targetsC \subseteq {p} /\ (targetsC # {} => pcC = "broadcast")
      /\ pcC # "idle" =>
           /\ kobjC \in [rid : {p} \union EdgeRids, event : Events \union {None}, source : {p, None},
                         version : Versions \union {Profile(p), None}, full : BOOLEAN]
           /\ kobjC.event = "FORGET" <=> normC = "FORGET"
           /\ kobjC.rid = p => kobjC.event = "FORGET" \/ kobjC = N
           /\ kobjC.rid # p => kobjC.version \in Versions \/ pcC = "forget"
           /\ pcC = "forget" => kobjC.event = "FORGET"
           /\ pcC = "manifest" => kobjC.event # "FORGET" /\ kobjC.full
           /\ pcC \in Normed => normC \in Events /\ kobjC.version # None
           /\ pcC \in {"bundle", "write"} /\ kobjC = N => cacheC[p] = None
           /\ pcC \in Past => cacheC[kobjC.rid] = IF normC = "FORGET" THEN None ELSE kobjC.version
  BY DEF Shapes, HeldC, Held
<1>n. N.rid = p /\ N.event = "NEW" /\ N.version = Profile(p) /\ N.version # None
  BY Objects, Values
<1>s. /\ {"bundle", "write"} \subseteq Normed /\ Past \subseteq Normed /\ Normed = {"bundle", "write"} \union Past
      /\ "graph" \in Past /\ "network" \in Past /\ "broadcast" \in Past
      /\ "idle" \notin Normed /\ "forget" \notin Normed /\ "manifest" \notin Normed
      /\ "bundle" \notin Past /\ "write" \notin Past
  BY DEF Normed, Past
<1>1. CASE CoordTake
  <2>1. kobjC' \in CoordObjects
    BY <1>1, CoordHead DEF CoordTake
  <2>2. /\ kobjC' \in [rid : {p} \union EdgeRids, event : Events \union {None}, source : {p, None},
                       version : Versions \union {Profile(p), None}, full : BOOLEAN]
        /\ kobjC'.rid = p => kobjC'.event = "FORGET" \/ kobjC' = N
        /\ kobjC'.rid # p => kobjC'.version \in Versions \/ kobjC'.event = "FORGET"
        /\ kobjC'.event # "FORGET" => kobjC'.full
    <3>1. CASE kobjC' = F
      BY <3>1, Objects DEF Events
    <3>2. CASE kobjC' = N
      BY <3>2, Objects DEF Events
    <3>3. CASE kobjC' \in EdgeObjects(p)
      BY <3>3, Names DEF EdgeObjects
    <3> QED BY <2>1, <3>1, <3>2, <3>3 DEF CoordObjects
  <2>3. HeldC'
    <3>1. /\ pcC' \in {"forget", "manifest"} /\ (pcC' = "forget" <=> kobjC'.event = "FORGET")
          /\ normC' = (IF kobjC'.event = "FORGET" THEN "FORGET" ELSE None) /\ targetsC' = {}
      BY <1>1, <1>h DEF CoordTake
    <3>2. pcC' \notin Normed /\ pcC' \notin Past /\ pcC' \notin {"idle", "bundle", "write", "catchup", "filter"}
      BY <3>1, <1>s
    <3> QED BY <3>1, <3>2, <2>2, NoneIsNew DEF HeldC, Held
  <2> QED BY <2>3, <1>1 DEF CoordTake, PartSame, Shapes, Caches
<1>2. CASE CoordDrop \/ CoordFinal
  <2>1. pcC' = "idle" /\ targetsC' = {} /\ UNCHANGED <<cacheC, cacheP>>
    BY <1>2 DEF CoordDrop, CoordFinal, PartSame
  <2> QED BY <2>1 DEF HeldC, Held, Shapes, Caches
<1>3. CASE CoordAttach
  <2>1. /\ pcC' = "bundle" /\ UNCHANGED <<normC, targetsC, cacheC, cacheP>> /\ targetsC = {}
        /\ kobjC.event = "FORGET" /\ normC = "FORGET" /\ pcC # "idle"
        /\ kobjC' = [kobjC EXCEPT !.version = cacheC[kobjC.rid], !.full = TRUE]
    BY <1>3, <1>h DEF CoordAttach, PartSame
  <2>2. cacheC[kobjC.rid] \in Versions \union {Profile(p)} /\ (kobjC.rid # p => cacheC[kobjC.rid] \in Versions)
    BY <1>3, <1>h, <2>1, NoneIsNew DEF CoordAttach, Shapes, Caches
  <2>3. /\ kobjC' \in [rid : {p} \union EdgeRids, event : Events \union {None}, source : {p, None},
                       version : Versions \union {Profile(p), None}, full : BOOLEAN]
        /\ kobjC'.event = "FORGET" /\ kobjC'.version # None /\ kobjC'.rid = kobjC.rid
        /\ kobjC'.rid # p => kobjC'.version \in Versions
    BY <1>h, <2>1, <2>2, NoneIsNew
  <2>4. pcC' \in Normed /\ pcC' \notin Past /\ pcC' \notin {"idle", "forget", "manifest", "catchup", "filter"}
    BY <2>1, <1>s
  <2>5. kobjC' # N /\ normC' \in Events
    BY <2>1, <2>3, <1>n DEF Events
  <2>6. HeldC'
    BY <2>1, <2>3, <2>4, <2>5 DEF HeldC, Held
  <2> QED BY <2>1, <2>6 DEF Shapes, Caches
<1>4. CASE CoordCheck
  <2>1. /\ pcC = "manifest" /\ pcC' = "bundle" /\ UNCHANGED <<kobjC, targetsC, cacheC, cacheP>>
        /\ kobjC.rid = p => cacheC[p] = None
        /\ normC' \in {"NEW", "UPDATE"} /\ targetsC = {}
    BY <1>4, <1>h DEF CoordCheck, PartSame
  <2>2. pcC' \in Normed /\ pcC' \notin Past /\ pcC' \notin {"idle", "forget", "manifest", "catchup", "filter"}
    BY <2>1, <1>s
  <2>3. normC' \in Events /\ normC' # "FORGET" /\ kobjC.event # "FORGET" /\ pcC # "idle" /\ pcC # "forget"
    BY <2>1, <1>h DEF Events
  <2>4. kobjC.version # None /\ (kobjC = N => cacheC[p] = None)
    BY <2>1, <2>3, <1>h, <1>n, NoneIsNew
  <2>5. HeldC'
    BY <2>1, <2>2, <2>3, <2>4, <1>h DEF HeldC, Held
  <2> QED BY <2>1, <2>5 DEF Shapes, Caches
<1>5. CASE CoordGoOn \/ CoordApprove \/ CoordShake
  <2>1. /\ \/ pcC = "bundle" /\ pcC' = "write"
           \/ pcC = "graph" /\ pcC' = "network"
           \/ pcC = "network" /\ pcC' = "broadcast"
        /\ UNCHANGED <<kobjC, normC, cacheC, cacheP>> /\ targetsC' \subseteq {p}
        /\ pcC' # "broadcast" => targetsC' = targetsC
    <3>1. CASE CoordGoOn
      BY <3>1 DEF CoordGoOn, PartSame
    <3>2. CASE CoordApprove
      BY <3>2, <1>h DEF CoordApprove, PartSame
    <3>3. CASE CoordShake
      BY <3>3 DEF CoordShake, PartSame
    <3> QED BY <1>5, <3>1, <3>2, <3>3
  <2>2. /\ pcC \in Normed /\ pcC' \in Normed /\ (pcC' \in Past <=> pcC \in Past)
        /\ pcC \notin {"idle", "forget", "manifest"}
        /\ pcC' \notin {"idle", "forget", "manifest", "catchup", "filter"}
        /\ (pcC' \in {"bundle", "write"} => pcC \in {"bundle", "write"})
    BY <2>1 DEF Normed, Past
  <2>3. targetsC' # {} => pcC' = "broadcast"
    BY <2>1, <1>h
  <2>4. HeldC'
    BY <2>1, <2>2, <2>3, <1>h DEF HeldC, Held
  <2> QED BY <2>1, <2>4 DEF Shapes, Caches
<1>6. CASE CoordWrite
  <2>1. /\ pcC = "write" /\ pcC' = "graph" /\ UNCHANGED <<kobjC, normC, targetsC, cacheP>> /\ targetsC = {}
        /\ cacheC' = [cacheC EXCEPT ![kobjC.rid] = IF normC = "FORGET" THEN None ELSE kobjC.version]
    BY <1>6, <1>h DEF CoordWrite, PartSame
  <2>2. /\ pcC \in Normed /\ pcC' \in Past /\ pcC' \in Normed
        /\ pcC \notin {"idle", "forget", "manifest"}
        /\ pcC' \notin {"idle", "forget", "manifest", "catchup", "filter", "bundle", "write"}
    BY <2>1, <1>s
  <2>3. /\ kobjC.rid \in {p} \union EdgeRids /\ kobjC.rid \in Rids /\ kobjC.rid # c
        /\ kobjC.rid # p => kobjC.version \in Versions
        /\ kobjC.rid = p => normC = "FORGET" \/ kobjC.version = Profile(p)
    BY <2>2, <1>h, <1>n, Names
  <2>4. /\ cacheC' \in [Rids -> Versions \union {Profile(c), Profile(p), None}]
        /\ cacheC'[kobjC.rid] = (IF normC = "FORGET" THEN None ELSE kobjC.version)
        /\ \A r \in Rids : r # kobjC.rid => cacheC'[r] = cacheC[r]
    BY <2>1, <2>3 DEF Shapes, Caches
  <2>5. Caches'
    BY <2>1, <2>3, <2>4, Names DEF Shapes, Caches
  <2>6. HeldC'
    BY <2>1, <2>2, <2>4, <1>h DEF HeldC, Held
  <2> QED BY <2>5, <2>6
<1>7. CASE CoordTell
  <2>1. /\ pcC = "broadcast" /\ UNCHANGED <<pcC, kobjC, normC, cacheC, cacheP>>
        /\ targetsC' \subseteq targetsC
    BY <1>7 DEF CoordTell, PartSame
  <2>2. HeldC'
    <3>1. targetsC' \subseteq {p} /\ (targetsC' # {} => pcC' = "broadcast")
      BY <2>1, <1>h
    <3> QED BY <2>1, <3>1, <1>h DEF HeldC, Held
  <2> QED BY <2>1, <2>2 DEF Shapes, Caches
<1> QED BY <1>1, <1>2, <1>3, <1>4, <1>5, <1>6, <1>7 DEF CoordStep

LEMMA PartUnderway ==
    ASSUME Shapes, PartStep, clock' \in Nat
    PROVE  Underway'
<1>1. queueP' \in Seq(PartObjects)
  <2>1. queueP \in Seq(PartObjects)
    BY DEF Shapes, Underway
  <2>2. ASSUME NEW k \in EdgeObjects(c), k.event # "FORGET" PROVE <<k>> \in Seq(PartObjects)
    <3>1. k \in PartObjects
      BY <2>2 DEF PartObjects
    <3> QED BY <3>1
  <2>3. CASE UNCHANGED queueP
    BY <2>1, <2>3
  <2>4. CASE PartTake \/ PartSkip
    BY <2>1, <2>4, FirstOf DEF PartTake, PartSkip
  <2>5. CASE PartApprove \/ PartPropose
    <3>1. PICK k \in EdgeObjects(c) : k.event # "FORGET" /\ queueP' = queueP \o <<k>>
      BY <2>5, NoneIsNew DEF PartApprove, PartPropose
    <3> QED BY <2>1, <2>2, <3>1, Joined
  <2> QED BY <2>3, <2>4, <2>5
          DEF PartStep, PartDrop, PartAttach, PartCheck, PartGoOn, PartWrite, PartTell, PartFinal
<1>2. pollqueue' = pollqueue /\ queueC' = queueC /\ server = <<>>
  BY DEF PartStep, PartTake, PartSkip, PartDrop, PartAttach, PartCheck, PartGoOn, PartApprove,
         PartWrite, PartPropose, PartTell, PartFinal, AtWork, CoordSame
<1>3. \/ server' \in {<<>>, Handshake}
      \/ server' = <<server'[1]>> /\ server'[1] \in ToCoord
  <2>1. CASE PartTell
    BY <2>1 DEF PartTell
  <2>2. CASE UNCHANGED server
    BY <1>2, <2>2
  <2> QED BY <2>1, <2>2
          DEF PartStep, PartTake, PartSkip, PartDrop, PartAttach, PartCheck, PartGoOn, PartApprove,
              PartWrite, PartPropose, PartFinal
<1> QED BY <1>1, <1>2, <1>3 DEF Shapes, Underway, Handshake, NodeEvent

LEMMA PartHeld ==
    ASSUME Shapes, PartStep
    PROVE  HeldP' /\ Caches'
<1>c. UNCHANGED <<cacheC, pcC, kobjC, normC, targetsC>>
  BY DEF PartStep, PartTake, PartSkip, PartDrop, PartAttach, PartCheck, PartGoOn, PartApprove,
         PartWrite, PartPropose, PartTell, PartFinal, AtWork, CoordSame
<1>h. /\ pcP \in {"idle", "forget", "manifest"} \union Normed
      /\ targetsP \subseteq {c} /\ (targetsP # {} => pcP = "broadcast")
      /\ pcP # "idle" =>
           /\ kobjP \in [rid : {c} \union EdgeRids, event : Events \union {None}, source : {c, None},
                         version : Versions \union {Profile(c), None}, full : BOOLEAN]
           /\ kobjP.event = "FORGET" <=> normP = "FORGET"
           /\ kobjP.rid = c => kobjP = M
           /\ kobjP.rid # c => kobjP.version \in Versions \/ pcP = "forget"
           /\ pcP = "forget" => kobjP.event = "FORGET"
           /\ pcP = "manifest" => kobjP.event # "FORGET" /\ kobjP.full
           /\ pcP \in Normed => normP \in Events /\ kobjP.version # None
           /\ pcP \in {"bundle", "write"} /\ kobjP = M => cacheP[c] = None
           /\ pcP \in Past => cacheP[kobjP.rid] = IF normP = "FORGET" THEN None ELSE kobjP.version
           /\ kobjP.event = "FORGET" => kobjP.source = c /\ kobjP.rid # c
           /\ pcP \in {"catchup", "filter"} => kobjP = M
           /\ targetsP # {} => kobjP.source = None
  BY DEF Shapes, HeldP, Held
<1>n. M.rid = c /\ M.event = "NEW" /\ M.version = Profile(c) /\ M.version # None
  BY Objects, Values
<1>s. /\ {"bundle", "write"} \subseteq Normed /\ Past \subseteq Normed /\ Normed = {"bundle", "write"} \union Past
      /\ "graph" \in Past /\ "network" \in Past /\ "broadcast" \in Past
      /\ "catchup" \in Past /\ "filter" \in Past
      /\ "idle" \notin Normed /\ "forget" \notin Normed /\ "manifest" \notin Normed
      /\ "bundle" \notin Past /\ "write" \notin Past
  BY DEF Normed, Past
<1>1. CASE PartTake
  <2>1. kobjP' \in PartObjects /\ kobjP'.rid # p
    BY <1>1, PartHead DEF PartTake
  <2>2. /\ kobjP' \in [rid : {c} \union EdgeRids, event : Events \union {None}, source : {c, None},
                       version : Versions \union {Profile(c), None}, full : BOOLEAN]
        /\ kobjP'.rid = c => kobjP' = M
        /\ kobjP'.rid # c => kobjP'.version \in Versions \/ kobjP'.event = "FORGET"
        /\ kobjP'.event # "FORGET" => kobjP'.full
        /\ kobjP'.event = "FORGET" => kobjP'.source = c /\ kobjP'.rid # c
    <3>1. CASE kobjP' = M
      BY <3>1, Objects DEF Events
    <3>2. CASE kobjP' \in {k \in EdgeObjects(c) : k.event = "FORGET" => k.source = c}
      BY <3>2, Names DEF EdgeObjects
    <3> QED BY <2>1, <3>1, <3>2 DEF PartObjects, AboutPart
  <2>3. HeldP'
    <3>1. /\ pcP' \in {"forget", "manifest"} /\ (pcP' = "forget" <=> kobjP'.event = "FORGET")
          /\ normP' = (IF kobjP'.event = "FORGET" THEN "FORGET" ELSE None) /\ targetsP' = {}
      BY <1>1, <1>h DEF PartTake
    <3>2. pcP' \notin Normed /\ pcP' \notin Past /\ pcP' \notin {"idle", "bundle", "write", "catchup", "filter"}
      BY <3>1, <1>s
    <3> QED BY <3>1, <3>2, <2>2, NoneIsNew DEF HeldP, Held
  <2> QED BY <2>3, <1>1, <1>c DEF PartTake, Shapes, Caches
<1>2. CASE PartSkip \/ PartDrop \/ PartFinal
  <2>1. pcP' = "idle" /\ targetsP' = {} /\ UNCHANGED cacheP
    BY <1>2 DEF PartSkip, PartDrop, PartFinal
  <2> QED BY <2>1, <1>c DEF HeldP, Held, Shapes, Caches
<1>3. CASE PartAttach
  <2>1. /\ pcP' = "bundle" /\ UNCHANGED <<normP, targetsP, cacheP>> /\ targetsP = {}
        /\ kobjP.event = "FORGET" /\ normP = "FORGET" /\ pcP # "idle"
        /\ kobjP' = [kobjP EXCEPT !.version = cacheP[kobjP.rid], !.full = TRUE]
    BY <1>3, <1>h DEF PartAttach
  <2>2. kobjP.rid \in EdgeRids /\ cacheP[kobjP.rid] \in Versions
    BY <1>3, <1>h, <2>1, NoneIsNew DEF PartAttach, Shapes, Caches
  <2>3. /\ kobjP' \in [rid : {c} \union EdgeRids, event : Events \union {None}, source : {c, None},
                       version : Versions \union {Profile(c), None}, full : BOOLEAN]
        /\ kobjP'.event = "FORGET" /\ kobjP'.version # None /\ kobjP'.rid # c /\ kobjP'.source = c
        /\ kobjP'.version \in Versions
    BY <1>h, <2>1, <2>2, NoneIsNew
  <2>4. pcP' \in Normed /\ pcP' \notin Past /\ pcP' \notin {"idle", "forget", "manifest", "catchup", "filter"}
    BY <2>1, <1>s
  <2>5. kobjP' # M /\ normP' \in Events
    BY <2>1, <2>3, <1>n DEF Events
  <2>6. HeldP'
    BY <2>1, <2>3, <2>4, <2>5 DEF HeldP, Held
  <2> QED BY <2>1, <2>6, <1>c DEF Shapes, Caches
<1>4. CASE PartCheck
  <2>1. /\ pcP = "manifest" /\ pcP' = "bundle" /\ UNCHANGED <<kobjP, targetsP, cacheP>>
        /\ kobjP.rid = c => cacheP[c] = None
        /\ normP' \in {"NEW", "UPDATE"} /\ targetsP = {}
    BY <1>4, <1>h DEF PartCheck
  <2>2. pcP' \in Normed /\ pcP' \notin Past /\ pcP' \notin {"idle", "forget", "manifest", "catchup", "filter"}
    BY <2>1, <1>s
  <2>3. normP' \in Events /\ normP' # "FORGET" /\ kobjP.event # "FORGET" /\ pcP # "idle" /\ pcP # "forget"
    BY <2>1, <1>h DEF Events
  <2>4. kobjP.version # None /\ (kobjP = M => cacheP[c] = None)
    BY <2>1, <2>3, <1>h, <1>n, NoneIsNew
  <2>5. HeldP'
    BY <2>1, <2>2, <2>3, <2>4, <1>h DEF HeldP, Held
  <2> QED BY <2>1, <2>5, <1>c DEF Shapes, Caches
<1>5. CASE PartGoOn \/ PartApprove \/ PartPropose
  <2>1. /\ \/ pcP = "bundle" /\ pcP' = "write"
           \/ pcP = "graph" /\ pcP' = "network"
           \/ pcP = "network" /\ pcP' = "catchup" /\ kobjP = M
           \/ pcP = "catchup" /\ pcP' = "filter"
           \/ pcP \in {"network", "filter"} /\ pcP' = "broadcast"
        /\ UNCHANGED <<kobjP, normP, cacheP>> /\ targetsP' \subseteq {c}
        /\ pcP' # "broadcast" => targetsP' = targetsP
        /\ targetsP' # {} => kobjP.source = None
    <3>1. CASE PartGoOn
      BY <3>1 DEF PartGoOn
    <3>2. CASE PartApprove
      BY <3>2, <1>h DEF PartApprove
    <3>3. CASE PartPropose
      BY <3>3, <1>h DEF PartPropose
    <3> QED BY <1>5, <3>1, <3>2, <3>3
  <2>2. /\ pcP \in Normed /\ pcP' \in Normed /\ (pcP' \in Past <=> pcP \in Past)
        /\ pcP \notin {"idle", "forget", "manifest"}
        /\ pcP' \notin {"idle", "forget", "manifest"}
        /\ (pcP' \in {"bundle", "write"} => pcP \in {"bundle", "write"})
    BY <2>1 DEF Normed, Past
  <2>3. targetsP' # {} => pcP' = "broadcast"
    BY <2>1, <1>h
  <2>4. pcP' \in {"catchup", "filter"} => kobjP = M
    BY <2>1, <1>h
  <2>5. HeldP'
    BY <2>1, <2>2, <2>3, <2>4, <1>h DEF HeldP, Held
  <2> QED BY <2>1, <2>5, <1>c DEF Shapes, Caches
<1>6. CASE PartWrite
  <2>1. /\ pcP = "write" /\ pcP' = "graph" /\ UNCHANGED <<kobjP, normP, targetsP>> /\ targetsP = {}
        /\ cacheP' = [cacheP EXCEPT ![kobjP.rid] = IF normP = "FORGET" THEN None ELSE kobjP.version]
    BY <1>6, <1>h DEF PartWrite
  <2>2. /\ pcP \in Normed /\ pcP' \in Past /\ pcP' \in Normed
        /\ pcP \notin {"idle", "forget", "manifest"}
        /\ pcP' \notin {"idle", "forget", "manifest", "catchup", "filter", "bundle", "write"}
    BY <2>1, <1>s
  <2>3. /\ kobjP.rid \in {c} \union EdgeRids /\ kobjP.rid \in Rids /\ kobjP.rid # p
        /\ kobjP.rid # c => kobjP.version \in Versions
        /\ kobjP.rid = c => kobjP.version = Profile(c)
    BY <2>2, <1>h, <1>n, Names
  <2>4. /\ cacheP' \in [Rids -> Versions \union {Profile(c), Profile(p), None}]
        /\ cacheP'[kobjP.rid] = (IF normP = "FORGET" THEN None ELSE kobjP.version)
        /\ \A r \in Rids : r # kobjP.rid => cacheP'[r] = cacheP[r]
    BY <2>1, <2>3 DEF Shapes, Caches
  <2>5. Caches'
    BY <2>1, <2>3, <2>4, <1>c, Names DEF Shapes, Caches
  <2>6. HeldP'
    BY <2>1, <2>2, <2>4, <1>h DEF HeldP, Held
  <2> QED BY <2>5, <2>6
<1>7. CASE PartTell
  <2>1. /\ pcP = "broadcast" /\ UNCHANGED <<pcP, kobjP, normP, cacheP>> /\ targetsP' = {}
    BY <1>7 DEF PartTell
  <2>2. HeldP'
    BY <2>1, <1>h DEF HeldP, Held
  <2> QED BY <2>1, <2>2, <1>c DEF Shapes, Caches
<1> QED BY <1>1, <1>2, <1>3, <1>4, <1>5, <1>6, <1>7 DEF PartStep

(* An event that arrives becomes a knowledge object of the same shape.      *)
LEMMA Arrives ==
    /\ \A e \in ToPart : Received(e) \in PartObjects
    /\ \A e \in ToCoord : Coord!Knowledge(e.rid, e.event, p, e.version) \in CoordObjects
    /\ Received(NodeEvent(c, "NEW")) = M
    /\ Coord!Knowledge(p, "FORGET", p, None) = F
    /\ Coord!Knowledge(p, "NEW", p, Profile(p)) = N
<1>1. Received(NodeEvent(c, "NEW")) = M
  BY DEF Received, NodeEvent, M
<1>2. ASSUME NEW e \in EdgeEvents(p) PROVE Received(e) \in PartObjects
  <2>1. Received(e) \in EdgeObjects(c) /\ Received(e).source = c
    BY DEF EdgeEvents, EdgeObjects, Received, Part!Knowledge
  <2> QED BY <2>1 DEF PartObjects
<1>3. ASSUME NEW e \in [node : {p}, event : Events, rid : {p}, version : {Profile(p), None}]
      PROVE  Received(e) \in PartObjects
  <2>1. Received(e) \in AboutPart
    BY DEF AboutPart, Received, Part!Knowledge
  <2> QED BY <2>1 DEF PartObjects
<1>4. ASSUME NEW e \in ToCoord
      PROVE  Coord!Knowledge(e.rid, e.event, p, e.version) \in CoordObjects
  <2>1. Coord!Knowledge(e.rid, e.event, p, e.version) \in EdgeObjects(p)
    BY DEF ToCoord, EdgeEvents, EdgeObjects, Coord!Knowledge
  <2> QED BY <2>1 DEF CoordObjects
<1>5. M \in PartObjects
  BY DEF PartObjects
<1> QED BY <1>1, <1>2, <1>3, <1>4, <1>5 DEF ToPart, F, N

LEMMA ArrivesInOrder ==
    ASSUME Shapes
    PROVE  [i \in DOMAIN pollqueue |-> Received(pollqueue[i])] \in Seq(PartObjects)
<1> DEFINE s == [i \in DOMAIN pollqueue |-> Received(pollqueue[i])]
<1>1. pollqueue \in Seq(ToPart)
  BY DEF Shapes, Underway
<1>2. DOMAIN pollqueue = 1..Len(pollqueue) /\ Len(pollqueue) \in Nat
      /\ \A i \in DOMAIN pollqueue : pollqueue[i] \in ToPart
  BY <1>1, LenProperties, ElementOfSeq
<1>3. s \in [1..Len(pollqueue) -> PartObjects]
  BY <1>2, Arrives
<1> HIDE DEF s
<1>4. s \in Seq(PartObjects)
  BY <1>2, <1>3, SeqDef
<1> QED BY <1>4 DEF s

LEMMA PutsShapes ==
    ASSUME Shapes, Puts, clock' \in Nat
    PROVE  Shapes'
<1> DEFINE k == Coord!Knowledge(server[1].rid, server[1].event, p, server[1].version)
<1>1. k \in CoordObjects /\ (server' = <<>> \/ server' = <<NodeEvent(p, "NEW")>>)
  <2>1. CASE server = Handshake
    <3>1. server[1] = NodeEvent(p, "FORGET") /\ server' = <<NodeEvent(p, "NEW")>>
      BY <2>1 DEF Puts, Handshake
    <3>2. k = F
      BY <3>1, NoneIsNew DEF NodeEvent, F
    <3> QED BY <3>1, <3>2 DEF CoordObjects
  <2>2. CASE server = <<NodeEvent(p, "NEW")>>
    <3>1. server[1] = NodeEvent(p, "NEW") /\ server' = <<>>
      BY <2>2 DEF Puts
    <3>2. k = N
      BY <3>1 DEF NodeEvent, N
    <3> QED BY <3>1, <3>2 DEF CoordObjects
  <2>3. CASE server = <<server[1]>> /\ server[1] \in ToCoord
    <3>1. PICK e : e = server[1]
      OBVIOUS
    <3>2. e \in ToCoord /\ server = <<e>>
      BY <2>3, <3>1
    <3>3. server' = <<>>
      BY <3>2 DEF Puts
    <3> QED BY <3>1, <3>2, <3>3, Arrives
  <2> QED BY <2>1, <2>2, <2>3 DEF Shapes, Underway, Puts
<1>2. queueC' = queueC \o <<k>> /\ queueC \in Seq(CoordObjects)
  BY DEF Puts, Shapes, Underway
<1> HIDE DEF k
<1>3. queueC' \in Seq(CoordObjects)
  <2>1. <<k>> \in Seq(CoordObjects)
    BY <1>1
  <2> QED BY <1>2, <2>1, Joined
<1>4. Underway'
  BY <1>1, <1>3 DEF Puts, PartSame, Shapes, Underway, Handshake, NodeEvent
<1>5. (Caches /\ HeldC /\ HeldP)'
  BY DEF Puts, PartSame, Shapes, Caches, HeldC, HeldP, Held
<1> QED BY <1>4, <1>5 DEF Shapes

LEMMA MainShapes ==
    ASSUME Shapes, MainStep, clock' \in Nat
    PROVE  Shapes'
<1>1. UNCHANGED <<cacheC, cacheP, queueC, pcC, kobjC, normC, targetsC>>
  BY DEF MainStep, Begins, ShakesAgain, Polls, PollLost, Emptied, Loses, CoordSame
<1>2. \/ UNCHANGED <<pcP, kobjP, normP, targetsP>>
      \/ pcP' = "idle" /\ targetsP' = {}
  BY DEF MainStep, Begins, ShakesAgain, Polls, PollLost, Emptied, Loses, WorkerSame
<1>3. Caches' /\ HeldC'
  BY <1>1 DEF Shapes, Caches, HeldC, Held
<1>4. HeldP'
  BY <1>1, <1>2 DEF Shapes, HeldP, Held
<1>5. server' = Handshake \/ UNCHANGED server \/ server' = <<>>
  BY DEF MainStep, Begins, ShakesAgain, Polls, PollLost, Emptied, Loses
<1>6. pollqueue' \in {pollqueue, <<>>}
  BY DEF MainStep, Begins, ShakesAgain, Polls, PollLost, Emptied, Loses
<1>7. queueP' \in Seq(PartObjects)
  <2>1. queueP \in Seq(PartObjects)
    BY DEF Shapes, Underway
  <2>2. CASE queueP' = queueP \/ queueP' = <<>>
    BY <2>1, <2>2, EmptySeq
  <2>3. CASE Polls
    BY <2>1, <2>3, ArrivesInOrder, Joined DEF Polls
  <2> QED BY <2>2, <2>3 DEF MainStep, Begins, ShakesAgain, PollLost, Emptied, Loses, WorkerSame
<1>8. pollqueue' \in Seq(ToPart)
  BY <1>6, EmptySeq DEF Shapes, Underway
<1>9. \/ server' \in {<<>>, Handshake, <<NodeEvent(p, "NEW")>>}
      \/ server' = <<server'[1]>> /\ server'[1] \in ToCoord
  BY <1>5 DEF Shapes, Underway
<1>10. Underway'
  BY <1>1, <1>7, <1>8, <1>9 DEF Shapes, Underway, Handshake, NodeEvent
<1> QED BY <1>3, <1>4, <1>10 DEF Shapes

LEMMA ShapesStep == ASSUME Shapes, [Next]_vars PROVE Shapes'
<1>1. CASE CoordStep
  <2>1. HeldP'
    BY <1>1 DEF CoordStep, CoordTake, CoordDrop, CoordAttach, CoordCheck, CoordGoOn, CoordApprove,
                CoordWrite, CoordShake, CoordTell, CoordFinal, PartSame, Shapes, HeldP, Held
  <2> QED BY <1>1, <2>1, EveryStep, CoordUnderway, CoordHeld DEF Shapes
<1>2. CASE PartStep
  <2>1. HeldC'
    BY <1>2 DEF PartStep, PartTake, PartSkip, PartDrop, PartAttach, PartCheck, PartGoOn,
                PartApprove, PartWrite, PartPropose, PartTell, PartFinal, AtWork, CoordSame,
                Shapes, HeldC, Held
  <2> QED BY <1>2, <2>1, EveryStep, PartUnderway, PartHeld DEF Shapes
<1>3. CASE Still
  BY <1>3, EveryStep DEF Still, CoordSame, PartSame, Shapes, Underway, Caches, HeldC, HeldP, Held,
                         Handshake, NodeEvent
<1> QED BY <1>1, <1>2, <1>3, EveryStep, PutsShapes, MainShapes

-----------------------------------------------------------------------------
(* What a queue holds, and in which order.                                  *)

Holds(q, S) == \E i \in DOMAIN q : q[i] \in S
\* After every S there is a T.
Followed(q, S, T) == \A i \in DOMAIN q : q[i] \in S => \E j \in DOMAIN q : i < j /\ q[j] \in T
\* After no S there is a T.
Unfollowed(q, S, T) == \A i, j \in DOMAIN q : q[i] \in S /\ q[j] \in T => j <= i
Alone(q, S, T) == \A i, j \in DOMAIN q : q[i] \in S /\ q[j] \in T => i = j

LEMMA ShortQueues ==
    ASSUME NEW S, NEW T, NEW x, NEW y
    PROVE  /\ ~Holds(<<>>, S)
           /\ Holds(<<x>>, S) <=> x \in S
           /\ Holds(<<x, y>>, S) <=> x \in S \/ y \in S
           /\ Followed(<<>>, S, T) /\ Unfollowed(<<>>, S, T) /\ Alone(<<>>, S, T)
           /\ Followed(<<x>>, S, T) <=> x \notin S
           /\ Unfollowed(<<x>>, S, T) /\ Alone(<<x>>, S, T)
           /\ y \in T /\ y \notin S => Followed(<<x, y>>, S, T)
<1>1. /\ DOMAIN <<>> = {}
      /\ DOMAIN <<x>> = {1} /\ <<x>>[1] = x
      /\ DOMAIN <<x, y>> = {1, 2} /\ <<x, y>>[1] = x /\ <<x, y>>[2] = y
  OBVIOUS
<1>2. ~Holds(<<>>, S) /\ Followed(<<>>, S, T) /\ Unfollowed(<<>>, S, T) /\ Alone(<<>>, S, T)
  BY <1>1 DEF Holds, Followed, Unfollowed, Alone
<1>3. Holds(<<x>>, S) <=> x \in S
  BY <1>1 DEF Holds
<1>4. Holds(<<x, y>>, S) <=> x \in S \/ y \in S
  BY <1>1 DEF Holds
<1>5. Followed(<<x>>, S, T) <=> x \notin S
  BY <1>1 DEF Followed
<1>6. Unfollowed(<<x>>, S, T) /\ Alone(<<x>>, S, T)
  BY <1>1 DEF Unfollowed, Alone
<1>7. y \in T /\ y \notin S => Followed(<<x, y>>, S, T)
  BY <1>1 DEF Followed
<1> QED BY <1>2, <1>3, <1>4, <1>5, <1>6, <1>7

LEMMA TailQueue ==
    ASSUME NEW U, NEW q \in Seq(U), q # <<>>, NEW S, NEW T
    PROVE  /\ Holds(q, S) <=> Head(q) \in S \/ Holds(Tail(q), S)
           /\ Followed(q, S, T) => /\ Followed(Tail(q), S, T)
                                   /\ Head(q) \in S => Holds(Tail(q), T)
           /\ Unfollowed(q, S, T) => /\ Unfollowed(Tail(q), S, T)
                                     /\ Head(q) \in S => ~Holds(Tail(q), T)
           /\ Alone(q, S, T) => /\ Alone(Tail(q), S, T)
                                /\ Head(q) \in S => ~Holds(Tail(q), T)
                                /\ Head(q) \in T => ~Holds(Tail(q), S)
<1>1. PICK n \in Nat : n = Len(q) /\ n # 0 /\ DOMAIN q = 1..n
  BY FirstOf
<1>2. PICK h, t : h = Head(q) /\ t = Tail(q) /\ h = q[1]
  BY FirstOf
<1>3. DOMAIN t = 1..(n - 1) /\ \A i \in 1..(n - 1) : t[i] = q[i + 1]
  BY <1>1, <1>2, FirstOf
<1>4. \A i \in 1..n : i = 1 \/ (i - 1 \in 1..(n - 1) /\ q[i] = t[i - 1])
  BY <1>3
<1>5. \A i \in 1..(n - 1) : i + 1 \in 1..n
  OBVIOUS
<1>6. 1 \in 1..n
  BY <1>1
<1>7. Holds(q, S) <=> h \in S \/ Holds(t, S)
  BY <1>1, <1>2, <1>3, <1>4, <1>5, <1>6 DEF Holds
<1>8. ASSUME Followed(q, S, T) PROVE Followed(t, S, T) /\ (h \in S => Holds(t, T))
  <2>1. ASSUME NEW i \in 1..(n - 1), t[i] \in S PROVE \E j \in 1..(n - 1) : i < j /\ t[j] \in T
    <3>1. PICK j \in 1..n : i + 1 < j /\ q[j] \in T
      BY <1>1, <1>3, <1>5, <1>8, <2>1 DEF Followed
    <3>2. j - 1 \in 1..(n - 1) /\ i < j - 1 /\ t[j - 1] \in T
      BY <1>4, <3>1
    <3> QED BY <3>2
  <2>2. ASSUME h \in S PROVE \E j \in 1..(n - 1) : t[j] \in T
    <3>1. PICK j \in 1..n : 1 < j /\ q[j] \in T
      BY <1>1, <1>2, <1>6, <1>8, <2>2 DEF Followed
    <3> QED BY <1>4, <3>1
  <2> QED BY <1>3, <2>1, <2>2 DEF Followed, Holds
<1>9. ASSUME Unfollowed(q, S, T) PROVE Unfollowed(t, S, T) /\ (h \in S => ~Holds(t, T))
  <2>1. ASSUME NEW i \in 1..(n - 1), NEW j \in 1..(n - 1), t[i] \in S, t[j] \in T PROVE j <= i
    <3>1. j + 1 <= i + 1
      BY <1>1, <1>3, <1>5, <1>9, <2>1 DEF Unfollowed
    <3> QED BY <3>1
  <2>2. ASSUME h \in S, NEW j \in 1..(n - 1), t[j] \in T PROVE FALSE
    <3>1. j + 1 <= 1
      BY <1>1, <1>2, <1>3, <1>5, <1>6, <1>9, <2>2 DEF Unfollowed
    <3> QED BY <3>1
  <2> QED BY <1>3, <2>1, <2>2 DEF Unfollowed, Holds
<1>10. ASSUME Alone(q, S, T)
       PROVE  Alone(t, S, T) /\ (h \in S => ~Holds(t, T)) /\ (h \in T => ~Holds(t, S))
  <2>1. ASSUME NEW i \in 1..(n - 1), NEW j \in 1..(n - 1), t[i] \in S, t[j] \in T PROVE i = j
    <3>1. i + 1 = j + 1
      BY <1>1, <1>3, <1>5, <1>10, <2>1 DEF Alone
    <3> QED BY <3>1
  <2>2. ASSUME NEW j \in 1..(n - 1), (h \in S /\ t[j] \in T) \/ (h \in T /\ t[j] \in S) PROVE FALSE
    <3>1. j + 1 = 1
      BY <1>1, <1>2, <1>3, <1>5, <1>6, <1>10, <2>2 DEF Alone
    <3> QED BY <3>1
  <2> QED BY <1>3, <2>1, <2>2 DEF Alone, Holds
<1> QED BY <1>2, <1>7, <1>8, <1>9, <1>10

LEMMA JoinedQueues ==
    ASSUME NEW U, NEW q \in Seq(U), NEW s \in Seq(U), NEW S, NEW T
    PROVE  /\ Holds(q \o s, S) <=> Holds(q, S) \/ Holds(s, S)
           /\ (Followed(q, S, T) \/ Holds(s, T)) /\ Followed(s, S, T) => Followed(q \o s, S, T)
           /\ Unfollowed(q, S, T) /\ Unfollowed(s, S, T) /\ ~(Holds(q, S) /\ Holds(s, T))
                => Unfollowed(q \o s, S, T)
           /\ Alone(q, S, T) /\ Alone(s, S, T) /\ ~(Holds(q, S) /\ Holds(s, T))
              /\ ~(Holds(q, T) /\ Holds(s, S)) => Alone(q \o s, S, T)
<1>1. PICK m, n \in Nat : m = Len(q) /\ n = Len(s) /\ DOMAIN q = 1..m /\ DOMAIN s = 1..n
  BY Joined
<1>2. PICK r : r = q \o s
  OBVIOUS
<1>3. DOMAIN r = 1..(m + n) /\ (\A i \in 1..m : r[i] = q[i]) /\ (\A i \in 1..n : r[m + i] = s[i])
  BY <1>1, <1>2, Joined
<1>4. \A i \in 1..(m + n) : \/ i \in 1..m /\ r[i] = q[i]
                            \/ i - m \in 1..n /\ r[i] = s[i - m]
  <2>1. ASSUME NEW i \in 1..(m + n), i > m PROVE i - m \in 1..n /\ r[i] = s[i - m]
    <3>1. i - m \in 1..n /\ m + (i - m) = i
      BY <2>1
    <3> QED BY <1>3, <3>1
  <2> QED BY <1>3, <2>1
<1>5. (\A i \in 1..m : i \in 1..(m + n)) /\ (\A i \in 1..n : m + i \in 1..(m + n))
  OBVIOUS
<1>6. Holds(r, S) <=> Holds(q, S) \/ Holds(s, S)
  BY <1>1, <1>3, <1>4, <1>5 DEF Holds
<1>7. ASSUME Followed(q, S, T) \/ Holds(s, T), Followed(s, S, T) PROVE Followed(r, S, T)
  <2>1. ASSUME NEW i \in 1..(m + n), r[i] \in S PROVE \E j \in 1..(m + n) : i < j /\ r[j] \in T
    <3>1. CASE i - m \in 1..n /\ r[i] = s[i - m]
      <4>1. PICK j \in 1..n : i - m < j /\ s[j] \in T
        BY <1>1, <1>7, <2>1, <3>1 DEF Followed
      <4>2. m + j \in 1..(m + n) /\ i < m + j /\ r[m + j] \in T
        BY <1>3, <1>5, <4>1
      <4> QED BY <4>2
    <3>2. CASE i \in 1..m /\ r[i] = q[i] /\ Followed(q, S, T)
      <4>1. PICK j \in 1..m : i < j /\ q[j] \in T
        BY <1>1, <2>1, <3>2 DEF Followed
      <4> QED BY <1>3, <1>5, <4>1
    <3>3. CASE i \in 1..m /\ Holds(s, T)
      <4>1. PICK j \in 1..n : s[j] \in T
        BY <1>1, <3>3 DEF Holds
      <4>2. m + j \in 1..(m + n) /\ i < m + j /\ r[m + j] \in T
        BY <1>3, <1>5, <3>3, <4>1
      <4> QED BY <4>2
    <3> QED BY <1>4, <1>7, <3>1, <3>2, <3>3
  <2> QED BY <1>3, <2>1 DEF Followed
<1>8. ASSUME Unfollowed(q, S, T), Unfollowed(s, S, T), ~(Holds(q, S) /\ Holds(s, T))
      PROVE  Unfollowed(r, S, T)
  <2>1. ASSUME NEW i \in 1..(m + n), NEW j \in 1..(m + n), r[i] \in S, r[j] \in T PROVE j <= i
    <3>1. CASE i \in 1..m /\ r[i] = q[i] /\ j \in 1..m /\ r[j] = q[j]
      BY <1>1, <1>8, <2>1, <3>1 DEF Unfollowed
    <3>2. CASE i - m \in 1..n /\ r[i] = s[i - m] /\ j - m \in 1..n /\ r[j] = s[j - m]
      <4>1. j - m <= i - m
        BY <1>1, <1>8, <2>1, <3>2 DEF Unfollowed
      <4> QED BY <4>1
    <3>3. CASE i \in 1..m /\ r[i] = q[i] /\ j - m \in 1..n /\ r[j] = s[j - m]
      BY <1>1, <1>8, <2>1, <3>3 DEF Holds
    <3>4. CASE i - m \in 1..n /\ j \in 1..m
      BY <3>4
    <3> QED BY <1>4, <3>1, <3>2, <3>3, <3>4
  <2> QED BY <1>3, <2>1 DEF Unfollowed
<1>9. ASSUME Alone(q, S, T), Alone(s, S, T),
             ~(Holds(q, S) /\ Holds(s, T)), ~(Holds(q, T) /\ Holds(s, S))
      PROVE  Alone(r, S, T)
  <2>1. ASSUME NEW i \in 1..(m + n), NEW j \in 1..(m + n), r[i] \in S, r[j] \in T PROVE i = j
    <3>1. CASE i \in 1..m /\ r[i] = q[i] /\ j \in 1..m /\ r[j] = q[j]
      BY <1>1, <1>9, <2>1, <3>1 DEF Alone
    <3>2. CASE i - m \in 1..n /\ r[i] = s[i - m] /\ j - m \in 1..n /\ r[j] = s[j - m]
      <4>1. j - m = i - m
        BY <1>1, <1>9, <2>1, <3>2 DEF Alone
      <4> QED BY <4>1
    <3>3. CASE i \in 1..m /\ r[i] = q[i] /\ j - m \in 1..n /\ r[j] = s[j - m]
      BY <1>1, <1>9, <2>1, <3>3 DEF Holds
    <3>4. CASE i - m \in 1..n /\ r[i] = s[i - m] /\ j \in 1..m /\ r[j] = q[j]
      BY <1>1, <1>9, <2>1, <3>4 DEF Holds
    <3> QED BY <1>4, <3>1, <3>2, <3>3, <3>4
  <2> QED BY <1>3, <2>1 DEF Alone
<1> QED BY <1>2, <1>6, <1>7, <1>8, <1>9

(* How the two queues change.                                               *)

LEMMA Unqueued == \A S : \A q \in Seq(S) : q \o <<>> = q
  BY ConcatEmptySeq

LEMMA CoordQueues ==
    ASSUME Shapes, CoordStep
    PROVE  CoordTake \/ \E s \in Seq(EdgeObjects(p)) : queueC' = queueC \o s
<1>1. queueC \in Seq(CoordObjects)
  BY DEF Shapes, Underway
<1>2. CASE CoordApprove
  <2>1. PICK k \in EdgeObjects(p) : queueC' = queueC \o <<k>>
    BY <1>2 DEF CoordApprove
  <2>2. <<k>> \in Seq(EdgeObjects(p))
    OBVIOUS
  <2> QED BY <2>1, <2>2
<1>3. CASE CoordShake
  <2>1. PICK b \in EdgeObjects(p), f \in EdgeObjects(p) : queueC' = queueC \o <<f, b>>
    BY <1>3 DEF CoordShake
  <2>2. <<f, b>> \in Seq(EdgeObjects(p))
    OBVIOUS
  <2> QED BY <2>1, <2>2
<1>4. CASE CoordFinal
  <2>1. PICK s \in Seq({k \in EdgeObjects(p) : k.event = "FORGET" /\ k.source = None}) :
           queueC' = queueC \o s
    BY <1>4 DEF CoordFinal
  <2>2. s \in Seq(EdgeObjects(p))
    OBVIOUS
  <2> QED BY <2>1, <2>2
<1>5. CASE queueC' = queueC
  BY <1>1, <1>5, Unqueued, EmptySeq
<1> QED BY <1>2, <1>3, <1>4, <1>5
        DEF CoordStep, CoordDrop, CoordAttach, CoordCheck, CoordGoOn, CoordWrite, CoordTell

(* A node that is known stays known to the partial node, which never hears  *)
(* its coordinator's FORGET.                                                *)
LEMMA ContactKept ==
    ASSUME Shapes, [Next]_vars, cacheP'[c] = None
    PROVE  cacheP' = cacheP \/ (PartWrite /\ cacheP[c] = None /\ kobjP # M)
<1>1. CASE PartWrite
  <2>1. pcP \in Normed /\ pcP # "idle" /\ kobjP.rid \in {c} \union EdgeRids /\ (kobjP.rid = c => kobjP = M)
        /\ (kobjP.event = "FORGET" <=> normP = "FORGET")
    BY <1>1 DEF PartWrite, Shapes, HeldP, Held, Normed
  <2>2. cacheP \in [Rids -> Versions \union {Profile(c), Profile(p), None}]
    BY DEF Shapes, Caches
  <2>3. cacheP' = [cacheP EXCEPT ![kobjP.rid] = IF normP = "FORGET" THEN None ELSE kobjP.version]
    BY <1>1 DEF PartWrite
  <2>4. CASE kobjP = M
    <3>1. kobjP.rid = c /\ kobjP.event # "FORGET" /\ kobjP.version # None
      BY <2>4, Objects, Values
    <3> QED BY <2>1, <2>2, <2>3, <3>1, Names
  <2>5. CASE kobjP # M
    BY <1>1, <2>1, <2>2, <2>3, <2>5, Names
  <2> QED BY <2>4, <2>5
<1>2. CASE ~PartWrite
  BY <1>2, EveryStep DEF CoordStep, CoordTake, CoordDrop, CoordAttach, CoordCheck, CoordGoOn,
     CoordApprove, CoordWrite, CoordShake, CoordTell, CoordFinal, PartSame, PartStep, PartTake,
     PartSkip, PartDrop, PartAttach, PartCheck, PartGoOn, PartApprove, PartPropose, PartTell,
     PartFinal, MainStep, Begins, ShakesAgain, Polls, PollLost, Emptied, Loses, Puts, Still
<1> QED BY <1>1, <1>2

-----------------------------------------------------------------------------
(* As long as the partial node does not know the coordinator, no one knows  *)
(* an edge toward it, and the edge back is at most proposed.                *)

IsProposed(v) == v \in Versions /\ v.val.status = "PROPOSED"
BackAtMost(S) == {x \in S : x.rid = Back /\ (x.event = "FORGET" \/ IsProposed(x.version))}

CoordFirst == {F, N} \union BackAtMost({k \in EdgeObjects(p) : k.source = None})
PartFirst == {M} \union AboutPart
             \union BackAtMost({k \in EdgeObjects(c) : k.source = c /\ k.event \in Events})
ToPartFirst == {NodeEvent(c, "NEW")} \union BackAtMost(EdgeEvents(p))
               \union [node : {p}, event : Events, rid : {p}, version : {Profile(p), None}]

CoordEarly ==
    /\ queueC \in Seq(CoordFirst)
    /\ cacheC[Toward] = None /\ (cacheC[Back] = None \/ IsProposed(cacheC[Back]))
    /\ pcC # "idle" => /\ kobjC.rid \in {p, Back}
                       /\ kobjC.rid = Back => /\ kobjC.source = None
                                              /\ pcC = "forget" \/ IsProposed(kobjC.version)
PartEarly ==
    /\ queueP \in Seq(PartFirst) /\ pollqueue \in Seq(ToPartFirst)
    /\ server \in {<<>>, Handshake, <<NodeEvent(p, "NEW")>>}
    /\ cacheP[Toward] = None /\ cacheP[Back] = None
    /\ pcP \in {"idle", "forget", "manifest", "bundle", "write"}
    /\ pcP # "idle" => kobjP \in PartFirst
    /\ pcP = "bundle" => kobjP.event # "FORGET"
    /\ pcP = "write" => kobjP = M

Strangers == cacheP[c] = None => CoordEarly /\ PartEarly

LEMMA StrangersInit == Init => Strangers
<1> SUFFICES ASSUME Init PROVE Strangers
  OBVIOUS
<1>1. CoordEarly
  BY Names, EmptySeq DEF Init, CoordEarly, Fresh
<1>2. PartEarly
  BY Names, EmptySeq DEF Init, PartEarly, Fresh
<1> QED BY <1>1, <1>2 DEF Strangers

LEMMA CoordEarlySteps ==
    ASSUME Shapes, CoordEarly, PartEarly, CoordStep
    PROVE  CoordEarly' /\ PartEarly'
<1>h. /\ pcC # "idle" => kobjC.rid \in {p, Back} /\ (pcC # "forget" => kobjC.version # None)
      /\ pcC = "manifest" => kobjC.version # None
      /\ pcC \in Normed => normC \in Events
      /\ pcC # "idle" => (normC = "FORGET" <=> kobjC.event = "FORGET")
      /\ pcC # "idle" /\ kobjC.rid = p /\ kobjC.event # "FORGET" => kobjC = N
      /\ cacheC \in [Rids -> Versions \union {Profile(c), Profile(p), None}]
      /\ queueC \in Seq(CoordFirst) /\ pollqueue \in Seq(ToPartFirst)
      /\ "broadcast" \in Normed /\ "broadcast" \notin {"idle", "forget"}
  <2>1. pcC = "manifest" /\ kobjC.rid = p => kobjC.version # None
    BY Objects, Values DEF Shapes, HeldC, Held
  <2>2. pcC = "manifest" /\ kobjC.rid = Back => kobjC.version # None
    BY Values, Names DEF CoordEarly, IsProposed
  <2>3. pcC # "idle" => kobjC.rid \in {p, Back}
    BY DEF CoordEarly
  <2>4. pcC \in Normed => normC \in Events /\ kobjC.version # None
    BY DEF Shapes, HeldC, Held, Normed, Past
  <2> QED BY <2>1, <2>2, <2>3, <2>4 DEF Shapes, HeldC, Held, Caches, CoordEarly, PartEarly, Normed, Past
<1>p. UNCHANGED <<queueP, server, cacheP, pcP, kobjP>>
  BY DEF CoordStep, CoordTake, CoordDrop, CoordAttach, CoordCheck, CoordGoOn, CoordApprove,
         CoordWrite, CoordShake, CoordTell, CoordFinal, PartSame
<1>q. PartEarly' <=> pollqueue' \in Seq(ToPartFirst)
  BY <1>p DEF PartEarly, Handshake, NodeEvent
<1>1. CASE CoordTake
  <2>1. Head(queueC) \in CoordFirst /\ Tail(queueC) \in Seq(CoordFirst) /\ queueC # <<>>
    BY <1>1, <1>h, FirstOf DEF CoordTake
  <2>2. /\ kobjC'.rid \in {p, Back}
        /\ kobjC'.rid = Back => kobjC'.source = None /\ (kobjC'.event = "FORGET" \/ IsProposed(kobjC'.version))
    <3>1. kobjC' \in CoordFirst
      BY <1>1, <2>1 DEF CoordTake
    <3>2. CASE kobjC' \in {F, N}
      BY <3>2, Names, Objects
    <3>3. CASE kobjC' \in BackAtMost({k \in EdgeObjects(p) : k.source = None})
      BY <3>3 DEF BackAtMost
    <3> QED BY <3>1, <3>2, <3>3 DEF CoordFirst
  <2>3. pcC' = "forget" <=> kobjC'.event = "FORGET"
    BY <1>1 DEF CoordTake
  <2>4. UNCHANGED <<cacheC, pollqueue>> /\ queueC' = Tail(queueC)
    BY <1>1 DEF CoordTake
  <2> QED BY <2>1, <2>2, <2>3, <2>4, <1>q, <1>h DEF CoordEarly
<1>2. CASE CoordDrop \/ CoordCheck \/ CoordGoOn \/ CoordTell
  <2>1. /\ UNCHANGED <<queueC, cacheC>>
        /\ \/ pcC' = "idle"
           \/ kobjC' = kobjC /\ pcC' # "forget" /\ pcC \notin {"idle", "forget"}
    BY <1>2 DEF CoordDrop, CoordCheck, CoordGoOn, CoordTell
  <2>2. pollqueue' \in Seq(ToPartFirst)
    <3>1. CASE CoordTell
      <4>1. pcC = "broadcast" /\ pollqueue' \in {pollqueue, Append(pollqueue, Told)}
        BY <3>1 DEF CoordTell
      <4>2. Told \in ToPartFirst
        <5>1. CASE kobjC.rid = p
          <6>1. normC # "FORGET" => kobjC.version = Profile(p)
            BY <5>1, <4>1, <1>h, Objects
          <6>2. Told \in [node : {p}, event : Events, rid : {p}, version : {Profile(p), None}]
            BY <5>1, <6>1, <4>1, <1>h DEF Told
          <6> QED BY <6>2 DEF ToPartFirst
        <5>2. CASE kobjC.rid = Back
          <6>1. IsProposed(kobjC.version)
            BY <5>2, <4>1, <1>h DEF CoordEarly
          <6>2. Told \in EdgeEvents(p)
            BY <5>2, <6>1, <4>1, <1>h, Values DEF Told, EdgeEvents, EdgeRids, IsProposed
          <6>3. Told \in BackAtMost(EdgeEvents(p))
            BY <5>2, <6>1, <6>2 DEF Told, BackAtMost
          <6> QED BY <6>3 DEF ToPartFirst
        <5> QED BY <5>1, <5>2, <4>1, <1>h
      <4>3. pollqueue \in Seq(ToPartFirst)
        BY <1>h
      <4>4. Append(pollqueue, Told) \in Seq(ToPartFirst)
        BY <4>2, <4>3, AppendProperties
      <4> QED BY <4>1, <4>3, <4>4
    <3>2. CASE UNCHANGED pollqueue
      BY <3>2, <1>h
    <3> QED BY <1>2, <3>1, <3>2 DEF CoordDrop, CoordCheck, CoordGoOn
  <2> QED BY <2>1, <2>2, <1>q DEF CoordEarly
<1>3. CASE CoordAttach
  <2>1. /\ UNCHANGED <<queueC, cacheC, pollqueue>> /\ pcC # "idle" /\ pcC' = "bundle"
        /\ kobjC' = [kobjC EXCEPT !.version = cacheC[kobjC.rid], !.full = TRUE]
        /\ cacheC[kobjC.rid] # None
    BY <1>3 DEF CoordAttach
  <2>2. /\ kobjC \in [rid : {p} \union EdgeRids, event : Events \union {None}, source : {p, None},
                      version : Versions \union {Profile(p), None}, full : BOOLEAN]
    BY <2>1 DEF Shapes, HeldC, Held
  <2>3. kobjC'.rid = kobjC.rid /\ kobjC'.source = kobjC.source /\ kobjC'.version = cacheC[kobjC.rid]
    BY <2>1, <2>2
  <2> QED BY <2>1, <2>3, <1>q, <1>h DEF CoordEarly
<1>4. ~CoordApprove
  BY <1>h, Names DEF CoordApprove
<1>5. CASE CoordWrite
  <2>1. /\ UNCHANGED <<queueC, kobjC, pollqueue>> /\ pcC = "write" /\ pcC' = "graph"
        /\ cacheC' = [cacheC EXCEPT ![kobjC.rid] = IF normC = "FORGET" THEN None ELSE kobjC.version]
    BY <1>5 DEF CoordWrite
  <2>2. kobjC.rid \in {p, Back} /\ (kobjC.rid = Back => IsProposed(kobjC.version))
    BY <2>1, <1>h DEF CoordEarly
  <2>3. /\ cacheC'[Toward] = cacheC[Toward]
        /\ cacheC'[Back] \in {cacheC[Back], None} \/ (cacheC'[Back] = kobjC.version /\ kobjC.rid = Back)
    BY <2>1, <2>2, <1>h, Names
  <2> QED BY <2>1, <2>2, <2>3, <1>q, <1>h DEF CoordEarly
<1>6. CASE CoordShake
  <2>1. PICK b \in EdgeObjects(p), f \in EdgeObjects(p) :
           /\ f.rid = Back /\ f.event = "FORGET" /\ f.source = None
           /\ b.rid = Back /\ b.event = None /\ b.source = None /\ b.version.val = BackEdge
           /\ queueC' = queueC \o <<f, b>>
    BY <1>6 DEF CoordShake
  <2>2. b \in CoordFirst /\ f \in CoordFirst
    <3>1. b.version \in Versions /\ b.version.val.status = "PROPOSED"
      BY <2>1, NoneIsNew DEF EdgeObjects, BackEdge
    <3> QED BY <2>1, <3>1 DEF CoordFirst, BackAtMost, IsProposed
  <2>3. queueC' \in Seq(CoordFirst)
    <3>1. <<f, b>> \in Seq(CoordFirst)
      BY <2>2
    <3> QED BY <2>1, <3>1, <1>h, Joined
  <2>4. pollqueue' \in Seq(ToPartFirst)
    BY <1>6, <1>h, AppendProperties DEF CoordShake, ToPartFirst
  <2> QED BY <1>6, <2>3, <2>4, <1>q DEF CoordShake, CoordEarly
<1>7. CASE CoordFinal
  <2>1. PICK s \in Seq({k \in EdgeObjects(p) : k.event = "FORGET" /\ k.source = None}) :
          queueC' = queueC \o s /\ \A i \in DOMAIN s : cacheC[s[i].rid] # None
    BY <1>7 DEF CoordFinal
  <2>2. ASSUME NEW i \in DOMAIN s PROVE s[i] \in CoordFirst
    <3>1. s[i] \in EdgeObjects(p) /\ s[i].event = "FORGET" /\ s[i].source = None
      BY <2>2, ElementOfSeq
    <3>2. s[i].rid = Back
      BY <2>1, <2>2, <3>1 DEF EdgeObjects, EdgeRids, CoordEarly
    <3> QED BY <3>1, <3>2 DEF CoordFirst, BackAtMost
  <2>3. s \in Seq(CoordFirst)
    <3>1. DOMAIN s = 1..Len(s) /\ Len(s) \in Nat /\ s = [i \in 1..Len(s) |-> s[i]]
      BY LenProperties
    <3>2. s \in [1..Len(s) -> CoordFirst]
      BY <2>2, <3>1
    <3> QED BY <3>1, <3>2, SeqDef
  <2>4. queueC' \in Seq(CoordFirst)
    BY <2>1, <2>3, <1>h, Joined
  <2> QED BY <1>7, <2>4, <1>q, <1>h DEF CoordFinal, CoordEarly
<1> QED BY <1>1, <1>2, <1>3, <1>4, <1>5, <1>6, <1>7 DEF CoordStep

LEMMA PartEarlySteps ==
    ASSUME Shapes, CoordEarly, PartEarly, cacheP[c] = None, cacheP' = cacheP, PartStep
    PROVE  CoordEarly' /\ PartEarly'
<1>c. /\ UNCHANGED <<cacheC, queueC, pcC, kobjC, pollqueue>>
      /\ server' = server \/ PartTell
  BY DEF PartStep, PartTake, PartSkip, PartDrop, PartAttach, PartCheck, PartGoOn, PartApprove,
         PartWrite, PartPropose, PartTell, PartFinal, AtWork, CoordSame
<1>h. /\ pcP \in {"idle", "forget", "manifest", "bundle", "write"}
      /\ pcP # "idle" => kobjP \in PartFirst /\ kobjP.rid \in {c} \union EdgeRids
      /\ pcP = "manifest" => kobjP.event # "FORGET"
      /\ queueP \in Seq(PartFirst)
      /\ cacheP[c] = None /\ cacheP[Toward] = None /\ cacheP[Back] = None
  BY InProcess DEF PartEarly, Shapes, HeldP, Held
<1>1. /\ CoordEarly'
      /\ pollqueue' \in Seq(ToPartFirst) /\ cacheP'[Toward] = None /\ cacheP'[Back] = None
      /\ ~PartTell
      /\ server' \in {<<>>, Handshake, <<NodeEvent(p, "NEW")>>}
  BY <1>c, <1>h DEF CoordEarly, PartEarly, PartTell
<1>2. CASE PartTake
  <2>1. Head(queueP) \in PartFirst /\ Tail(queueP) \in Seq(PartFirst)
    BY <1>2, <1>h, FirstOf DEF PartTake
  <2>2. pcP' \in {"forget", "manifest"} /\ kobjP' = Head(queueP) /\ queueP' = Tail(queueP)
    BY <1>2 DEF PartTake
  <2> QED BY <2>1, <2>2, <1>1 DEF PartEarly, Handshake, NodeEvent
<1>3. CASE PartSkip \/ PartDrop
  <2>1. pcP' = "idle" /\ queueP' \in Seq(PartFirst)
    BY <1>3, <1>h, FirstOf DEF PartSkip, PartDrop
  <2> QED BY <2>1, <1>1 DEF PartEarly, Handshake, NodeEvent
<1>4. ~PartAttach /\ ~PartApprove /\ ~PartWrite /\ ~PartPropose /\ ~PartFinal
  <2>1. ~PartAttach
    BY <1>h DEF PartAttach, EdgeRids
  <2>2. ~PartApprove /\ ~PartPropose /\ ~PartFinal
    BY <1>h DEF PartApprove, PartPropose, PartFinal
  <2>3. ~PartWrite
    <3>1. SUFFICES ASSUME PartWrite PROVE FALSE
      OBVIOUS
    <3>2. kobjP = M
      BY <3>1 DEF PartWrite, PartEarly
    <3>3. kobjP.rid = c /\ kobjP.event # "FORGET" /\ kobjP.version # None /\ normP # "FORGET"
      BY <3>1, <3>2, Objects, Values DEF PartWrite, Shapes, HeldP, Held
    <3>4. cacheP'[c] # None
      BY <3>1, <3>3 DEF PartWrite, Shapes, Caches, Rids
    <3> QED BY <3>4, <1>h
  <2> QED BY <2>1, <2>2, <2>3
<1>5. CASE PartCheck
  <2>1. pcP = "manifest" /\ pcP' = "bundle" /\ UNCHANGED <<kobjP, queueP>>
    BY <1>5 DEF PartCheck
  <2> QED BY <2>1, <1>1, <1>h DEF PartEarly, Handshake, NodeEvent
<1>6. CASE PartGoOn
  <2>1. pcP = "bundle" /\ pcP' = "write" /\ ~IsProposal(kobjP) /\ UNCHANGED <<kobjP, queueP>>
    BY <1>6, <1>h DEF PartGoOn
  <2>2. kobjP = M
    <3>1. kobjP \in PartFirst /\ kobjP.rid # p /\ kobjP.event # "FORGET"
      BY <2>1, <1>h, Names DEF PartEarly
    <3>2. CASE kobjP \in BackAtMost({k \in EdgeObjects(c) : k.source = c /\ k.event \in Events})
      BY <2>1, <3>1, <3>2, NoneIsNew DEF BackAtMost, IsProposed, IsProposal, Events
    <3> QED BY <3>1, <3>2 DEF PartFirst, AboutPart
  <2> QED BY <2>1, <2>2, <1>1, <1>h DEF PartEarly, Handshake, NodeEvent
<1> QED BY <1>1, <1>2, <1>3, <1>4, <1>5, <1>6 DEF PartStep

LEMMA FirstArrives == \A e \in ToPartFirst : Received(e) \in PartFirst
<1>1. ASSUME NEW e \in BackAtMost(EdgeEvents(p)) PROVE Received(e) \in PartFirst
  <2>1. e \in EdgeEvents(p) /\ e.rid = Back /\ (e.event = "FORGET" \/ IsProposed(e.version))
    BY DEF BackAtMost
  <2>2. /\ Received(e) \in EdgeObjects(c) /\ Received(e).source = c /\ Received(e).event = e.event
        /\ Received(e).rid = e.rid /\ Received(e).version = e.version /\ e.event \in Events
    BY <2>1 DEF EdgeEvents, EdgeObjects, Received, Part!Knowledge
  <2> QED BY <2>1, <2>2 DEF PartFirst, BackAtMost
<1>2. ASSUME NEW e \in [node : {p}, event : Events, rid : {p}, version : {Profile(p), None}]
      PROVE  Received(e) \in PartFirst
  <2>1. Received(e) \in AboutPart
    BY DEF AboutPart, Received, Part!Knowledge
  <2> QED BY <2>1 DEF PartFirst
<1> QED BY <1>1, <1>2, Arrives DEF ToPartFirst, PartFirst

LEMMA OtherEarlySteps ==
    ASSUME Shapes, CoordEarly, PartEarly, MainStep \/ Puts \/ Still
    PROVE  CoordEarly' /\ PartEarly'
<1>h. /\ queueP \in Seq(PartFirst) /\ pollqueue \in Seq(ToPartFirst) /\ queueC \in Seq(CoordFirst)
      /\ server \in {<<>>, Handshake, <<NodeEvent(p, "NEW")>>}
      /\ pcP # "idle" => kobjP \in PartFirst
  BY DEF PartEarly, CoordEarly
<1>1. CASE MainStep
  <2>1. UNCHANGED <<cacheC, cacheP, queueC, pcC, kobjC>>
    BY <1>1 DEF MainStep, Begins, ShakesAgain, Polls, PollLost, Emptied, Loses, CoordSame
  <2>2. (pcP' = pcP /\ kobjP' = kobjP) \/ pcP' = "idle"
    BY <1>1 DEF MainStep, Begins, ShakesAgain, Polls, PollLost, Emptied, Loses, WorkerSame
  <2>3. server' \in {server, <<>>, Handshake} /\ pollqueue' \in {pollqueue, <<>>}
    BY <1>1 DEF MainStep, Begins, ShakesAgain, Polls, PollLost, Emptied, Loses
  <2>4. queueP' \in Seq(PartFirst)
    <3>1. CASE queueP' \in {queueP, <<>>}
      BY <3>1, <1>h, EmptySeq
    <3>2. CASE Polls
      <4> DEFINE s == [i \in DOMAIN pollqueue |-> Received(pollqueue[i])]
      <4>1. /\ DOMAIN pollqueue = 1..Len(pollqueue) /\ Len(pollqueue) \in Nat
            /\ \A i \in DOMAIN pollqueue : pollqueue[i] \in ToPartFirst
        BY <1>h, LenProperties, ElementOfSeq
      <4>2. s \in [1..Len(pollqueue) -> PartFirst] /\ queueP' = queueP \o s
        BY <3>2, <4>1, FirstArrives DEF Polls
      <4> HIDE DEF s
      <4>3. s \in Seq(PartFirst)
        BY <4>1, <4>2, SeqDef
      <4> QED BY <4>2, <4>3, <1>h, Joined
    <3> QED BY <1>1, <3>1, <3>2 DEF MainStep, Begins, ShakesAgain, PollLost, Emptied, Loses, WorkerSame
  <2>5. CoordEarly'
    BY <2>1 DEF CoordEarly
  <2>6. server' \in {<<>>, Handshake, <<NodeEvent(p, "NEW")>>} /\ pollqueue' \in Seq(ToPartFirst)
    BY <2>3, <1>h, EmptySeq
  <2>7. PartEarly'
    BY <2>1, <2>2, <2>4, <2>6, <1>h DEF PartEarly, Handshake, NodeEvent
  <2> QED BY <2>5, <2>7
<1>2. CASE Puts
  <2>1. PICK k : k = Coord!Knowledge(server[1].rid, server[1].event, p, server[1].version)
    OBVIOUS
  <2>2. k \in CoordFirst /\ server' \in {<<>>, <<NodeEvent(p, "NEW")>>}
    <3>1. CASE server = Handshake
      <4>1. server[1] = NodeEvent(p, "FORGET") /\ server' = <<NodeEvent(p, "NEW")>>
        BY <1>2, <3>1 DEF Puts, Handshake
      <4>2. k = F
        BY <2>1, <4>1, NoneIsNew DEF NodeEvent, F
      <4> QED BY <4>1, <4>2 DEF CoordFirst
    <3>2. CASE server = <<NodeEvent(p, "NEW")>>
      <4>1. server[1] = NodeEvent(p, "NEW") /\ server' = <<>>
        BY <1>2, <3>2 DEF Puts
      <4>2. k = N
        BY <2>1, <4>1 DEF NodeEvent, N
      <4> QED BY <4>1, <4>2 DEF CoordFirst
    <3> QED BY <1>2, <1>h, <3>1, <3>2 DEF Puts
  <2>3. queueC' = queueC \o <<k>> /\ UNCHANGED <<cacheC, pcC, kobjC, pollqueue>> /\ PartSame
    BY <1>2, <2>1 DEF Puts
  <2>4. queueC' \in Seq(CoordFirst)
    <3>1. <<k>> \in Seq(CoordFirst)
      BY <2>2
    <3> QED BY <2>3, <3>1, <1>h, Joined
  <2>5. CoordEarly' /\ PartEarly'
    BY <2>2, <2>3, <2>4 DEF CoordEarly, PartEarly, PartSame, Handshake, NodeEvent
  <2> QED BY <2>5
<1>3. CASE Still
  BY <1>3 DEF Still, CoordSame, PartSame, CoordEarly, PartEarly, Handshake, NodeEvent
<1> QED BY <1>1, <1>2, <1>3

LEMMA StrangersStep == ASSUME Shapes, Strangers, [Next]_vars PROVE Strangers'
<1> SUFFICES ASSUME cacheP'[c] = None PROVE CoordEarly' /\ PartEarly'
  BY DEF Strangers
<1>1. cacheP' = cacheP \/ (PartWrite /\ cacheP[c] = None /\ kobjP # M)
  BY ContactKept
<1>2. cacheP[c] = None /\ CoordEarly /\ PartEarly
  BY <1>1 DEF Strangers
<1>3. cacheP' = cacheP
  BY <1>1, <1>2 DEF PartEarly, PartWrite
<1> QED BY <1>2, <1>3, EveryStep, CoordEarlySteps, PartEarlySteps, OtherEarlySteps

-----------------------------------------------------------------------------
(* The partial node comes back to the coordinator: after its FORGET its NEW *)
(* is still to come, until the coordinator knows it again.                  *)

Unwritten == {"forget", "bundle", "write"}
ForgetsPart == pcC \in Unwritten /\ kobjC.rid = p /\ kobjC.event = "FORGET"
NewInHand == pcC \in {"manifest", "bundle", "write"} /\ kobjC = N
NotBegun == server = <<>> /\ mode \in {"start", "down"} /\ \A e \in EdgeRids : cacheP[e] = None

NewToCome ==
    \/ Holds(queueC, {N}) \/ NewOnWire \/ server = Handshake \/ NotBegun
    \/ cacheC[p] = None /\ NewInHand

PartComes ==
    /\ NewOnWire \/ Followed(queueC, {F}, {N})
    /\ cacheC[p] = None \/ ForgetsPart => NewToCome

LEMMA NotHeld ==
    ASSUME NEW s, NEW S, NEW T, ~Holds(s, S)
    PROVE  /\ Followed(s, S, T) /\ Unfollowed(s, S, T) /\ Unfollowed(s, T, S)
           /\ Alone(s, S, T) /\ Alone(s, T, S)
  BY DEF Holds, Followed, Unfollowed, Alone

LEMMA Without ==
    ASSUME NEW U, NEW S, NEW s \in Seq(U), U \intersect S = {}
    PROVE  ~Holds(s, S)
  BY ElementOfSeq DEF Holds

LEMMA NodesAreNoEdges == F \notin EdgeObjects(p) /\ N \notin EdgeObjects(p) /\ M \notin EdgeObjects(c) /\ F # N
  BY Names, Objects DEF EdgeObjects

(* What the coordinator does to what it holds, but for taking the next.     *)
LEMMA NodesQueued ==
    ASSUME Shapes, CoordStep, ~CoordTake
    PROVE  /\ Holds(queueC', {N}) <=> Holds(queueC, {N})
           /\ Holds(queueC', {F}) <=> Holds(queueC, {F})
           /\ Followed(queueC, {F}, {N}) => Followed(queueC', {F}, {N})
<1>1. queueC \in Seq(CoordObjects) /\ EdgeObjects(p) \subseteq CoordObjects
  BY DEF Shapes, Underway, CoordObjects
<1>2. PICK s \in Seq(EdgeObjects(p)) : queueC' = queueC \o s
  BY CoordQueues
<1>3. ~Holds(s, {F}) /\ ~Holds(s, {N})
  BY Without, NodesAreNoEdges
<1>4. s \in Seq(CoordObjects)
  BY <1>1
<1>5. Followed(s, {F}, {N})
  BY <1>3, NotHeld
<1> QED BY <1>1, <1>2, <1>3, <1>4, <1>5, JoinedQueues

LEMMA NodesTaken ==
    ASSUME Shapes, CoordTake
    PROVE  /\ queueC \in Seq(CoordObjects) /\ queueC # <<>> /\ queueC' = Tail(queueC)
           /\ kobjC' = Head(queueC) /\ kobjC' \in CoordObjects
           /\ kobjC'.rid = p /\ kobjC'.event = "FORGET" => kobjC' = F
           /\ kobjC'.rid = p /\ kobjC'.event # "FORGET" => kobjC' = N
<1>1. queueC \in Seq(CoordObjects) /\ queueC # <<>> /\ queueC' = Tail(queueC) /\ kobjC' = Head(queueC)
  BY DEF CoordTake, Shapes, Underway
<1>2. kobjC' \in CoordObjects
  BY <1>1, FirstOf
<1> QED BY <1>1, <1>2, Objects, Names DEF CoordObjects, EdgeObjects

LEMMA PartComesInit == Init => PartComes
<1> SUFFICES ASSUME Init PROVE PartComes
  OBVIOUS
<1>1. Followed(queueC, {F}, {N})
  BY ShortQueues DEF Init
<1>2. NotBegun
  BY Names DEF Init, NotBegun, Fresh
<1> QED BY <1>1, <1>2 DEF PartComes, NewToCome

LEMMA PartComesCoord == ASSUME Shapes, PartComes, CoordStep PROVE PartComes'
<1>s. UNCHANGED <<server, mode, cacheP>>
  BY DEF CoordStep, CoordTake, CoordDrop, CoordAttach, CoordCheck, CoordGoOn, CoordApprove,
         CoordWrite, CoordShake, CoordTell, CoordFinal, PartSame
<1>w. /\ NewOnWire' <=> NewOnWire
      /\ (server = Handshake)' <=> server = Handshake
      /\ NotBegun' <=> NotBegun
  BY <1>s DEF NewOnWire, NotBegun, Handshake, NodeEvent
<1>h. /\ pcC # "idle" => kobjC.rid \in {p} \union EdgeRids /\ kobjC.rid \in Rids
      /\ pcC # "idle" /\ kobjC.rid = p /\ kobjC.event # "FORGET" => kobjC = N
      /\ pcC = "manifest" => kobjC.event # "FORGET"
      /\ pcC = "forget" => kobjC.event = "FORGET"
      /\ pcC \in {"bundle", "write"} => (normC = "FORGET" <=> kobjC.event = "FORGET") /\ kobjC.version # None
      /\ N.rid = p /\ N.event # "FORGET"
      /\ cacheC \in [Rids -> Versions \union {Profile(c), Profile(p), None}]
  BY InProcess, Objects DEF Shapes, HeldC, Held, Caches, Normed
<1>1. CASE CoordTake
  <2>1. Followed(queueC, {F}, {N}) =>
          Followed(queueC', {F}, {N}) /\ (kobjC' = F => Holds(queueC', {N}))
    <3>1. /\ queueC \in Seq(CoordObjects) /\ queueC # <<>> /\ queueC' = Tail(queueC)
          /\ kobjC' = Head(queueC)
      BY <1>1, NodesTaken
    <3>2. Followed(queueC, {F}, {N}) => /\ Followed(Tail(queueC), {F}, {N})
                                        /\ Head(queueC) \in {F} => Holds(Tail(queueC), {N})
      BY <3>1, TailQueue
    <3> QED BY <3>1, <3>2
  <2>2. Holds(queueC, {N}) => kobjC' = N \/ Holds(queueC', {N})
    <3>1. /\ queueC \in Seq(CoordObjects) /\ queueC # <<>> /\ queueC' = Tail(queueC)
          /\ kobjC' = Head(queueC)
      BY <1>1, NodesTaken
    <3>2. Holds(queueC, {N}) <=> Head(queueC) \in {N} \/ Holds(Tail(queueC), {N})
      BY <3>1, TailQueue
    <3> QED BY <3>1, <3>2
  <2>3. /\ pcC = "idle" /\ cacheC' = cacheC /\ pcC' \in {"forget", "manifest"}
        /\ pcC' = "forget" <=> kobjC'.event = "FORGET"
    BY <1>1 DEF CoordTake
  <2>4. ASSUME (cacheC[p] = None \/ ForgetsPart)' PROVE NewToCome'
    <3>1. CASE ForgetsPart'
      <4>1. kobjC' = F
        BY <1>1, <3>1, NodesTaken DEF ForgetsPart
      <4> QED BY <4>1, <2>1, <1>w DEF PartComes, NewToCome
    <3>2. CASE cacheC[p] = None /\ kobjC' = N
      BY <3>2, <2>3, <1>h DEF NewToCome, NewInHand
    <3>3. CASE cacheC[p] = None /\ kobjC' # N
      BY <3>3, <2>2, <2>3, <1>w DEF PartComes, NewToCome, NewInHand
    <3> QED BY <2>3, <2>4, <3>1, <3>2, <3>3
  <2> QED BY <2>1, <2>4, <1>w DEF PartComes
<1>2. CASE ~CoordTake
  <2>1. Holds(queueC', {N}) <=> Holds(queueC, {N})
    BY <1>2, NodesQueued
  <2>2. Followed(queueC, {F}, {N}) => Followed(queueC', {F}, {N})
    BY <1>2, NodesQueued
  <2>3. ASSUME (cacheC[p] = None \/ ForgetsPart)' PROVE NewToCome'
    <3>1. CASE CoordDrop
      <4>1. pcC' = "idle" /\ cacheC' = cacheC /\ (pcC = "manifest" => cacheC[kobjC.rid] # None)
            /\ (pcC = "bundle" => kobjC.rid = Toward) /\ pcC # "write"
        BY <3>1 DEF CoordDrop
      <4>2. cacheC[p] = None /\ ~NewInHand
        BY <2>3, <4>1, <1>h, Names DEF ForgetsPart, Unwritten, NewInHand
      <4> QED BY <4>2, <2>1, <1>w DEF PartComes, NewToCome
    <3>2. CASE CoordAttach
      <4>1. pcC = "forget" /\ cacheC' = cacheC /\ cacheC[kobjC.rid] # None
            /\ kobjC' = [kobjC EXCEPT !.version = cacheC[kobjC.rid], !.full = TRUE]
        BY <3>2 DEF CoordAttach
      <4>2. kobjC'.rid = kobjC.rid /\ kobjC.event = "FORGET"
        BY <4>1 DEF Shapes, HeldC, Held
      <4>3. cacheC[p] = None \/ ForgetsPart
        BY <2>3, <4>1, <4>2 DEF ForgetsPart, Unwritten
      <4> QED BY <4>1, <4>3, <2>1, <1>w, <1>h DEF PartComes, NewToCome, NewInHand
    <3>3. CASE CoordCheck \/ CoordGoOn \/ CoordApprove
      <4>1. /\ kobjC' = kobjC /\ cacheC' = cacheC
            /\ \/ pcC = "manifest" /\ pcC' = "bundle"
               \/ pcC = "bundle" /\ pcC' = "write"
               \/ pcC' \in {"network", "broadcast"} /\ pcC \in {"graph", "network"}
        BY <3>3 DEF CoordCheck, CoordGoOn, CoordApprove
      <4>2. cacheC[p] = None \/ ForgetsPart
        BY <2>3, <4>1, <1>h DEF ForgetsPart, Unwritten
      <4>3. NewInHand => NewInHand'
        BY <4>1 DEF NewInHand
      <4> QED BY <4>1, <4>2, <4>3, <2>1, <1>w DEF PartComes, NewToCome
    <3>4. CASE CoordWrite
      <4>1. /\ kobjC' = kobjC /\ pcC = "write" /\ pcC' = "graph"
            /\ cacheC' = [cacheC EXCEPT ![kobjC.rid] = IF normC = "FORGET" THEN None ELSE kobjC.version]
        BY <3>4 DEF CoordWrite
      <4>2. cacheC'[p] = None
        BY <2>3, <4>1 DEF ForgetsPart, Unwritten
      <4>3. CASE kobjC.rid = p
        <5>1. ForgetsPart /\ kobjC # N
          BY <4>1, <4>2, <4>3, <1>h, Names DEF ForgetsPart, Unwritten
        <5> QED BY <5>1, <2>1, <1>w DEF PartComes, NewToCome, NewInHand
      <4>4. CASE kobjC.rid # p
        <5>1. cacheC[p] = None /\ kobjC # N
          BY <4>1, <4>2, <4>4, <1>h, Names
        <5> QED BY <5>1, <2>1, <1>w DEF PartComes, NewToCome, NewInHand
      <4> QED BY <4>3, <4>4
    <3>5. CASE CoordShake \/ CoordTell \/ CoordFinal
      <4>1. cacheC' = cacheC /\ pcC \in {"network", "broadcast"} /\ pcC' \in {"idle", "broadcast"}
        BY <3>5 DEF CoordShake, CoordTell, CoordFinal
      <4>2. cacheC[p] = None /\ ~NewInHand
        BY <2>3, <4>1 DEF ForgetsPart, Unwritten, NewInHand
      <4> QED BY <4>2, <2>1, <1>w DEF PartComes, NewToCome
    <3> QED BY <1>2, <3>1, <3>2, <3>3, <3>4, <3>5 DEF CoordStep
  <2> QED BY <2>2, <2>3, <1>w DEF PartComes
<1> QED BY <1>1, <1>2

(* What the server puts in the queue.                                       *)
PutsForget == server = Handshake /\ queueC' = queueC \o <<F>> /\ server' = <<NodeEvent(p, "NEW")>>
PutsNew == NewOnWire /\ queueC' = queueC \o <<N>> /\ server' = <<>>
PutsEdge ==
    \E e \in ToCoord : /\ server = <<e>> /\ server' = <<>>
                       /\ queueC' = queueC \o <<Coord!Knowledge(e.rid, e.event, p, e.version)>>

LEMMA PutOne == ASSUME Shapes, Puts PROVE PutsForget \/ PutsNew \/ PutsEdge
<1>1. CASE server = Handshake
  <2>1. server[1] = NodeEvent(p, "FORGET") /\ server' = <<NodeEvent(p, "NEW")>>
    BY <1>1 DEF Puts, Handshake
  <2>2. Coord!Knowledge(server[1].rid, server[1].event, p, server[1].version) = F
    BY <2>1, NoneIsNew DEF NodeEvent, F
  <2> QED BY <1>1, <2>1, <2>2 DEF Puts, PutsForget
<1>2. CASE NewOnWire
  <2>1. server[1] = NodeEvent(p, "NEW") /\ server' = <<>>
    BY <1>2 DEF Puts, NewOnWire
  <2>2. Coord!Knowledge(server[1].rid, server[1].event, p, server[1].version) = N
    BY <2>1 DEF NodeEvent, N
  <2> QED BY <1>2, <2>1, <2>2 DEF Puts, PutsNew
<1>3. CASE server = <<server[1]>> /\ server[1] \in ToCoord
  <2>1. PICK e : e = server[1]
    OBVIOUS
  <2>2. e \in ToCoord /\ server = <<e>>
    BY <1>3, <2>1
  <2>3. server' = <<>>
    BY <2>2 DEF Puts
  <2> QED BY <2>1, <2>2, <2>3 DEF Puts, PutsEdge
<1> QED BY <1>1, <1>2, <1>3 DEF Shapes, Underway, Puts, NewOnWire

LEMMA EdgeEventsPut ==
    ASSUME NEW e \in ToCoord
    PROVE  /\ Coord!Knowledge(e.rid, e.event, p, e.version) \in EdgeObjects(p)
           /\ <<e>> # Handshake /\ <<e>> # <<NodeEvent(p, "NEW")>>
<1>1. Coord!Knowledge(e.rid, e.event, p, e.version) \in EdgeObjects(p)
  BY DEF ToCoord, EdgeEvents, EdgeObjects, Coord!Knowledge
<1>2. e.rid \in EdgeRids
  BY DEF ToCoord, EdgeEvents
<1>3. <<e>> # Handshake /\ <<e>> # <<NodeEvent(p, "NEW")>>
  <2>1. Len(<<e>>) = 1 /\ Len(Handshake) = 2 /\ <<e>>[1] = e
    BY DEF Handshake
  <2>2. NodeEvent(p, "NEW").rid = p
    BY DEF NodeEvent
  <2> QED BY <2>1, <2>2, <1>2, Names
<1> QED BY <1>1, <1>3

LEMMA WireIs ==
    /\ Handshake # <<>> /\ (NewOnWire => server # <<>> /\ server # Handshake)
    /\ Handshake' = Handshake
<1>1. ASSUME NEW x, NEW y, NEW z PROVE <<x, y>> # <<>> /\ <<x, y>> # <<z>> /\ <<z>> # <<>>
  OBVIOUS
<1>2. Handshake # <<>> /\ Handshake # <<NodeEvent(p, "NEW")>> /\ <<NodeEvent(p, "NEW")>> # <<>>
  BY <1>1 DEF Handshake
<1>3. Handshake' = Handshake
  BY DEF Handshake, NodeEvent
<1> QED BY <1>2, <1>3 DEF NewOnWire

LEMMA PartComesElse ==
    ASSUME Shapes, PartComes, PartStep \/ MainStep \/ Still
    PROVE  PartComes'
<1>c. UNCHANGED <<cacheC, queueC, pcC, kobjC>>
  BY DEF PartStep, PartTake, PartSkip, PartDrop, PartAttach, PartCheck, PartGoOn, PartApprove,
         PartWrite, PartPropose, PartTell, PartFinal, AtWork, CoordSame, Still,
         MainStep, Begins, ShakesAgain, Polls, PollLost, Emptied, Loses
<1>1. /\ NewOnWire => NewOnWire'
      /\ server = Handshake => server' = Handshake
      /\ NotBegun => NotBegun' \/ server' = Handshake
  <2>1. CASE PartStep
    <3>1. server = <<>> /\ mode \in {"flush", "stop"}
      BY <2>1 DEF PartStep, PartTake, PartSkip, PartDrop, PartAttach, PartCheck, PartGoOn,
                  PartApprove, PartWrite, PartPropose, PartTell, PartFinal, AtWork
    <3> QED BY <3>1, WireIs DEF NotBegun
  <2>2. CASE MainStep
    <3>1. server = <<>> \/ server' = server
      BY <2>2 DEF MainStep, Begins, ShakesAgain, Polls, PollLost, Emptied, Loses
    <3>2. NotBegun => NotBegun' \/ server' = Handshake
      BY <2>2 DEF MainStep, Begins, ShakesAgain, Polls, PollLost, Emptied, Loses, NotBegun
    <3> QED BY <3>1, <3>2, WireIs DEF NewOnWire, Handshake, NodeEvent
  <2>3. CASE Still
    BY <2>3 DEF Still, PartSame, NewOnWire, Handshake, NodeEvent, NotBegun
  <2> QED BY <2>1, <2>2, <2>3
<1> QED BY <1>c, <1>1, WireIs DEF PartComes, NewToCome, ForgetsPart, NewInHand

LEMMA PartComesPuts == ASSUME Shapes, PartComes, Puts PROVE PartComes'
<1>c. UNCHANGED <<cacheC, pcC, kobjC>> /\ server # <<>> /\ queueC \in Seq(CoordObjects)
  BY DEF Puts, Shapes, Underway
<1>1. CASE PutsForget
  <2>1. NewOnWire'
    BY <1>1 DEF PutsForget, NewOnWire, NodeEvent
  <2> QED BY <2>1 DEF PartComes, NewToCome
<1>2. CASE PutsNew
  <2>1. <<N>> \in Seq(CoordObjects)
    <3>1. N \in CoordObjects
      BY DEF CoordObjects
    <3> QED BY <3>1
  <2>2. Holds(<<N>>, {N}) /\ Followed(<<N>>, {F}, {N})
    BY ShortQueues, NodesAreNoEdges
  <2>3. Holds(queueC', {N}) /\ Followed(queueC', {F}, {N})
    BY <1>2, <2>1, <2>2, <1>c, JoinedQueues DEF PutsNew
  <2> QED BY <2>3 DEF PartComes, NewToCome
<1>3. CASE PutsEdge
  <2>1. PICK e \in ToCoord : /\ server = <<e>>
                             /\ queueC' = queueC \o <<Coord!Knowledge(e.rid, e.event, p, e.version)>>
    BY <1>3 DEF PutsEdge
  <2>2. PICK k : k = Coord!Knowledge(e.rid, e.event, p, e.version)
    OBVIOUS
  <2>3. k \in EdgeObjects(p) /\ ~NewOnWire /\ server # Handshake
    BY <2>1, <2>2, EdgeEventsPut DEF NewOnWire
  <2>4. <<k>> \in Seq(CoordObjects)
    <3>1. k \in CoordObjects
      BY <2>3 DEF CoordObjects
    <3> QED BY <3>1
  <2>5. Followed(<<k>>, {F}, {N})
    BY <2>3, ShortQueues, NodesAreNoEdges
  <2>6. /\ Followed(queueC, {F}, {N}) => Followed(queueC', {F}, {N})
        /\ Holds(queueC, {N}) => Holds(queueC', {N})
    <3>1. queueC' = queueC \o <<k>>
      BY <2>1, <2>2
    <3>2. Followed(queueC, {F}, {N}) => Followed(queueC \o <<k>>, {F}, {N})
      BY <2>4, <2>5, <1>c, JoinedQueues
    <3>3. Holds(queueC, {N}) => Holds(queueC \o <<k>>, {N})
      BY <2>4, <1>c, JoinedQueues
    <3> QED BY <3>1, <3>2, <3>3
  <2>7. PartComes => Followed(queueC, {F}, {N}) /\ (cacheC[p] = None \/ ForgetsPart =>
                        Holds(queueC, {N}) \/ (cacheC[p] = None /\ NewInHand))
    BY <2>3, <1>c DEF PartComes, NewToCome, NotBegun
  <2> QED BY <2>6, <2>7, <1>c DEF PartComes, NewToCome, ForgetsPart, NewInHand
<1> QED BY <1>1, <1>2, <1>3, PutOne

LEMMA PartComesStep == ASSUME Shapes, PartComes, [Next]_vars PROVE PartComes'
  BY EveryStep, PartComesCoord, PartComesElse, PartComesPuts

-----------------------------------------------------------------------------
(* The coordinator answers a handshake: until it has run its                *)
(* handshake_handler the partial node is being renewed, and then its own    *)
(* NEW is on its way.                                                       *)

Renewing ==
    \/ server = Handshake \/ Holds(queueC, {F}) \/ ForgetsPart \/ cacheC[p] = None
    \/ pcC \in {"graph", "network"} /\ kobjC = N

CoordComes ==
    \/ cacheP[c] # None \/ Renewing \/ mode \in {"start", "down", "stop"}
    \/ Holds(pollqueue, {NodeEvent(c, "NEW")}) \/ Holds(queueP, {M})
    \/ pcP \in {"manifest", "bundle", "write"} /\ kobjP = M

LEMMA RenewingCoord == ASSUME Shapes, Renewing, CoordStep PROVE Renewing' \/ CoordShake
<1>s. server' = server
  BY DEF CoordStep, CoordTake, CoordDrop, CoordAttach, CoordCheck, CoordGoOn, CoordApprove,
         CoordWrite, CoordShake, CoordTell, CoordFinal, PartSame
<1>h. /\ pcC # "idle" => kobjC.rid \in Rids
      /\ pcC # "idle" /\ kobjC.rid = p /\ kobjC.event # "FORGET" => kobjC = N
      /\ pcC \in {"bundle", "write"} => (normC = "FORGET" <=> kobjC.event = "FORGET")
      /\ N.rid = p /\ N.event = "NEW"
      /\ cacheC \in [Rids -> Versions \union {Profile(c), Profile(p), None}]
  BY InProcess, Objects DEF Shapes, HeldC, Held, Caches
<1>1. CASE server = Handshake
  BY <1>1, <1>s, WireIs DEF Renewing
<1>2. CASE Holds(queueC, {F})
  <2>1. CASE CoordTake
    <3>1. /\ queueC \in Seq(CoordObjects) /\ queueC # <<>> /\ queueC' = Tail(queueC)
          /\ kobjC' = Head(queueC)
      BY <2>1, NodesTaken
    <3>2. Holds(queueC, {F}) <=> Head(queueC) \in {F} \/ Holds(Tail(queueC), {F})
      BY <3>1, TailQueue
    <3>3. kobjC' = F => ForgetsPart'
      BY <2>1, Objects DEF CoordTake, ForgetsPart, Unwritten
    <3> QED BY <1>2, <3>1, <3>2, <3>3 DEF Renewing
  <2>2. CASE ~CoordTake
    BY <1>2, <2>2, NodesQueued DEF Renewing
  <2> QED BY <2>1, <2>2
<1>3. CASE cacheC[p] = None
  <2>1. CASE CoordWrite
    <3>1. /\ pcC = "write" /\ pcC' = "graph" /\ kobjC' = kobjC
          /\ cacheC' = [cacheC EXCEPT ![kobjC.rid] = IF normC = "FORGET" THEN None ELSE kobjC.version]
      BY <2>1 DEF CoordWrite
    <3>2. cacheC'[p] = None \/ (kobjC.rid = p /\ normC # "FORGET")
      BY <1>3, <1>h, <3>1, Names
    <3>3. kobjC.rid = p /\ normC # "FORGET" => kobjC' = N
      BY <1>h, <3>1
    <3> QED BY <3>1, <3>2, <3>3, WireIs DEF Renewing
  <2>2. CASE cacheC' = cacheC
    BY <1>3, <2>2 DEF Renewing
  <2> QED BY <2>1, <2>2 DEF CoordStep, CoordTake, CoordDrop, CoordAttach, CoordCheck, CoordGoOn,
                            CoordApprove, CoordShake, CoordTell, CoordFinal
<1>4. CASE ForgetsPart /\ cacheC[p] # None
  <2>1. pcC \in {"forget", "bundle", "write"} /\ kobjC.rid = p /\ kobjC.event = "FORGET"
    BY <1>4 DEF ForgetsPart, Unwritten
  <2>2. CASE CoordAttach
    <3>1. pcC' = "bundle" /\ kobjC' = [kobjC EXCEPT !.version = cacheC[kobjC.rid], !.full = TRUE]
      BY <2>2 DEF CoordAttach
    <3>2. kobjC'.rid = p /\ kobjC'.event = "FORGET"
      BY <2>1, <3>1 DEF Shapes, HeldC, Held
    <3> QED BY <3>1, <3>2 DEF Renewing, ForgetsPart, Unwritten
  <2>3. CASE CoordGoOn \/ CoordApprove
    <3>1. pcC' = "write" /\ kobjC' = kobjC
      BY <2>1, <2>3 DEF CoordGoOn, CoordApprove
    <3> QED BY <2>1, <3>1 DEF Renewing, ForgetsPart, Unwritten
  <2>4. CASE CoordWrite
    <3>1. cacheC' = [cacheC EXCEPT ![p] = None]
      BY <2>1, <2>4, <1>h DEF CoordWrite
    <3>2. cacheC'[p] = None
      BY <3>1, <1>h, Names
    <3> QED BY <3>2 DEF Renewing
  <2> QED BY <2>1, <2>2, <2>3, <2>4, <1>4, Names
          DEF CoordStep, CoordTake, CoordDrop, CoordCheck, CoordShake, CoordTell, CoordFinal
<1>5. CASE pcC \in {"graph", "network"} /\ kobjC = N
  <2>1. CASE CoordGoOn
    <3>1. pcC' = "network" /\ kobjC' = kobjC
      BY <2>1, <1>5, <1>h DEF CoordGoOn, NewNode
    <3> QED BY <3>1, <1>5 DEF Renewing
  <2> QED BY <2>1, <1>5
          DEF CoordStep, CoordTake, CoordDrop, CoordAttach, CoordCheck, CoordApprove, CoordWrite,
              CoordTell, CoordFinal
<1> QED BY <1>1, <1>2, <1>3, <1>4, <1>5 DEF Renewing

LEMMA RenewingStep == ASSUME Shapes, Renewing, [Next]_vars PROVE Renewing' \/ CoordShake
<1>1. CASE PartStep \/ MainStep \/ Still
  <2>1. UNCHANGED <<cacheC, queueC, pcC, kobjC>>
    BY <1>1 DEF PartStep, PartTake, PartSkip, PartDrop, PartAttach, PartCheck, PartGoOn, PartApprove,
         PartWrite, PartPropose, PartTell, PartFinal, AtWork, CoordSame, Still,
         MainStep, Begins, ShakesAgain, Polls, PollLost, Emptied, Loses
  <2>2. server = <<>> \/ server' = server
    BY <1>1 DEF PartStep, PartTake, PartSkip, PartDrop, PartAttach, PartCheck, PartGoOn, PartApprove,
         PartWrite, PartPropose, PartTell, PartFinal, AtWork, Still,
         MainStep, Begins, ShakesAgain, Polls, PollLost, Emptied, Loses
  <2> QED BY <2>1, <2>2, WireIs DEF Renewing, ForgetsPart
<1>2. CASE Puts
  <2>1. UNCHANGED <<cacheC, pcC, kobjC>> /\ queueC \in Seq(CoordObjects)
    BY <1>2 DEF Puts, Shapes, Underway
  <2>2. PICK k \in CoordObjects : queueC' = queueC \o <<k>> /\ (server = Handshake => k = F)
    <3>1. F \in CoordObjects /\ N \in CoordObjects /\ EdgeObjects(p) \subseteq CoordObjects
      BY DEF CoordObjects
    <3>2. CASE PutsEdge
      <4>1. PICK e \in ToCoord : /\ server = <<e>>
                                 /\ queueC' = queueC \o <<Coord!Knowledge(e.rid, e.event, p, e.version)>>
        BY <3>2 DEF PutsEdge
      <4> QED BY <3>1, <4>1, EdgeEventsPut
    <3>3. CASE PutsForget
      BY <3>1, <3>3 DEF PutsForget
    <3>4. CASE PutsNew
      BY <3>1, <3>4, WireIs DEF PutsNew
    <3> QED BY <1>2, <3>2, <3>3, <3>4, PutOne
  <2>3. <<k>> \in Seq(CoordObjects) /\ (server = Handshake => Holds(<<k>>, {F}))
    <3>1. Holds(<<k>>, {F}) <=> k \in {F}
      BY ShortQueues
    <3>2. <<k>> \in Seq(CoordObjects)
      BY <2>2
    <3> QED BY <2>2, <3>1, <3>2
  <2>4. Holds(queueC \o <<k>>, {F}) <=> Holds(queueC, {F}) \/ Holds(<<k>>, {F})
    BY <2>1, <2>3, JoinedQueues
  <2> QED BY <2>1, <2>2, <2>3, <2>4 DEF Renewing, ForgetsPart
<1> QED BY <1>1, <1>2, EveryStep, RenewingCoord

LEMMA PolledHolds ==
    ASSUME NEW e \in ToPart, NEW q \in Seq(ToPart), Holds(q, {e}), NEW s,
           s = [i \in DOMAIN q |-> Received(q[i])]
    PROVE  Holds(s, {Received(e)})
  BY DEF Holds

LEMMA CoordComesStep ==
    ASSUME Shapes, Strangers, CoordComes, [Next]_vars
    PROVE  CoordComes'
<1>h. /\ queueP \in Seq(PartObjects) /\ pollqueue \in Seq(ToPart)
      /\ NodeEvent(c, "NEW") \in ToPart /\ (NodeEvent(c, "NEW"))' = NodeEvent(c, "NEW")
      /\ M.rid = c /\ M' = M
  BY Objects DEF Shapes, Underway, ToPart, NodeEvent, M
<1> SUFFICES ASSUME cacheP'[c] = None, ~Renewing' PROVE CoordComes'
  BY DEF CoordComes
<1>1. cacheP[c] = None /\ cacheP' = cacheP
  <2>1. ~(cacheP[c] = None /\ PartWrite /\ kobjP # M)
    BY DEF Strangers, PartEarly, PartWrite
  <2> QED BY <2>1, ContactKept
<1>2. CASE Renewing
  <2>1. pollqueue' = Append(pollqueue, NodeEvent(c, "NEW"))
    BY <1>2, RenewingStep DEF CoordShake
  <2>2. pollqueue' = pollqueue \o <<NodeEvent(c, "NEW")>>
    BY <2>1, <1>h, AppendIsConcat
  <2>3. Holds(<<NodeEvent(c, "NEW")>>, {NodeEvent(c, "NEW")})
    BY ShortQueues
  <2>4. <<NodeEvent(c, "NEW")>> \in Seq(ToPart)
    BY <1>h
  <2>5. Holds(pollqueue \o <<NodeEvent(c, "NEW")>>, {NodeEvent(c, "NEW")})
    BY <2>3, <2>4, <1>h, JoinedQueues
  <2> QED BY <2>2, <2>5, <1>h DEF CoordComes
<1>3. CASE mode \in {"start", "down", "stop"}
  <2>1. CASE MainStep
    <3>1. CASE Begins
      <4>1. server' = Handshake \/ \E e \in EdgeRids : cacheP[e] # None
        BY <3>1 DEF Begins
      <4>2. ~\E e \in EdgeRids : cacheP[e] # None
        BY <1>1 DEF EdgeRids, Strangers, PartEarly
      <4> QED BY <4>1, <4>2, WireIs DEF Renewing
    <3>2. CASE ShakesAgain
      BY <3>2, WireIs DEF ShakesAgain, Renewing
    <3> QED BY <1>3, <2>1, <3>1, <3>2 DEF MainStep, Polls, PollLost, Emptied, Loses, CoordComes
  <2>2. CASE ~MainStep
    <3>1. mode' = mode
      BY <2>2, EveryStep DEF CoordStep, CoordTake, CoordDrop, CoordAttach, CoordCheck, CoordGoOn,
        CoordApprove, CoordWrite, CoordShake, CoordTell, CoordFinal, PartSame, PartStep, PartTake,
        PartSkip, PartDrop, PartAttach, PartCheck, PartGoOn, PartApprove, PartWrite, PartPropose,
        PartTell, PartFinal, AtWork, Puts, Still
    <3> QED BY <1>3, <3>1 DEF CoordComes
  <2> QED BY <2>1, <2>2
<1>4. CASE Holds(pollqueue, {NodeEvent(c, "NEW")})
  <2>1. CASE CoordStep
    <3>1. PICK e \in ToPart : pollqueue' \in {pollqueue, pollqueue \o <<e>>}
      <4>1. CASE pollqueue' = pollqueue
        BY <4>1, <1>h
      <4>2. CASE pollqueue' = Append(pollqueue, NodeEvent(c, "NEW"))
        BY <4>2, <1>h, AppendIsConcat
      <4>3. CASE pollqueue' = Append(pollqueue, Told)
        <5>1. pollqueue' \in Seq(ToPart)
          BY <2>1, EveryStep, CoordUnderway DEF Underway
        <5>2. Len(pollqueue') = Len(pollqueue) + 1 /\ pollqueue'[Len(pollqueue) + 1] = Told
              /\ Len(pollqueue) \in Nat
          BY <4>3, <1>h
        <5>3. Told \in ToPart
          BY <5>1, <5>2, ElementOfSeq
        <5>4. pollqueue' = pollqueue \o <<Told>>
          BY <4>3, <5>3, <1>h, AppendIsConcat
        <5> QED BY <5>3, <5>4
      <4> QED BY <2>1, <4>1, <4>2, <4>3
              DEF CoordStep, CoordTake, CoordDrop, CoordAttach, CoordCheck, CoordGoOn,
                  CoordApprove, CoordWrite, CoordShake, CoordTell, CoordFinal
    <3>2. <<e>> \in Seq(ToPart)
      BY <3>1
    <3>3. Holds(pollqueue \o <<e>>, {NodeEvent(c, "NEW")})
      BY <1>4, <1>h, <3>2, JoinedQueues
    <3> QED BY <1>4, <1>h, <3>1, <3>3 DEF CoordComes
  <2>2. CASE Polls
    <3>1. PICK s : s = [i \in DOMAIN pollqueue |-> Received(pollqueue[i])]
      OBVIOUS
    <3>2. s \in Seq(PartObjects) /\ queueP' = queueP \o s
      BY <2>2, <3>1, ArrivesInOrder DEF Polls
    <3>3. Holds(s, {M})
      BY <1>4, <1>h, <3>1, PolledHolds, Arrives
    <3>4. Holds(queueP \o s, {M})
      BY <1>h, <3>2, <3>3, JoinedQueues
    <3> QED BY <1>h, <3>2, <3>4 DEF CoordComes
  <2>3. CASE PollLost \/ Loses
    BY <2>3 DEF PollLost, Loses, CoordComes
  <2>4. CASE pollqueue' = pollqueue
    BY <1>4, <1>h, <2>4 DEF CoordComes
  <2> QED BY <2>1, <2>2, <2>3, <2>4, EveryStep
          DEF PartStep, PartTake, PartSkip, PartDrop, PartAttach, PartCheck, PartGoOn, PartApprove,
              PartWrite, PartPropose, PartTell, PartFinal, AtWork, Puts, Still,
              MainStep, Begins, ShakesAgain, Emptied
<1>5. CASE Holds(queueP, {M})
  <2>1. CASE PartTake \/ PartSkip
    <3>1. queueP # <<>> /\ queueP' = Tail(queueP)
      BY <2>1 DEF PartTake, PartSkip
    <3>2. Holds(queueP, {M}) <=> Head(queueP) \in {M} \/ Holds(Tail(queueP), {M})
      BY <1>h, <3>1, TailQueue
    <3>3. Head(queueP) = M => pcP' = "manifest" /\ kobjP' = M
      <4>1. M.rid # p /\ M.event # "FORGET"
        BY Objects, Names
      <4>2. CASE PartTake
        BY <4>1, <4>2 DEF PartTake
      <4> QED BY <2>1, <4>1, <4>2 DEF PartSkip
    <3> QED BY <1>5, <1>h, <3>1, <3>2, <3>3 DEF CoordComes
  <2>2. CASE PartApprove \/ PartPropose
    <3>1. PICK k \in EdgeObjects(c) : k.event # "FORGET" /\ queueP' = queueP \o <<k>>
      BY <2>2, NoneIsNew DEF PartApprove, PartPropose
    <3>2. <<k>> \in Seq(PartObjects)
      <4>1. k \in PartObjects
        BY <3>1 DEF PartObjects
      <4> QED BY <4>1
    <3>3. Holds(queueP \o <<k>>, {M})
      BY <1>5, <1>h, <3>2, JoinedQueues
    <3> QED BY <1>h, <3>1, <3>3 DEF CoordComes
  <2>3. CASE Polls
    <3>1. PICK s \in Seq(PartObjects) : queueP' = queueP \o s
      BY <2>3, ArrivesInOrder DEF Polls
    <3>2. Holds(queueP \o s, {M})
      BY <1>5, <1>h, <3>1, JoinedQueues
    <3> QED BY <1>h, <3>1, <3>2 DEF CoordComes
  <2>4. CASE Loses \/ ShakesAgain
    BY <2>4, WireIs DEF Loses, ShakesAgain, CoordComes, Renewing
  <2>5. CASE queueP' = queueP
    BY <1>5, <1>h, <2>5 DEF CoordComes
  <2> QED BY <2>1, <2>2, <2>3, <2>4, <2>5, EveryStep
          DEF PartStep, PartDrop, PartAttach, PartCheck, PartGoOn,
              PartWrite, PartTell, PartFinal, Puts, Still, PartSame,
              MainStep, Begins, PollLost, Emptied, WorkerSame,
              CoordStep, CoordTake, CoordDrop, CoordAttach, CoordCheck, CoordGoOn,
              CoordApprove, CoordWrite, CoordShake, CoordTell, CoordFinal
<1>6. CASE pcP \in {"manifest", "bundle", "write"} /\ kobjP = M
  <2>1. CASE PartStep
    <3>1. ~PartWrite
      <4>1. SUFFICES ASSUME PartWrite PROVE FALSE
        OBVIOUS
      <4>2. kobjP.rid = c /\ kobjP.event # "FORGET" /\ kobjP.version # None /\ normP # "FORGET"
        BY <1>6, <4>1, Objects, Values DEF PartWrite, Shapes, HeldP, Held
      <4>3. cacheP'[c] # None
        BY <4>1, <4>2 DEF PartWrite, Shapes, Caches, Rids
      <4> QED BY <4>3
    <3>2. CASE PartCheck \/ PartGoOn
      <4>1. pcP' \in {"bundle", "write"} /\ kobjP' = kobjP
        BY <1>6, <3>2 DEF PartCheck, PartGoOn
      <4> QED BY <1>6, <1>h, <4>1 DEF CoordComes
    <3> QED BY <1>1, <1>6, <1>h, <2>1, <3>1, <3>2, Names
            DEF PartStep, PartTake, PartSkip, PartDrop, PartAttach, PartApprove, PartPropose,
                PartTell, PartFinal
  <2>2. CASE Loses \/ ShakesAgain
    BY <2>2, WireIs DEF Loses, ShakesAgain, CoordComes, Renewing
  <2>3. CASE pcP' = pcP /\ kobjP' = kobjP
    BY <1>6, <1>h, <2>3 DEF CoordComes
  <2> QED BY <1>6, <2>1, <2>2, <2>3, EveryStep
          DEF Puts, Still, PartSame, MainStep, Begins, Polls, PollLost, Emptied, WorkerSame,
              CoordStep, CoordTake, CoordDrop, CoordAttach, CoordCheck, CoordGoOn,
              CoordApprove, CoordWrite, CoordShake, CoordTell, CoordFinal
<1> QED BY <1>1, <1>2, <1>3, <1>4, <1>5, <1>6 DEF CoordComes

-----------------------------------------------------------------------------
(* The edge that the coordinator proposed comes back: who makes it forget   *)
(* that edge makes it propose it anew.                                      *)

BackChange == {k \in EdgeObjects(p) : k.rid = Back /\ k.event # "FORGET"}
BackForget == {k \in EdgeObjects(p) : k.rid = Back /\ k.event = "FORGET"}
ForgetsBack == pcC \in Unwritten /\ kobjC.rid = Back /\ kobjC.event = "FORGET"
ChangeInHand == pcC \in {"manifest", "bundle", "write"} /\ kobjC.rid = Back /\ kobjC.event # "FORGET"

ChangeToCome == Holds(queueC, BackChange) \/ (cacheC[Back] = None /\ ChangeInHand)

BackComes ==
    \/ Renewing
    \/ /\ Followed(queueC, BackForget, BackChange)
       /\ cacheC[Back] = None \/ ForgetsBack => ChangeToCome

LEMMA BackIsOne ==
    /\ BackChange' = BackChange /\ BackForget' = BackForget
    /\ BackChange \intersect BackForget = {}
    /\ F \notin BackChange \union BackForget /\ N \notin BackChange \union BackForget
<1>1. BackChange' = BackChange /\ BackForget' = BackForget
  BY DEF BackChange, BackForget
<1>2. F \notin EdgeObjects(p) /\ N \notin EdgeObjects(p)
  BY NodesAreNoEdges
<1> QED BY <1>1, <1>2 DEF BackChange, BackForget

LEMMA ShakenBack == ASSUME Shapes, CoordShake PROVE BackComes'
<1>1. PICK b \in EdgeObjects(p), f \in EdgeObjects(p) :
        /\ f.rid = Back /\ f.event = "FORGET"
        /\ b.rid = Back /\ b.event = None
        /\ queueC' = queueC \o <<f, b>>
  BY DEF CoordShake
<1>2. f \in CoordObjects /\ b \in CoordObjects /\ b \in BackChange /\ b \notin BackForget
  BY <1>1, NoneIsNew DEF BackChange, BackForget, CoordObjects
<1>3. queueC \in Seq(CoordObjects) /\ <<f, b>> \in Seq(CoordObjects)
  BY <1>2 DEF Shapes, Underway
<1>4. Followed(<<f, b>>, BackForget, BackChange) /\ Holds(<<f, b>>, BackChange)
  BY <1>2, ShortQueues
<1>5. Followed(queueC \o <<f, b>>, BackForget, BackChange)
  BY <1>3, <1>4, JoinedQueues
<1>6. Holds(queueC \o <<f, b>>, BackChange)
  BY <1>3, <1>4, JoinedQueues
<1> QED BY <1>1, <1>5, <1>6, BackIsOne DEF BackComes, ChangeToCome

LEMMA BackComesCoord ==
    ASSUME Shapes, BackComes, ~Renewing, CoordStep, ~CoordShake
    PROVE  BackComes'
<1>h. /\ Followed(queueC, BackForget, BackChange)
      /\ cacheC[Back] = None \/ ForgetsBack => ChangeToCome
      /\ queueC \in Seq(CoordObjects)
      /\ pcC # "idle" => kobjC.rid \in {p} \union EdgeRids /\ kobjC.rid \in Rids
      /\ pcC = "manifest" => kobjC.event # "FORGET"
      /\ pcC = "forget" => kobjC.event = "FORGET"
      /\ pcC \in {"bundle", "write"} => (normC = "FORGET" <=> kobjC.event = "FORGET") /\ kobjC.version # None
      /\ cacheC \in [Rids -> Versions \union {Profile(c), Profile(p), None}]
  BY InProcess DEF BackComes, Shapes, Underway, HeldC, Held, Caches, Normed
<1>1. CASE CoordTake
  <2>1. queueC # <<>> /\ queueC' = Tail(queueC) /\ kobjC' = Head(queueC) /\ kobjC' \in CoordObjects
    BY <1>1, NodesTaken
  <2>2. /\ Followed(Tail(queueC), BackForget, BackChange)
        /\ Head(queueC) \in BackForget => Holds(Tail(queueC), BackChange)
    BY <1>h, <2>1, TailQueue
  <2>3. Holds(queueC, BackChange) <=> Head(queueC) \in BackChange \/ Holds(Tail(queueC), BackChange)
    BY <1>h, <2>1, TailQueue
  <2>4. /\ pcC = "idle" /\ cacheC' = cacheC /\ pcC' \in {"forget", "manifest"}
        /\ pcC' = "forget" <=> kobjC'.event = "FORGET"
    BY <1>1 DEF CoordTake
  <2>5. kobjC'.rid = Back =>
          /\ kobjC'.event = "FORGET" => kobjC' \in BackForget
          /\ kobjC'.event # "FORGET" => kobjC' \in BackChange
    BY <2>1, Names, Objects DEF CoordObjects, BackChange, BackForget
  <2>6. kobjC' \in BackChange => kobjC'.rid = Back /\ kobjC'.event # "FORGET"
    BY DEF BackChange
  <2>7. ASSUME (cacheC[Back] = None \/ ForgetsBack)' PROVE ChangeToCome'
    <3>1. CASE ForgetsBack'
      BY <2>1, <2>2, <2>5, <3>1, BackIsOne DEF ForgetsBack, ChangeToCome
    <3>2. CASE cacheC[Back] = None
      <4>1. kobjC' \in BackChange => (cacheC[Back] = None /\ ChangeInHand)'
        BY <2>4, <2>6, <3>2 DEF ChangeInHand
      <4>2. Holds(queueC, BackChange)
        BY <1>h, <2>4, <3>2 DEF ChangeToCome, ChangeInHand
      <4> QED BY <2>1, <2>3, <4>1, <4>2, BackIsOne DEF ChangeToCome
    <3> QED BY <2>4, <2>7, <3>1, <3>2
  <2> QED BY <2>1, <2>2, <2>7, BackIsOne DEF BackComes
<1>2. CASE ~CoordTake
  <2>1. /\ Followed(queueC', BackForget, BackChange)
        /\ Holds(queueC, BackChange) => Holds(queueC', BackChange)
    <3>1. CASE CoordApprove
      <4>1. PICK k \in EdgeObjects(p) : k.rid = Toward /\ queueC' = queueC \o <<k>>
        BY <3>1 DEF CoordApprove
      <4>2. k \in CoordObjects /\ k \notin BackForget
        BY <4>1, Names DEF BackForget, CoordObjects
      <4>3. <<k>> \in Seq(CoordObjects)
        BY <4>2
      <4>4. Followed(<<k>>, BackForget, BackChange)
        BY <4>2, ShortQueues
      <4>5. Followed(queueC \o <<k>>, BackForget, BackChange)
        BY <1>h, <4>3, <4>4, JoinedQueues
      <4>6. Holds(queueC, BackChange) => Holds(queueC \o <<k>>, BackChange)
        BY <1>h, <4>3, JoinedQueues
      <4> QED BY <4>1, <4>5, <4>6
    <3>2. CASE CoordFinal
      <4>1. PICK s \in Seq({k \in EdgeObjects(p) : k.event = "FORGET" /\ k.source = None}) :
               queueC' = queueC \o s /\ (s # <<>> => normC = "FORGET" /\ kobjC.rid = p)
        BY <3>2 DEF CoordFinal
      <4>2. pcC = "broadcast" /\ pcC \in Past /\ pcC # "idle"
        BY <3>2 DEF CoordFinal, Past
      <4>3. ~(normC = "FORGET" /\ kobjC.rid = p)
        BY <4>2 DEF Shapes, HeldC, Held, Renewing
      <4>4. queueC' = queueC
        BY <1>h, <4>1, <4>3, Unqueued
      <4> QED BY <1>h, <4>4
    <3>3. CASE queueC' = queueC
      BY <1>h, <3>3
    <3> QED BY <1>2, <3>1, <3>2, <3>3
            DEF CoordStep, CoordDrop, CoordAttach, CoordCheck, CoordGoOn, CoordWrite, CoordTell
  <2>2. ASSUME (cacheC[Back] = None \/ ForgetsBack)' PROVE ChangeToCome'
    <3>1. CASE CoordDrop
      <4>1. pcC' = "idle" /\ cacheC' = cacheC /\ (pcC = "manifest" => cacheC[kobjC.rid] # None)
            /\ (pcC = "bundle" => kobjC.rid = Toward) /\ pcC # "write"
        BY <3>1 DEF CoordDrop
      <4>2. cacheC[Back] = None /\ ~ChangeInHand
        BY <2>2, <4>1, Names DEF ForgetsBack, Unwritten, ChangeInHand
      <4> QED BY <4>2, <2>1, <1>h, BackIsOne DEF ChangeToCome
    <3>2. CASE CoordAttach
      <4>1. pcC = "forget" /\ cacheC' = cacheC /\ cacheC[kobjC.rid] # None
            /\ kobjC' = [kobjC EXCEPT !.version = cacheC[kobjC.rid], !.full = TRUE]
        BY <3>2 DEF CoordAttach
      <4>2. kobjC'.rid = kobjC.rid /\ kobjC.event = "FORGET"
        BY <4>1 DEF Shapes, HeldC, Held
      <4>3. cacheC[Back] = None \/ ForgetsBack
        BY <2>2, <4>1, <4>2 DEF ForgetsBack, Unwritten
      <4> QED BY <4>1, <4>3, <2>1, <1>h, BackIsOne DEF ChangeToCome, ChangeInHand
    <3>3. CASE CoordCheck \/ CoordGoOn \/ CoordApprove
      <4>1. /\ kobjC' = kobjC /\ cacheC' = cacheC
            /\ \/ pcC = "manifest" /\ pcC' = "bundle"
               \/ pcC = "bundle" /\ pcC' = "write"
               \/ pcC' \in {"network", "broadcast"} /\ pcC \in {"graph", "network"}
        BY <3>3 DEF CoordCheck, CoordGoOn, CoordApprove
      <4>2. cacheC[Back] = None \/ ForgetsBack
        BY <2>2, <4>1, <1>h DEF ForgetsBack, Unwritten
      <4>3. ChangeInHand => ChangeInHand'
        BY <4>1 DEF ChangeInHand
      <4> QED BY <4>1, <4>2, <4>3, <2>1, <1>h, BackIsOne DEF ChangeToCome
    <3>4. CASE CoordWrite
      <4>1. /\ kobjC' = kobjC /\ pcC = "write" /\ pcC' = "graph"
            /\ cacheC' = [cacheC EXCEPT ![kobjC.rid] = IF normC = "FORGET" THEN None ELSE kobjC.version]
        BY <3>4 DEF CoordWrite
      <4>2. cacheC'[Back] = None
        BY <2>2, <4>1 DEF ForgetsBack, Unwritten
      <4>3. CASE kobjC.rid = Back
        <5>1. ForgetsBack /\ ~ChangeInHand
          BY <4>1, <4>2, <4>3, <1>h, Names DEF ForgetsBack, Unwritten, ChangeInHand
        <5> QED BY <5>1, <2>1, <1>h, BackIsOne DEF ChangeToCome
      <4>4. CASE kobjC.rid # Back
        <5>1. cacheC[Back] = None /\ ~ChangeInHand
          BY <4>1, <4>2, <4>4, <1>h, Names DEF ChangeInHand
        <5> QED BY <5>1, <2>1, <1>h, BackIsOne DEF ChangeToCome
      <4> QED BY <4>3, <4>4
    <3>5. CASE CoordTell \/ CoordFinal
      <4>1. cacheC' = cacheC /\ pcC = "broadcast" /\ pcC' \in {"idle", "broadcast"}
        BY <3>5 DEF CoordTell, CoordFinal
      <4>2. cacheC[Back] = None /\ ~ChangeInHand
        BY <2>2, <4>1 DEF ForgetsBack, Unwritten, ChangeInHand
      <4> QED BY <4>2, <2>1, <1>h, BackIsOne DEF ChangeToCome
    <3> QED BY <1>2, <3>1, <3>2, <3>3, <3>4, <3>5 DEF CoordStep
  <2> QED BY <2>1, <2>2, BackIsOne DEF BackComes
<1> QED BY <1>1, <1>2

LEMMA BackComesStep == ASSUME Shapes, BackComes, [Next]_vars PROVE BackComes'
<1>1. CASE CoordShake
  BY <1>1, ShakenBack
<1>2. CASE Renewing /\ ~CoordShake
  BY <1>2, RenewingStep DEF BackComes
<1>3. CASE ~Renewing /\ ~CoordShake
  <2>1. CASE CoordStep
    BY <1>3, <2>1, BackComesCoord
  <2>2. CASE PartStep \/ MainStep \/ Still
    <3>1. UNCHANGED <<cacheC, queueC, pcC, kobjC>>
      BY <2>2 DEF PartStep, PartTake, PartSkip, PartDrop, PartAttach, PartCheck, PartGoOn,
           PartApprove, PartWrite, PartPropose, PartTell, PartFinal, AtWork, CoordSame, Still,
           MainStep, Begins, ShakesAgain, Polls, PollLost, Emptied, Loses
    <3> QED BY <1>3, <3>1, BackIsOne DEF BackComes, ChangeToCome, ForgetsBack, ChangeInHand
  <2>3. CASE Puts
    <3>1. UNCHANGED <<cacheC, pcC, kobjC>> /\ queueC \in Seq(CoordObjects)
      BY <2>3 DEF Puts, Shapes, Underway
    <3>2. PICK k \in CoordObjects : queueC' = queueC \o <<k>> /\ k \notin BackForget
      <4>1. N \in CoordObjects /\ EdgeObjects(p) \subseteq CoordObjects
        BY DEF CoordObjects
      <4>2. CASE PutsEdge
        <5>1. PICK e \in ToCoord : queueC' = queueC \o <<Coord!Knowledge(e.rid, e.event, p, e.version)>>
          BY <4>2 DEF PutsEdge
        <5>2. PICK k : k = Coord!Knowledge(e.rid, e.event, p, e.version)
          OBVIOUS
        <5>3. k \in EdgeObjects(p) /\ k.event = e.event /\ e.event # "FORGET"
          BY <5>2, EdgeEventsPut DEF ToCoord, Coord!Knowledge
        <5> QED BY <4>1, <5>1, <5>2, <5>3 DEF BackForget
      <4>3. CASE PutsNew
        BY <4>1, <4>3, BackIsOne DEF PutsNew
      <4>4. CASE PutsForget
        BY <1>3, <4>4 DEF PutsForget, Renewing
      <4> QED BY <2>3, <4>2, <4>3, <4>4, PutOne
    <3>3. <<k>> \in Seq(CoordObjects)
      BY <3>2
    <3>4. Followed(<<k>>, BackForget, BackChange)
      BY <3>2, ShortQueues
    <3>5. Followed(queueC, BackForget, BackChange) => Followed(queueC \o <<k>>, BackForget, BackChange)
      BY <3>1, <3>3, <3>4, JoinedQueues
    <3>6. Holds(queueC, BackChange) => Holds(queueC \o <<k>>, BackChange)
      BY <3>1, <3>3, JoinedQueues
    <3> QED BY <1>3, <3>1, <3>2, <3>5, <3>6, BackIsOne
            DEF BackComes, ChangeToCome, ForgetsBack, ChangeInHand
  <2> QED BY <2>1, <2>2, <2>3, EveryStep
<1> QED BY <1>1, <1>2, <1>3

-----------------------------------------------------------------------------
(* The edge toward the partial node is proposed once: until its proposal is *)
(* sent the coordinator has nothing of it, and it gets there once.          *)

TowardC == {k \in EdgeObjects(p) : k.rid = Toward}
SentC == {k \in TowardC : k.source # None}
ForgetsC == {k \in TowardC : k.event = "FORGET"}
ChangesC == {k \in TowardC : k.event # "FORGET"}
TowardP == {k \in EdgeObjects(c) : k.rid = Toward}
OwnP == {k \in TowardP : k.source = None}
SentP == {k \in TowardP : k.source # None}
ForgetsP == {k \in TowardP : k.event = "FORGET"}
TowardEvents == {e \in EdgeEvents(p) : e.rid = Toward}
ForgetEvents == {e \in TowardEvents : e.event = "FORGET"}

InHandC == pcC # "idle" /\ kobjC.rid = Toward
OwnInHandP == pcP # "idle" /\ kobjP.rid = Toward /\ kobjP.source = None
AtCoord == cacheC[Toward] # None \/ Holds(queueC, TowardC) \/ InHandC
OnItsWay ==
    \/ Holds(pollqueue, TowardEvents) \/ Holds(queueP, SentP)
    \/ pcP # "idle" /\ kobjP.rid = Toward /\ kobjP.source # None
Sending == \E e \in ToCoord : e.rid = Toward /\ server = <<e>>

Unproposed == cacheP[c] = None \/ (pcP \in {"graph", "network"} /\ kobjP = M)
Unsent == OwnInHandP /\ (pcP = "broadcast" => targetsP # {})
Pending == Unproposed \/ Holds(queueP, OwnP) \/ Unsent

ProposedOnce ==
    /\ Unproposed => ~Holds(queueP, OwnP) /\ ~OwnInHandP
    /\ Alone(queueP, OwnP, OwnP)
    /\ Holds(queueP, OwnP) => ~OwnInHandP
SentOnce ==
    /\ Pending => ~AtCoord /\ ~OnItsWay /\ ~Sending
    /\ Sending => ~AtCoord
GotOnce ==
    /\ Alone(queueC, SentC, TowardC)
    /\ Holds(queueC, SentC) => cacheC[Toward] = None /\ ~InHandC
    /\ pcC \in {"manifest", "bundle"} /\ InHandC /\ kobjC.source = p /\ kobjC.event # "FORGET" =>
         ~Holds(queueC, TowardC)

TowardSets == <<TowardC, SentC, ForgetsC, ChangesC, TowardP, OwnP, SentP, ForgetsP, TowardEvents,
                ForgetEvents, ToCoord>>

LEMMA TowardIsOne ==
    /\ TowardSets' = TowardSets
    /\ TowardC' = TowardC /\ SentC' = SentC /\ ForgetsC' = ForgetsC /\ ChangesC' = ChangesC
    /\ TowardP' = TowardP /\ OwnP' = OwnP /\ SentP' = SentP /\ ForgetsP' = ForgetsP
    /\ TowardEvents' = TowardEvents /\ ForgetEvents' = ForgetEvents /\ ToCoord' = ToCoord
  BY DEF TowardSets, TowardC, SentC, ForgetsC, ChangesC, TowardP, OwnP, SentP, ForgetsP, TowardEvents,
         ForgetEvents, ToCoord

(* What the coordinator adds to its queue about that edge.                  *)
Adds(s) ==
    /\ s \in Seq(EdgeObjects(p)) /\ queueC' = queueC \o s
    /\ ~Holds(s, SentC)
    /\ ~CoordApprove => ~Holds(s, ChangesC)
    /\ CoordApprove => ~Holds(s, ForgetsC)
    /\ cacheC[Toward] = None /\ ~CoordApprove => ~Holds(s, TowardC)

LEMMA CoordAdds ==
    ASSUME Shapes, CoordStep, ~CoordTake
    PROVE  \E s : Adds(s)
<1>0. queueC \in Seq(CoordObjects)
  BY DEF Shapes, Underway
<1>1. CASE CoordApprove
  <2>1. PICK k \in EdgeObjects(p) : k.source = None /\ k.event = "UPDATE" /\ queueC' = queueC \o <<k>>
    BY <1>1 DEF CoordApprove
  <2>2. (Holds(<<k>>, SentC) <=> k \in SentC) /\ (Holds(<<k>>, ForgetsC) <=> k \in ForgetsC)
    BY ShortQueues
  <2>3. <<k>> \in Seq(EdgeObjects(p))
    OBVIOUS
  <2>4. Adds(<<k>>)
    BY <1>1, <2>1, <2>2, <2>3 DEF Adds, SentC, ForgetsC
  <2> QED BY <2>4
<1>2. CASE CoordShake /\ ~CoordApprove
  <2>1. PICK b \in EdgeObjects(p), f \in EdgeObjects(p) :
           f.rid = Back /\ b.rid = Back /\ queueC' = queueC \o <<f, b>>
    BY <1>2 DEF CoordShake
  <2>2. b \notin TowardC /\ f \notin TowardC
    BY <2>1, Names DEF TowardC
  <2>3. ~Holds(<<f, b>>, SentC) /\ ~Holds(<<f, b>>, ChangesC) /\ ~Holds(<<f, b>>, TowardC)
    BY <2>2, ShortQueues DEF SentC, ChangesC
  <2>4. <<f, b>> \in Seq(EdgeObjects(p))
    OBVIOUS
  <2>5. Adds(<<f, b>>)
    BY <1>2, <2>1, <2>3, <2>4 DEF Adds
  <2> QED BY <2>5
<1>3. CASE CoordFinal /\ ~CoordApprove
  <2>1. PICK s \in Seq({k \in EdgeObjects(p) : k.event = "FORGET" /\ k.source = None}) :
           queueC' = queueC \o s /\ \A i \in DOMAIN s : cacheC[s[i].rid] # None
    BY <1>3 DEF CoordFinal
  <2>2. s \in Seq(EdgeObjects(p))
    OBVIOUS
  <2>3. \A i \in DOMAIN s : s[i].event = "FORGET" /\ s[i].source = None /\ cacheC[s[i].rid] # None
    BY <2>1, ElementOfSeq
  <2>4. ~Holds(s, SentC) /\ ~Holds(s, ChangesC) /\ (cacheC[Toward] = None => ~Holds(s, TowardC))
    BY <2>3 DEF Holds, SentC, ChangesC, TowardC
  <2>5. Adds(s)
    BY <1>3, <2>1, <2>2, <2>4 DEF Adds
  <2> QED BY <2>5
<1>4. CASE queueC' = queueC /\ ~CoordApprove
  <2>1. queueC' = queueC \o <<>> /\ <<>> \in Seq(EdgeObjects(p))
    BY <1>0, <1>4, Unqueued, EmptySeq
  <2>2. Adds(<<>>)
    BY <2>1, ShortQueues DEF Adds
  <2> QED BY <2>2
<1> QED BY <1>1, <1>2, <1>3, <1>4
        DEF CoordStep, CoordDrop, CoordAttach, CoordCheck, CoordGoOn, CoordWrite, CoordTell

LEMMA AddsTo ==
    ASSUME Shapes, NEW s, Adds(s)
    PROVE  /\ queueC \in Seq(CoordObjects) /\ s \in Seq(CoordObjects)
           /\ \A S : Holds(queueC', S) <=> Holds(queueC, S) \/ Holds(s, S)
<1>1. queueC \in Seq(CoordObjects) /\ s \in Seq(CoordObjects)
  <2>1. EdgeObjects(p) \subseteq CoordObjects
    BY DEF CoordObjects
  <2> QED BY <2>1 DEF Shapes, Underway, Adds
<1>2. ASSUME NEW S PROVE Holds(queueC \o s, S) <=> Holds(queueC, S) \/ Holds(s, S)
  BY <1>1, JoinedQueues
<1>3. queueC' = queueC \o s
  BY DEF Adds
<1> QED BY <1>1, <1>2, <1>3

LEMMA TakesToward ==
    ASSUME Shapes, CoordTake
    PROVE  /\ queueC \in Seq(CoordObjects) /\ queueC # <<>> /\ queueC' = Tail(queueC)
           /\ kobjC' = Head(queueC)
           /\ kobjC'.rid = Toward => kobjC' \in TowardC
           /\ \A S : Holds(queueC, S) <=> kobjC' \in S \/ Holds(queueC', S)
<1>1. /\ queueC \in Seq(CoordObjects) /\ queueC # <<>> /\ queueC' = Tail(queueC)
      /\ kobjC' = Head(queueC) /\ kobjC' \in CoordObjects
  BY NodesTaken
<1>2. kobjC'.rid = Toward => kobjC' \in TowardC
  <2>1. CASE kobjC' \in {F, N}
    BY <2>1, Objects, Names
  <2>2. CASE kobjC' \in EdgeObjects(p)
    BY <2>2 DEF TowardC
  <2> QED BY <1>1, <2>1, <2>2 DEF CoordObjects
<1>3. ASSUME NEW S PROVE Holds(queueC, S) <=> Head(queueC) \in S \/ Holds(Tail(queueC), S)
  BY <1>1, TailQueue
<1> QED BY <1>1, <1>2, <1>3

(* What the coordinator has in hand, and has written.                       *)
LEMMA CoordHands ==
    ASSUME Shapes, CoordStep, clock' \in Nat
    PROVE  /\ UNCHANGED <<server, cacheP, queueP, pcP, kobjP, targetsP>>
           /\ InHandC' => InHandC \/ CoordTake
           /\ InHandC' /\ ~CoordTake => kobjC'.event = kobjC.event /\ kobjC'.source = kobjC.source
           /\ cacheC'[Toward] # cacheC[Toward] => InHandC /\ CoordWrite
           /\ CoordApprove => InHandC /\ kobjC.source = p /\ kobjC.event # "FORGET" /\ pcC = "bundle"
           /\ Holds(pollqueue', TowardEvents) => Holds(pollqueue, TowardEvents) \/ InHandC
           /\ Holds(pollqueue', ForgetEvents) =>
                Holds(pollqueue, ForgetEvents) \/ (pcC \in Past /\ InHandC /\ kobjC.event = "FORGET")
<1>1. UNCHANGED <<server, cacheP, queueP, pcP, kobjP, targetsP>>
  BY DEF CoordStep, CoordTake, CoordDrop, CoordAttach, CoordCheck, CoordGoOn, CoordApprove,
         CoordWrite, CoordShake, CoordTell, CoordFinal, PartSame
<1>2. CASE CoordTake
  BY <1>1, <1>2 DEF CoordTake, CoordWrite, CoordApprove
<1>3. CASE CoordAttach
  <2>1. pcC = "forget" /\ kobjC' = [kobjC EXCEPT !.version = cacheC[kobjC.rid], !.full = TRUE]
    BY <1>3 DEF CoordAttach
  <2>2. kobjC'.rid = kobjC.rid /\ kobjC'.event = kobjC.event /\ kobjC'.source = kobjC.source
    BY <2>1 DEF Shapes, HeldC, Held
  <2> QED BY <1>1, <1>3, <2>1, <2>2 DEF CoordAttach, CoordWrite, CoordApprove, InHandC
<1>4. CASE CoordWrite
  <2>1. pcC = "write" /\ kobjC' = kobjC /\ pollqueue' = pollqueue
        /\ cacheC' = [cacheC EXCEPT ![kobjC.rid] = IF normC = "FORGET" THEN None ELSE kobjC.version]
    BY <1>4 DEF CoordWrite
  <2>2. cacheC'[Toward] # cacheC[Toward] => kobjC.rid = Toward
    BY <2>1, Names DEF Shapes, Caches
  <2> QED BY <1>1, <1>4, <2>1, <2>2 DEF CoordApprove, InHandC
<1>5. CASE CoordTell
  <2>1. /\ pcC = "broadcast" /\ pcC' = pcC /\ kobjC' = kobjC /\ cacheC' = cacheC
        /\ pollqueue' \in {pollqueue, Append(pollqueue, Told)}
    BY <1>5 DEF CoordTell
  <2>2. pollqueue \in Seq(ToPart) /\ pollqueue' \in Seq(ToPart)
    <3>1. Underway'
      BY CoordUnderway
    <3> QED BY <3>1 DEF Shapes, Underway
  <2>3. /\ Holds(pollqueue', TowardEvents) => Holds(pollqueue, TowardEvents) \/ InHandC
        /\ Holds(pollqueue', ForgetEvents) =>
             Holds(pollqueue, ForgetEvents) \/ (pcC \in Past /\ InHandC /\ kobjC.event = "FORGET")
    <3>1. CASE pollqueue' = Append(pollqueue, Told)
      <4>1. Len(pollqueue') = Len(pollqueue) + 1 /\ pollqueue'[Len(pollqueue) + 1] = Told
            /\ Len(pollqueue) \in Nat
        BY <3>1, <2>2
      <4>2. Told \in ToPart
        BY <2>2, <4>1, ElementOfSeq
      <4>3. pollqueue' = pollqueue \o <<Told>> /\ <<Told>> \in Seq(ToPart)
        BY <2>2, <3>1, <4>2, AppendIsConcat
      <4>4. ASSUME NEW S PROVE Holds(pollqueue \o <<Told>>, S) <=> Holds(pollqueue, S) \/ Told \in S
        <5>1. Holds(pollqueue \o <<Told>>, S) <=> Holds(pollqueue, S) \/ Holds(<<Told>>, S)
          BY <2>2, <4>3, JoinedQueues
        <5>2. Holds(<<Told>>, S) <=> Told \in S
          BY ShortQueues
        <5> QED BY <5>1, <5>2
      <4>5. Told \in TowardEvents => InHandC
        BY <2>1 DEF TowardEvents, Told, InHandC
      <4>6. Told \in ForgetEvents => pcC \in Past /\ InHandC /\ kobjC.event = "FORGET"
        <5>1. "broadcast" \in Past /\ (normC = "FORGET" <=> kobjC.event = "FORGET")
          BY <2>1 DEF Past, Shapes, HeldC, Held
        <5>2. Told.event = normC
          BY DEF Told
        <5> QED BY <2>1, <4>5, <5>1, <5>2 DEF ForgetEvents
      <4> QED BY <4>3, <4>4, <4>5, <4>6
    <3> QED BY <2>1, <3>1
  <2> QED BY <1>1, <1>5, <2>1, <2>3 DEF CoordApprove, CoordWrite, InHandC
<1>6. CASE CoordShake
  <2>1. pcC = "network" /\ kobjC' = kobjC /\ cacheC' = cacheC
        /\ pollqueue' = Append(pollqueue, NodeEvent(c, "NEW"))
    BY <1>6 DEF CoordShake
  <2>2. /\ pollqueue \in Seq(ToPart) /\ NodeEvent(c, "NEW") \in ToPart
        /\ NodeEvent(c, "NEW") \notin TowardEvents /\ NodeEvent(c, "NEW") \notin ForgetEvents
    BY Names DEF Shapes, Underway, ToPart, NodeEvent, TowardEvents, ForgetEvents
  <2>3. pollqueue' = pollqueue \o <<NodeEvent(c, "NEW")>> /\ <<NodeEvent(c, "NEW")>> \in Seq(ToPart)
    BY <2>1, <2>2, AppendIsConcat
  <2>4. ASSUME NEW S, NodeEvent(c, "NEW") \notin S
        PROVE  Holds(pollqueue \o <<NodeEvent(c, "NEW")>>, S) => Holds(pollqueue, S)
    <3>1. Holds(pollqueue \o <<NodeEvent(c, "NEW")>>, S) <=>
             Holds(pollqueue, S) \/ Holds(<<NodeEvent(c, "NEW")>>, S)
      BY <2>2, <2>3, JoinedQueues
    <3>2. ~Holds(<<NodeEvent(c, "NEW")>>, S)
      BY <2>4, ShortQueues
    <3> QED BY <3>1, <3>2
  <2> QED BY <1>1, <1>6, <2>1, <2>2, <2>3, <2>4 DEF CoordApprove, CoordWrite, InHandC
<1>7. CASE CoordDrop \/ CoordCheck \/ CoordGoOn \/ CoordApprove \/ CoordFinal
  <2>1. cacheC' = cacheC /\ pollqueue' = pollqueue /\ (pcC' = "idle" \/ (pcC # "idle" /\ kobjC' = kobjC))
    BY <1>7 DEF CoordDrop, CoordCheck, CoordGoOn, CoordApprove, CoordFinal
  <2> QED BY <1>1, <2>1 DEF CoordApprove, InHandC
<1> QED BY <1>2, <1>3, <1>4, <1>5, <1>6, <1>7 DEF CoordStep

LEMMA UntoldCoord ==
    ASSUME Shapes, CoordStep, clock' \in Nat, ~AtCoord
    PROVE  ~AtCoord'
<1>1. cacheC[Toward] = None /\ ~Holds(queueC, TowardC) /\ ~InHandC
  BY DEF AtCoord
<1>2. CASE CoordTake
  <2>1. kobjC' \notin TowardC /\ ~Holds(queueC', TowardC)
    BY <1>1, <1>2, TakesToward
  <2> QED BY <1>1, <1>2, <2>1, TakesToward, TowardIsOne DEF AtCoord, InHandC, CoordTake
<1>3. CASE ~CoordTake
  <2>1. PICK s : Adds(s)
    BY <1>3, CoordAdds
  <2>2. ~Holds(s, TowardC)
    BY <1>1, <2>1, CoordHands DEF Adds
  <2>3. ~Holds(queueC', TowardC)
    BY <1>1, <2>1, <2>2, AddsTo
  <2> QED BY <1>1, <1>3, <2>3, CoordHands, TowardIsOne DEF AtCoord
<1> QED BY <1>2, <1>3

LEMMA TakesTowardP ==
    ASSUME Shapes, PartTake \/ PartSkip
    PROVE  /\ queueP \in Seq(PartObjects) /\ queueP # <<>> /\ queueP' = Tail(queueP)
           /\ PartTake => kobjP' = Head(queueP)
           /\ PartTake /\ kobjP'.rid = Toward => kobjP' \in TowardP
           /\ \A S : Holds(queueP, S) <=> Head(queueP) \in S \/ Holds(queueP', S)
<1>1. queueP \in Seq(PartObjects) /\ queueP # <<>> /\ queueP' = Tail(queueP)
      /\ (PartTake => kobjP' = Head(queueP))
  BY DEF PartTake, PartSkip, Shapes, Underway
<1>2. Head(queueP).rid = Toward => Head(queueP) \in TowardP
  <2>1. Head(queueP) \in PartObjects
    BY <1>1, FirstOf
  <2>2. M.rid # Toward /\ p # Toward
    BY Objects, Names
  <2> QED BY <2>1, <2>2 DEF PartObjects, AboutPart, TowardP
<1>3. ASSUME NEW S PROVE Holds(queueP, S) <=> Head(queueP) \in S \/ Holds(Tail(queueP), S)
  BY <1>1, TailQueue
<1> QED BY <1>1, <1>2, <1>3

LEMMA PolledToward ==
    ASSUME Shapes, NEW s, s = [i \in DOMAIN pollqueue |-> Received(pollqueue[i])]
    PROVE  /\ s \in Seq(PartObjects) /\ ~Holds(s, OwnP)
           /\ Holds(s, SentP) => Holds(pollqueue, TowardEvents)
           /\ Holds(s, ForgetsP) => Holds(pollqueue, ForgetEvents)
<1>1. s \in Seq(PartObjects)
  BY ArrivesInOrder
<1>2. ASSUME NEW i \in DOMAIN pollqueue
      PROVE  /\ s[i].source = c /\ s[i].event = pollqueue[i].event
             /\ s[i].rid = Toward => pollqueue[i] \in TowardEvents
  <2>1. pollqueue[i] \in ToPart
    BY ElementOfSeq DEF Shapes, Underway
  <2>2. PICK e \in ToPart : e = pollqueue[i] /\ s[i] = Received(e)
    BY <2>1
  <2>3. s[i].source = c /\ s[i].event = e.event /\ s[i].rid = e.rid
    BY <2>2 DEF Received, Part!Knowledge
  <2>4. e.rid = Toward => e \in TowardEvents
    BY <2>2, Names DEF ToPart, NodeEvent, TowardEvents
  <2> QED BY <2>2, <2>3, <2>4
<1>3. DOMAIN s = DOMAIN pollqueue /\ c # None
  OBVIOUS
<1>4. ~Holds(s, OwnP)
  BY <1>2, <1>3 DEF Holds, OwnP
<1>5. Holds(s, SentP) => Holds(pollqueue, TowardEvents)
  BY <1>2, <1>3 DEF Holds, SentP, TowardP
<1>6. Holds(s, ForgetsP) => Holds(pollqueue, ForgetEvents)
  BY <1>2, <1>3 DEF Holds, ForgetsP, TowardP, ForgetEvents
<1> QED BY <1>1, <1>4, <1>5, <1>6

(* What the partial node has in hand, and tells.                            *)
LEMMA PartHands ==
    ASSUME Shapes, PartStep
    PROVE  /\ UNCHANGED <<cacheC, queueC, pcC, kobjC, pollqueue, mode>> /\ server = <<>>
           /\ pcP' # "idle" /\ ~PartTake => /\ pcP # "idle" /\ kobjP'.rid = kobjP.rid
                                            /\ kobjP'.source = kobjP.source /\ kobjP'.event = kobjP.event
           /\ Unsent' => Unsent \/ PartTake
           /\ Sending' => PartTell /\ Unsent /\ cacheP'[Toward] # None
           /\ PartTell => ~Unsent'
<1>1. UNCHANGED <<cacheC, queueC, pcC, kobjC, pollqueue, mode>> /\ server = <<>>
  BY DEF PartStep, PartTake, PartSkip, PartDrop, PartAttach, PartCheck, PartGoOn, PartApprove,
         PartWrite, PartPropose, PartTell, PartFinal, AtWork, CoordSame
<1>2. pcP' # "idle" /\ ~PartTake => /\ pcP # "idle" /\ kobjP'.rid = kobjP.rid
                                    /\ kobjP'.source = kobjP.source /\ kobjP'.event = kobjP.event
  <2>1. CASE PartAttach
    <3>1. pcP = "forget" /\ kobjP' = [kobjP EXCEPT !.version = cacheP[kobjP.rid], !.full = TRUE]
      BY <2>1 DEF PartAttach
    <3> QED BY <3>1 DEF Shapes, HeldP, Held
  <2> QED BY <2>1 DEF PartStep, PartSkip, PartDrop, PartCheck, PartGoOn, PartApprove,
                      PartWrite, PartPropose, PartTell, PartFinal
<1>3. ASSUME Unsent', ~PartTake PROVE Unsent /\ ~PartTell
  <2>1. pcP' # "idle" /\ OwnInHandP /\ (pcP' = "broadcast" => targetsP' # {})
    BY <1>2, <1>3 DEF Unsent, OwnInHandP
  <2>2. pcP = "broadcast" => targetsP # {} /\ ~PartTell
    BY <2>1 DEF PartStep, PartTake, PartSkip, PartDrop, PartAttach, PartCheck, PartGoOn,
                PartApprove, PartWrite, PartPropose, PartTell, PartFinal
  <2> QED BY <2>1, <2>2 DEF Unsent, PartTell
<1>4. ~(PartTake /\ PartTell)
  BY DEF PartTake, PartTell
<1>5. ASSUME Sending' PROVE PartTell /\ Unsent /\ cacheP'[Toward] # None
  <2>1. server' # <<>> /\ server' # Handshake
    BY <1>5, EdgeEventsPut, TowardIsOne DEF Sending
  <2>2. PartTell
    BY <1>1, <2>1 DEF PartStep, PartTake, PartSkip, PartDrop, PartAttach, PartCheck, PartGoOn,
                      PartApprove, PartWrite, PartPropose, PartFinal
  <2>3. PICK e \in ToCoord : e.rid = kobjP.rid /\ server' = <<e>>
    BY <2>1, <2>2 DEF PartTell
  <2>4. PICK d \in ToCoord : d.rid = Toward /\ server' = <<d>>
    BY <1>5, TowardIsOne DEF Sending
  <2>5. d = e
    BY <2>3, <2>4
  <2>6. kobjP.rid = Toward /\ pcP = "broadcast" /\ targetsP # {} /\ cacheP' = cacheP
    BY <2>2, <2>3, <2>4, <2>5 DEF PartTell
  <2>7. /\ kobjP.source = None /\ (kobjP.event = "FORGET" => kobjP.source = c) /\ kobjP.version # None
        /\ kobjP.event = "FORGET" <=> normP = "FORGET"
        /\ cacheP[kobjP.rid] = IF normP = "FORGET" THEN None ELSE kobjP.version
    BY <2>6 DEF Shapes, HeldP, Held, Normed, Past
  <2> QED BY <2>2, <2>6, <2>7 DEF Unsent, OwnInHandP
<1> QED BY <1>1, <1>2, <1>3, <1>4, <1>5

LEMMA UnproposedBack == ASSUME Shapes, [Next]_vars, Unproposed' PROVE Unproposed
<1>1. CASE cacheP'[c] = None
  BY <1>1, ContactKept DEF Unproposed
<1>2. CASE pcP' \in {"graph", "network"} /\ kobjP' = M
  <2>1. M' = M /\ M.rid = c
    BY Objects DEF M
  <2>2. CASE PartWrite
    BY <1>2, <2>2 DEF PartWrite, Shapes, HeldP, Held, Unproposed
  <2>3. CASE PartGoOn
    BY <1>2, <2>3 DEF PartGoOn, Unproposed
  <2>4. CASE pcP' = pcP /\ kobjP' = kobjP
    BY <1>2, <2>4 DEF Unproposed
  <2> QED BY <1>2, <2>2, <2>3, <2>4, EveryStep
          DEF PartStep, PartTake, PartSkip, PartDrop, PartAttach, PartCheck, PartApprove,
              PartPropose, PartTell, PartFinal, Puts, Still, PartSame,
              MainStep, Begins, ShakesAgain, Polls, PollLost, Emptied, Loses, WorkerSame,
              CoordStep, CoordTake, CoordDrop, CoordAttach, CoordCheck, CoordGoOn, CoordApprove,
              CoordWrite, CoordShake, CoordTell, CoordFinal
<1> QED BY <1>1, <1>2 DEF Unproposed

(* What the main thread does to the partial node's work.                    *)
LEMMA MainHands ==
    ASSUME Shapes, MainStep
    PROVE  /\ UNCHANGED <<cacheC, cacheP, queueC, pcC, kobjC>>
           /\ pcP' = "idle" \/ (pcP' = pcP /\ kobjP' = kobjP /\ targetsP' = targetsP)
           /\ pollqueue' \in {pollqueue, <<>>}
           /\ server' \in {server, <<>>, Handshake}
           /\ \/ queueP' \in {queueP, <<>>}
              \/ \E s : /\ s = [i \in DOMAIN pollqueue |-> Received(pollqueue[i])]
                        /\ queueP' = queueP \o s
<1>1. CASE Polls
  BY <1>1 DEF Polls, CoordSame
<1>2. CASE ~Polls
  BY <1>2 DEF MainStep, Begins, ShakesAgain, PollLost, Emptied, Loses, CoordSame, WorkerSame
<1> QED BY <1>1, <1>2

LEMMA OtherHands ==
    ASSUME CoordStep \/ Puts \/ Still
    PROVE  UNCHANGED <<cacheP, queueP, pcP, kobjP, targetsP>>
  BY DEF CoordStep, CoordTake, CoordDrop, CoordAttach, CoordCheck, CoordGoOn, CoordApprove,
         CoordWrite, CoordShake, CoordTell, CoordFinal, Puts, Still, PartSame

(* What the partial node adds to its queue in a step of its worker.         *)
LEMMA PartAdds ==
    ASSUME Shapes, PartStep, ~PartTake, ~PartSkip
    PROVE  /\ queueP \in Seq(PartObjects)
           /\ \/ queueP' = queueP
              \/ \E k \in EdgeObjects(c) : /\ queueP' = queueP \o <<k>> /\ <<k>> \in Seq(PartObjects)
                                           /\ k.source = None /\ k.event # "FORGET"
                                           /\ k \in TowardP => PartPropose
<1>0. queueP \in Seq(PartObjects)
  BY DEF Shapes, Underway
<1>1. CASE PartApprove \/ PartPropose
  <2>1. PICK k \in EdgeObjects(c) : /\ queueP' = queueP \o <<k>> /\ k.source = None /\ k.event # "FORGET"
                                    /\ k.rid = Toward => PartPropose
    BY <1>1, NoneIsNew, Names DEF PartApprove, PartPropose
  <2>2. <<k>> \in Seq(PartObjects)
    <3>1. k \in PartObjects
      BY <2>1 DEF PartObjects
    <3> QED BY <3>1
  <2> QED BY <1>0, <2>1, <2>2 DEF TowardP
<1> QED BY <1>0, <1>1 DEF PartStep, PartDrop, PartAttach, PartCheck, PartGoOn, PartWrite, PartTell, PartFinal

LEMMA AddsOne ==
    ASSUME NEW U, NEW q \in Seq(U), NEW x, <<x>> \in Seq(U), NEW S
    PROVE  Holds(q \o <<x>>, S) <=> Holds(q, S) \/ x \in S
<1>1. Holds(q \o <<x>>, S) <=> Holds(q, S) \/ Holds(<<x>>, S)
  BY JoinedQueues
<1>2. Holds(<<x>>, S) <=> x \in S
  BY ShortQueues
<1> QED BY <1>1, <1>2

LEMMA ProposedOnceStep == ASSUME Shapes, ProposedOnce, [Next]_vars PROVE ProposedOnce'
<1>h. /\ Unproposed => ~Holds(queueP, OwnP) /\ ~OwnInHandP
      /\ Alone(queueP, OwnP, OwnP)
      /\ Holds(queueP, OwnP) => ~OwnInHandP
      /\ OwnP' = OwnP /\ (Unproposed' => Unproposed)
  BY TowardIsOne, UnproposedBack DEF ProposedOnce
<1> SUFFICES /\ Unproposed' => ~Holds(queueP', OwnP) /\ ~OwnInHandP'
             /\ Alone(queueP', OwnP, OwnP)
             /\ Holds(queueP', OwnP) => ~OwnInHandP'
  BY <1>h DEF ProposedOnce
<1>1. CASE PartTake \/ PartSkip
  <2>1. /\ queueP \in Seq(PartObjects) /\ queueP # <<>> /\ queueP' = Tail(queueP)
        /\ Holds(queueP, OwnP) <=> Head(queueP) \in OwnP \/ Holds(queueP', OwnP)
    BY <1>1, TakesTowardP
  <2>2. Alone(Tail(queueP), OwnP, OwnP) /\ (Head(queueP) \in OwnP => ~Holds(Tail(queueP), OwnP))
    BY <1>h, <2>1, TailQueue
  <2>3. OwnInHandP' => Head(queueP) \in OwnP
    BY <1>1, TakesTowardP DEF OwnInHandP, OwnP, PartSkip
  <2> QED BY <1>h, <2>1, <2>2, <2>3
<1>2. CASE PartStep /\ ~PartTake /\ ~PartSkip
  <2>1. OwnInHandP' => OwnInHandP
    BY <1>2, PartHands DEF OwnInHandP
  <2>2. CASE queueP' = queueP
    BY <1>h, <2>1, <2>2
  <2>3. CASE \E k \in EdgeObjects(c) : /\ queueP' = queueP \o <<k>> /\ <<k>> \in Seq(PartObjects)
                                       /\ k.source = None /\ k.event # "FORGET"
                                       /\ k \in TowardP => PartPropose
    <3>1. PICK k \in EdgeObjects(c) : /\ queueP' = queueP \o <<k>> /\ <<k>> \in Seq(PartObjects)
                                      /\ k \in TowardP => PartPropose
      BY <2>3
    <3>2. queueP \in Seq(PartObjects)
      BY DEF Shapes, Underway
    <3>3. Holds(queueP', OwnP) <=> Holds(queueP, OwnP) \/ k \in OwnP
      BY <3>1, <3>2, AddsOne
    <3>4. Holds(<<k>>, OwnP) <=> k \in OwnP
      BY ShortQueues
    <3>5. Alone(<<k>>, OwnP, OwnP)
      BY ShortQueues
    <3>6. CASE PartPropose
      <4>1. pcP = "network" /\ pcP' = "catchup" /\ kobjP = M /\ cacheP' = cacheP /\ kobjP' = kobjP
        BY <3>6 DEF PartPropose
      <4>2. Unproposed
        BY <4>1 DEF Unproposed
      <4>3. M.rid = c /\ M.event = "NEW" /\ M.version # None
        BY Objects, Values
      <4>4. cacheP[c] # None
        BY <4>1, <4>3 DEF Shapes, HeldP, Held, Past
      <4>5. ~Unproposed' /\ ~OwnInHandP'
        BY <4>1, <4>3, <4>4, Names DEF Unproposed, OwnInHandP
      <4>6. ~Holds(queueP, OwnP)
        BY <4>2, <1>h
      <4>7. Alone(queueP \o <<k>>, OwnP, OwnP)
        BY <1>h, <3>1, <3>2, <3>5, <4>6, JoinedQueues
      <4> QED BY <3>1, <4>5, <4>7
    <3>7. CASE ~PartPropose
      <4>1. k \notin OwnP
        BY <3>1, <3>7 DEF OwnP
      <4>2. ~Holds(<<k>>, OwnP)
        BY <3>4, <4>1
      <4>3. Alone(queueP \o <<k>>, OwnP, OwnP)
        BY <1>h, <3>1, <3>2, <3>5, <4>2, JoinedQueues
      <4> QED BY <1>h, <2>1, <3>1, <3>3, <4>1, <4>3
    <3> QED BY <3>6, <3>7
  <2> QED BY <1>2, <2>2, <2>3, PartAdds
<1>3. CASE MainStep
  <2>1. OwnInHandP' => OwnInHandP
    BY <1>3, MainHands DEF OwnInHandP
  <2>2. CASE queueP' \in {queueP, <<>>}
    <3>1. ~Holds(<<>>, OwnP) /\ Alone(<<>>, OwnP, OwnP)
      BY ShortQueues
    <3> QED BY <1>h, <2>1, <2>2, <3>1
  <2>3. CASE \E s : /\ s = [i \in DOMAIN pollqueue |-> Received(pollqueue[i])]
                    /\ queueP' = queueP \o s
    <3>1. PICK s : /\ s = [i \in DOMAIN pollqueue |-> Received(pollqueue[i])]
                   /\ queueP' = queueP \o s
      BY <2>3
    <3>2. s \in Seq(PartObjects) /\ ~Holds(s, OwnP) /\ queueP \in Seq(PartObjects)
      BY <3>1, PolledToward DEF Shapes, Underway
    <3>3. Alone(s, OwnP, OwnP)
      BY <3>2, NotHeld
    <3>4. Alone(queueP \o s, OwnP, OwnP)
      BY <1>h, <3>2, <3>3, JoinedQueues
    <3>5. Holds(queueP \o s, OwnP) <=> Holds(queueP, OwnP) \/ Holds(s, OwnP)
      BY <3>2, JoinedQueues
    <3> QED BY <1>h, <2>1, <3>1, <3>2, <3>4, <3>5
  <2> QED BY <1>3, <2>2, <2>3, MainHands
<1>4. CASE CoordStep \/ Puts \/ Still
  BY <1>4, <1>h, OtherHands DEF OwnInHandP
<1> QED BY <1>1, <1>2, <1>3, <1>4, EveryStep DEF PartStep

(* Where that edge can come from, in one step.                              *)
LEMMA PendingBack == ASSUME Shapes, [Next]_vars, Pending' PROVE Pending
<1>h. OwnP' = OwnP /\ (Unproposed' => Unproposed)
  BY TowardIsOne, UnproposedBack
<1>1. CASE PartTake \/ PartSkip
  <2>1. Holds(queueP', OwnP) => Holds(queueP, OwnP)
    BY <1>1, TakesTowardP
  <2>2. Unsent' => Holds(queueP, OwnP)
    <3>1. Unsent' => kobjP' \in OwnP /\ PartTake
      BY <1>1, TakesTowardP DEF Unsent, OwnInHandP, OwnP, PartSkip
    <3> QED BY <1>1, <3>1, TakesTowardP
  <2> QED BY <1>h, <2>1, <2>2 DEF Pending
<1>2. CASE PartStep /\ ~PartTake /\ ~PartSkip
  <2>1. Unsent' => Unsent
    BY <1>2, PartHands
  <2>2. Holds(queueP', OwnP) => Holds(queueP, OwnP) \/ Unproposed
    <3>1. CASE \E k \in EdgeObjects(c) : /\ queueP' = queueP \o <<k>> /\ <<k>> \in Seq(PartObjects)
                                         /\ k.source = None /\ k.event # "FORGET"
                                         /\ k \in TowardP => PartPropose
      <4>1. PICK k \in EdgeObjects(c) : /\ queueP' = queueP \o <<k>> /\ <<k>> \in Seq(PartObjects)
                                        /\ k \in TowardP => PartPropose
        BY <3>1
      <4>2. queueP \in Seq(PartObjects)
        BY DEF Shapes, Underway
      <4>3. Holds(queueP', OwnP) <=> Holds(queueP, OwnP) \/ k \in OwnP
        BY <4>1, <4>2, AddsOne
      <4> QED BY <4>1, <4>3 DEF OwnP, PartPropose, Unproposed
    <3> QED BY <1>2, <3>1, PartAdds
  <2> QED BY <1>h, <2>1, <2>2 DEF Pending
<1>3. CASE MainStep
  <2>1. Unsent' => Unsent
    BY <1>3, MainHands DEF Unsent, OwnInHandP
  <2>2. Holds(queueP', OwnP) => Holds(queueP, OwnP)
    <3>1. CASE \E s : /\ s = [i \in DOMAIN pollqueue |-> Received(pollqueue[i])]
                      /\ queueP' = queueP \o s
      <4>1. PICK s : /\ s = [i \in DOMAIN pollqueue |-> Received(pollqueue[i])]
                     /\ queueP' = queueP \o s
        BY <3>1
      <4>2. s \in Seq(PartObjects) /\ ~Holds(s, OwnP) /\ queueP \in Seq(PartObjects)
        BY <4>1, PolledToward DEF Shapes, Underway
      <4>3. Holds(queueP \o s, OwnP) <=> Holds(queueP, OwnP) \/ Holds(s, OwnP)
        BY <4>2, JoinedQueues
      <4> QED BY <4>1, <4>2, <4>3
    <3>2. CASE queueP' \in {queueP, <<>>}
      <4>1. ~Holds(<<>>, OwnP)
        BY ShortQueues
      <4> QED BY <3>2, <4>1
    <3> QED BY <1>3, <3>1, <3>2, MainHands
  <2> QED BY <1>h, <2>1, <2>2 DEF Pending
<1>4. CASE CoordStep \/ Puts \/ Still
  BY <1>4, <1>h, OtherHands DEF Pending, Unsent, OwnInHandP
<1> QED BY <1>1, <1>2, <1>3, <1>4, EveryStep DEF PartStep

LEMMA ItsWayBack ==
    ASSUME Shapes, [Next]_vars, OnItsWay'
    PROVE  OnItsWay \/ InHandC
<1>h. SentP' = SentP /\ TowardEvents' = TowardEvents
  BY TowardIsOne
<1>1. CASE PartTake \/ PartSkip
  <2>1. Holds(queueP', SentP) => Holds(queueP, SentP)
    BY <1>1, TakesTowardP
  <2>2. (pcP # "idle" /\ kobjP.rid = Toward /\ kobjP.source # None)' => Holds(queueP, SentP)
    <3>1. (pcP # "idle" /\ kobjP.rid = Toward /\ kobjP.source # None)' => kobjP' \in SentP /\ PartTake
      BY <1>1, TakesTowardP DEF SentP, PartSkip
    <3> QED BY <1>1, <3>1, TakesTowardP
  <2>3. pollqueue' = pollqueue
    BY <1>1, PartHands DEF PartStep
  <2> QED BY <1>h, <2>1, <2>2, <2>3 DEF OnItsWay
<1>2. CASE PartStep /\ ~PartTake /\ ~PartSkip
  <2>1. Holds(queueP', SentP) => Holds(queueP, SentP)
    <3>1. CASE \E k \in EdgeObjects(c) : /\ queueP' = queueP \o <<k>> /\ <<k>> \in Seq(PartObjects)
                                         /\ k.source = None /\ k.event # "FORGET"
                                         /\ k \in TowardP => PartPropose
      <4>1. PICK k \in EdgeObjects(c) : /\ queueP' = queueP \o <<k>> /\ <<k>> \in Seq(PartObjects)
                                        /\ k.source = None
        BY <3>1
      <4>2. queueP \in Seq(PartObjects)
        BY DEF Shapes, Underway
      <4>3. Holds(queueP', SentP) <=> Holds(queueP, SentP) \/ k \in SentP
        BY <4>1, <4>2, AddsOne
      <4> QED BY <4>1, <4>3 DEF SentP
    <3> QED BY <1>2, <3>1, PartAdds
  <2> QED BY <1>2, <1>h, <2>1, PartHands DEF OnItsWay
<1>3. CASE MainStep
  <2>1. Holds(queueP', SentP) => Holds(queueP, SentP) \/ Holds(pollqueue, TowardEvents)
    <3>1. CASE \E s : /\ s = [i \in DOMAIN pollqueue |-> Received(pollqueue[i])]
                      /\ queueP' = queueP \o s
      <4>1. PICK s : /\ s = [i \in DOMAIN pollqueue |-> Received(pollqueue[i])]
                     /\ queueP' = queueP \o s
        BY <3>1
      <4>2. /\ s \in Seq(PartObjects) /\ queueP \in Seq(PartObjects)
            /\ Holds(s, SentP) => Holds(pollqueue, TowardEvents)
        BY <4>1, PolledToward DEF Shapes, Underway
      <4>3. Holds(queueP \o s, SentP) <=> Holds(queueP, SentP) \/ Holds(s, SentP)
        BY <4>2, JoinedQueues
      <4> QED BY <4>1, <4>2, <4>3
    <3>2. CASE queueP' \in {queueP, <<>>}
      <4>1. ~Holds(<<>>, SentP)
        BY ShortQueues
      <4> QED BY <3>2, <4>1
    <3> QED BY <1>3, <3>1, <3>2, MainHands
  <2>2. Holds(pollqueue', TowardEvents) => Holds(pollqueue, TowardEvents)
    <3>1. ~Holds(<<>>, TowardEvents)
      BY ShortQueues
    <3> QED BY <1>3, <3>1, MainHands
  <2> QED BY <1>3, <1>h, <2>1, <2>2, MainHands DEF OnItsWay
<1>4. CASE CoordStep
  BY <1>4, <1>h, EveryStep, OtherHands, CoordHands DEF OnItsWay
<1>5. CASE Puts \/ Still
  <2>1. pollqueue' = pollqueue
    BY <1>5 DEF Puts, Still
  <2> QED BY <1>5, <1>h, <2>1, OtherHands DEF OnItsWay
<1> QED BY <1>1, <1>2, <1>3, <1>4, <1>5, EveryStep DEF PartStep

(* The server queues what is being sent.                                    *)
LEMMA PutsToward ==
    ASSUME Shapes, Puts
    PROVE  /\ UNCHANGED <<cacheC, pcC, kobjC, pollqueue>> /\ ~Sending'
           /\ queueC \in Seq(CoordObjects)
           /\ \E k : /\ queueC' = queueC \o <<k>> /\ <<k>> \in Seq(CoordObjects)
                     /\ k \in TowardC => Sending /\ k.event # "FORGET"
<1>1. UNCHANGED <<cacheC, pcC, kobjC, pollqueue>> /\ queueC \in Seq(CoordObjects)
  BY DEF Puts, Shapes, Underway
<1>2. server' = <<>> \/ server' = <<NodeEvent(p, "NEW")>>
  BY PutOne DEF PutsForget, PutsNew, PutsEdge
<1>3. ~Sending'
  <2>1. SUFFICES ASSUME NEW e \in ToCoord, server' = <<e>> PROVE FALSE
    BY TowardIsOne DEF Sending
  <2>2. <<e>> # <<>>
    OBVIOUS
  <2> QED BY <1>2, <2>1, <2>2, EdgeEventsPut
<1>4. F \in CoordObjects /\ N \in CoordObjects /\ EdgeObjects(p) \subseteq CoordObjects
      /\ F \notin TowardC /\ N \notin TowardC
  BY NodesAreNoEdges DEF CoordObjects, TowardC
<1>5. \E k \in CoordObjects : queueC' = queueC \o <<k>> /\ (k \in TowardC => Sending /\ k.event # "FORGET")
  <2>1. CASE PutsEdge
    <3>1. PICK e \in ToCoord : /\ server = <<e>>
                               /\ queueC' = queueC \o <<Coord!Knowledge(e.rid, e.event, p, e.version)>>
      BY <2>1 DEF PutsEdge
    <3>2. PICK k : k = Coord!Knowledge(e.rid, e.event, p, e.version)
      OBVIOUS
    <3>3. k \in EdgeObjects(p) /\ k.event = e.event /\ k.rid = e.rid
      BY <3>2, EdgeEventsPut DEF Coord!Knowledge
    <3>4. k \in TowardC => Sending /\ k.event # "FORGET"
      BY <3>1, <3>3 DEF TowardC, Sending, ToCoord
    <3> QED BY <1>4, <3>1, <3>2, <3>3, <3>4
  <2>2. CASE PutsForget
    BY <1>4, <2>2 DEF PutsForget
  <2>3. CASE PutsNew
    BY <1>4, <2>3 DEF PutsNew
  <2> QED BY <2>1, <2>2, <2>3, PutOne
<1>6. PICK k \in CoordObjects : queueC' = queueC \o <<k>> /\ (k \in TowardC => Sending /\ k.event # "FORGET")
  BY <1>5
<1>7. <<k>> \in Seq(CoordObjects)
  BY <1>6
<1> QED BY <1>1, <1>3, <1>6, <1>7

LEMMA AtCoordBack == ASSUME Shapes, [Next]_vars, AtCoord' PROVE AtCoord \/ (Puts /\ Sending)
<1>1. CASE CoordStep
  BY <1>1, UntoldCoord, EveryStep
<1>2. CASE PartStep \/ MainStep \/ Still
  <2>1. UNCHANGED <<cacheC, queueC, pcC, kobjC>>
    BY <1>2, PartHands, MainHands DEF Still, CoordSame
  <2> QED BY <2>1, TowardIsOne DEF AtCoord, InHandC
<1>3. CASE Puts
  <2>1. PICK k : /\ queueC' = queueC \o <<k>> /\ <<k>> \in Seq(CoordObjects)
                 /\ k \in TowardC => Sending /\ k.event # "FORGET"
    BY <1>3, PutsToward
  <2>2. Holds(queueC', TowardC) <=> Holds(queueC, TowardC) \/ k \in TowardC
    BY <1>3, <2>1, PutsToward, AddsOne
  <2> QED BY <1>3, <2>1, <2>2, PutsToward, TowardIsOne DEF AtCoord, InHandC
<1> QED BY <1>1, <1>2, <1>3, EveryStep

LEMMA SendingBack ==
    ASSUME Shapes, [Next]_vars, Sending'
    PROVE  ~Puts /\ (Sending \/ (PartTell /\ Unsent /\ cacheP'[Toward] # None))
<1>1. ~Puts
  BY PutsToward
<1>2. CASE CoordStep \/ Still
  <2>1. server' = server
    BY <1>2 DEF CoordStep, CoordTake, CoordDrop, CoordAttach, CoordCheck, CoordGoOn, CoordApprove,
         CoordWrite, CoordShake, CoordTell, CoordFinal, Still
  <2> QED BY <1>1, <2>1, TowardIsOne DEF Sending
<1>3. CASE PartStep
  BY <1>1, <1>3, PartHands
<1>4. CASE MainStep
  <2>1. server' \in {server, <<>>, Handshake}
    BY <1>4, MainHands
  <2>2. PICK e \in ToCoord : e.rid = Toward /\ server' = <<e>>
    BY TowardIsOne DEF Sending
  <2>3. <<e>> # <<>> /\ <<e>> # Handshake
    BY EdgeEventsPut
  <2> QED BY <1>1, <2>1, <2>2, <2>3 DEF Sending
<1> QED BY <1>1, <1>2, <1>3, <1>4, EveryStep

LEMMA SentOnceStep ==
    ASSUME Shapes, ProposedOnce, SentOnce, [Next]_vars
    PROVE  SentOnce'
<1>1. Pending' => Pending /\ ~AtCoord /\ ~OnItsWay /\ ~Sending
  BY PendingBack DEF SentOnce
<1>2. Pending' => ~AtCoord' /\ ~OnItsWay'
  BY <1>1, AtCoordBack, ItsWayBack DEF AtCoord
<1>3. ASSUME Pending', Sending' PROVE FALSE
  <2>1. PartTell /\ Unsent
    BY <1>1, <1>3, SendingBack
  <2>2. ~Unsent' /\ queueP' = queueP /\ OwnInHandP
    BY <2>1, PartHands DEF PartStep, PartTell, Unsent
  <2> QED BY <1>3, <2>1, <2>2, UnproposedBack, TowardIsOne DEF Pending, ProposedOnce
<1>4. Sending' => ~AtCoord'
  BY SendingBack, AtCoordBack DEF SentOnce, Pending
<1> QED BY <1>2, <1>3, <1>4 DEF SentOnce

LEMMA GotOnceStep ==
    ASSUME Shapes, SentOnce, GotOnce, [Next]_vars
    PROVE  GotOnce'
<1>h. /\ Alone(queueC, SentC, TowardC)
      /\ Holds(queueC, SentC) => cacheC[Toward] = None /\ ~InHandC
      /\ pcC \in {"manifest", "bundle"} /\ InHandC /\ kobjC.source = p /\ kobjC.event # "FORGET" =>
           ~Holds(queueC, TowardC)
      /\ SentC' = SentC /\ TowardC' = TowardC /\ SentC \subseteq TowardC /\ p # None
  BY TowardIsOne DEF GotOnce, SentC
<1> SUFFICES
      /\ Alone(queueC', SentC, TowardC)
      /\ Holds(queueC', SentC) => cacheC'[Toward] = None /\ ~InHandC'
      /\ pcC' \in {"manifest", "bundle"} /\ InHandC' /\ kobjC'.source = p /\ kobjC'.event # "FORGET" =>
           ~Holds(queueC', TowardC)
  BY <1>h DEF GotOnce
<1>1. CASE CoordTake
  <2>1. /\ queueC \in Seq(CoordObjects) /\ queueC # <<>> /\ queueC' = Tail(queueC)
        /\ kobjC' = Head(queueC) /\ cacheC' = cacheC
        /\ InHandC' => kobjC' \in TowardC
        /\ Holds(queueC', SentC) => Holds(queueC, SentC)
    BY <1>1, TakesToward DEF InHandC, CoordTake
  <2>2. /\ Alone(Tail(queueC), SentC, TowardC)
        /\ Head(queueC) \in SentC => ~Holds(Tail(queueC), TowardC)
        /\ Head(queueC) \in TowardC => ~Holds(Tail(queueC), SentC)
    BY <1>h, <2>1, TailQueue
  <2> QED BY <1>h, <2>1, <2>2 DEF SentC
<1>2. CASE CoordStep /\ ~CoordTake
  <2>1. PICK s : Adds(s)
    BY <1>2, CoordAdds
  <2>2. /\ queueC \in Seq(CoordObjects) /\ s \in Seq(CoordObjects) /\ queueC' = queueC \o s
        /\ Holds(queueC', SentC) <=> Holds(queueC, SentC)
    BY <2>1, AddsTo DEF Adds
  <2>3. /\ InHandC' => InHandC /\ kobjC'.event = kobjC.event /\ kobjC'.source = kobjC.source
        /\ cacheC'[Toward] # cacheC[Toward] => InHandC
        /\ CoordApprove => InHandC
    BY <1>2, EveryStep, CoordHands
  <2>4. Alone(queueC', SentC, TowardC)
    <3>1. CASE ~Holds(queueC', SentC)
      BY <3>1, NotHeld
    <3>2. CASE Holds(queueC, SentC)
      <4>1. ~Holds(s, TowardC) /\ ~Holds(s, SentC)
        BY <1>h, <2>1, <2>3, <3>2 DEF Adds
      <4>2. Alone(s, SentC, TowardC)
        BY <4>1, NotHeld
      <4>3. Alone(queueC \o s, SentC, TowardC)
        BY <1>h, <2>2, <4>1, <4>2, JoinedQueues
      <4> QED BY <2>2, <4>3
    <3> QED BY <2>2, <3>1, <3>2
  <2>5. ASSUME pcC' \in {"manifest", "bundle"}, InHandC', kobjC'.source = p, kobjC'.event # "FORGET"
        PROVE  ~Holds(queueC', TowardC)
    <3>1. pcC = "forget" => kobjC.event = "FORGET"
      BY DEF Shapes, HeldC, Held
    <3>2. CoordCheck
      BY <1>2, <2>3, <2>5, <3>1 DEF CoordStep, CoordDrop, CoordAttach, CoordGoOn, CoordApprove,
         CoordWrite, CoordShake, CoordTell, CoordFinal
    <3> QED BY <1>h, <2>3, <2>5, <3>2 DEF CoordCheck
  <2> QED BY <1>h, <2>2, <2>3, <2>4, <2>5
<1>3. CASE Puts
  <2>1. UNCHANGED <<cacheC, pcC, kobjC>> /\ queueC \in Seq(CoordObjects)
    BY <1>3, PutsToward
  <2>2. PICK k : /\ queueC' = queueC \o <<k>> /\ <<k>> \in Seq(CoordObjects)
                 /\ k \in TowardC => Sending /\ k.event # "FORGET"
    BY <1>3, PutsToward
  <2>3. ASSUME NEW S PROVE Holds(queueC', S) <=> Holds(queueC, S) \/ k \in S
    BY <2>1, <2>2, AddsOne
  <2>4. k \in TowardC => ~Holds(queueC, TowardC) /\ ~Holds(queueC, SentC)
                         /\ cacheC[Toward] = None /\ ~InHandC
    <3>1. Holds(queueC, SentC) => Holds(queueC, TowardC)
      BY <1>h DEF Holds
    <3> QED BY <2>2, <3>1 DEF SentOnce, AtCoord
  <2>5. InHandC' <=> InHandC
    BY <2>1 DEF InHandC
  <2>6. Alone(queueC \o <<k>>, SentC, TowardC)
    <3>1. /\ Holds(<<k>>, TowardC) <=> k \in TowardC
          /\ Holds(<<k>>, SentC) <=> k \in SentC
      BY ShortQueues
    <3>2. Alone(<<k>>, SentC, TowardC)
      BY ShortQueues
    <3>3. ~(Holds(queueC, SentC) /\ Holds(<<k>>, TowardC)) /\ ~(Holds(queueC, TowardC) /\ Holds(<<k>>, SentC))
      BY <1>h, <2>4, <3>1
    <3> QED BY <1>h, <2>1, <2>2, <3>2, <3>3, JoinedQueues
  <2> QED BY <1>h, <2>1, <2>2, <2>3, <2>4, <2>5, <2>6
<1>4. CASE PartStep \/ MainStep \/ Still
  <2>1. UNCHANGED <<cacheC, queueC, pcC, kobjC>>
    BY <1>4, PartHands, MainHands DEF Still, CoordSame
  <2> QED BY <1>h, <2>1 DEF InHandC
<1> QED BY <1>1, <1>2, <1>3, <1>4, EveryStep

-----------------------------------------------------------------------------
(* The edge toward the partial node is withdrawn only after the coordinator *)
(* has forgotten it, and is not proposed again.                             *)

Live ==
    \/ cacheC[Toward] # None \/ Holds(queueC, ChangesC) \/ Sending
    \/ InHandC /\ kobjC.event # "FORGET"
Clear ==
    /\ cacheP[Toward] # None
    /\ ~Holds(pollqueue, ForgetEvents) /\ ~Holds(queueP, ForgetsP)
    /\ ~(pcP # "idle" /\ kobjP.rid = Toward /\ kobjP.event = "FORGET")
    /\ ~(pcC \in Past /\ InHandC /\ kobjC.event = "FORGET")
ForgetsToward == pcC \in Unwritten /\ InHandC /\ kobjC.event = "FORGET"

ForgottenLast ==
    /\ Unfollowed(queueC, ForgetsC, ChangesC)
    /\ ForgetsToward => ~Holds(queueC, ChangesC)
Withdrawn == Live => Clear

LEMMA ForgottenLastStep ==
    ASSUME Shapes, SentOnce, GotOnce, ForgottenLast, [Next]_vars
    PROVE  ForgottenLast'
<1>h. /\ Unfollowed(queueC, ForgetsC, ChangesC)
      /\ ForgetsToward => ~Holds(queueC, ChangesC)
      /\ ForgetsC' = ForgetsC /\ ChangesC' = ChangesC
      /\ ForgetsC \subseteq TowardC /\ ChangesC \subseteq TowardC
  BY TowardIsOne DEF ForgottenLast, ForgetsC, ChangesC
<1> SUFFICES /\ Unfollowed(queueC', ForgetsC, ChangesC)
             /\ ForgetsToward' => ~Holds(queueC', ChangesC)
  BY <1>h DEF ForgottenLast
<1>1. CASE CoordTake
  <2>1. /\ queueC \in Seq(CoordObjects) /\ queueC # <<>> /\ queueC' = Tail(queueC)
        /\ kobjC' = Head(queueC)
        /\ ForgetsToward' => kobjC' \in ForgetsC
    BY <1>1, TakesToward DEF ForgetsToward, InHandC, ForgetsC
  <2>2. /\ Unfollowed(Tail(queueC), ForgetsC, ChangesC)
        /\ Head(queueC) \in ForgetsC => ~Holds(Tail(queueC), ChangesC)
    BY <1>h, <2>1, TailQueue
  <2> QED BY <2>1, <2>2
<1>2. CASE CoordStep /\ ~CoordTake
  <2>1. PICK s : Adds(s)
    BY <1>2, CoordAdds
  <2>2. /\ queueC \in Seq(CoordObjects) /\ s \in Seq(CoordObjects) /\ queueC' = queueC \o s
        /\ Holds(queueC', ChangesC) <=> Holds(queueC, ChangesC) \/ Holds(s, ChangesC)
    BY <2>1, AddsTo DEF Adds
  <2>3. /\ InHandC' => InHandC /\ kobjC'.event = kobjC.event
        /\ CoordApprove => InHandC /\ kobjC.source = p /\ kobjC.event # "FORGET" /\ pcC = "bundle"
    BY <1>2, EveryStep, CoordHands
  <2>4. Unfollowed(s, ForgetsC, ChangesC)
    <3>1. ~Holds(s, ForgetsC) \/ ~Holds(s, ChangesC)
      BY <2>1 DEF Adds
    <3> QED BY <3>1, NotHeld
  <2>5. ~(Holds(queueC, ForgetsC) /\ Holds(s, ChangesC))
    <3>1. Holds(queueC, ForgetsC) => Holds(queueC, TowardC)
      BY <1>h DEF Holds
    <3> QED BY <2>1, <2>3, <3>1 DEF Adds, GotOnce
  <2>6. Unfollowed(queueC \o s, ForgetsC, ChangesC)
    BY <1>h, <2>2, <2>4, <2>5, JoinedQueues
  <2>7. ForgetsToward' => ForgetsToward /\ ~CoordApprove
    <3>1. pcC = "manifest" => kobjC.event # "FORGET"
      BY DEF Shapes, HeldC, Held
    <3>2. pcC' \in Unwritten /\ pcC' # "idle" => pcC \in Unwritten \/ pcC = "manifest"
      BY <1>2 DEF CoordStep, CoordDrop, CoordAttach, CoordCheck, CoordGoOn, CoordApprove,
         CoordWrite, CoordShake, CoordTell, CoordFinal, Unwritten
    <3> QED BY <2>3, <3>1, <3>2 DEF ForgetsToward, Unwritten
  <2> QED BY <1>h, <2>1, <2>2, <2>6, <2>7 DEF Adds
<1>3. CASE Puts
  <2>1. UNCHANGED <<cacheC, pcC, kobjC>> /\ queueC \in Seq(CoordObjects)
    BY <1>3, PutsToward
  <2>2. PICK k : /\ queueC' = queueC \o <<k>> /\ <<k>> \in Seq(CoordObjects)
                 /\ k \in TowardC => Sending /\ k.event # "FORGET"
    BY <1>3, PutsToward
  <2>3. Holds(queueC', ChangesC) <=> Holds(queueC, ChangesC) \/ k \in ChangesC
    BY <2>1, <2>2, AddsOne
  <2>4. k \in TowardC => ~Holds(queueC, ForgetsC) /\ ~InHandC
    <3>1. Holds(queueC, ForgetsC) => Holds(queueC, TowardC)
      BY <1>h DEF Holds
    <3> QED BY <2>2, <3>1 DEF SentOnce, AtCoord
  <2>5. Unfollowed(queueC \o <<k>>, ForgetsC, ChangesC)
    <3>1. Holds(<<k>>, ChangesC) <=> k \in ChangesC
      BY ShortQueues
    <3>2. Unfollowed(<<k>>, ForgetsC, ChangesC)
      BY ShortQueues
    <3> QED BY <1>h, <2>1, <2>2, <2>4, <3>1, <3>2, JoinedQueues
  <2>6. ForgetsToward' => ForgetsToward /\ InHandC
    BY <2>1 DEF ForgetsToward, InHandC
  <2> QED BY <1>h, <2>2, <2>3, <2>4, <2>5, <2>6
<1>4. CASE PartStep \/ MainStep \/ Still
  <2>1. UNCHANGED <<cacheC, queueC, pcC, kobjC>>
    BY <1>4, PartHands, MainHands DEF Still, CoordSame
  <2> QED BY <1>h, <2>1 DEF ForgetsToward, InHandC
<1> QED BY <1>1, <1>2, <1>3, <1>4, EveryStep

LEMMA LiveBack ==
    ASSUME Shapes, [Next]_vars, Live'
    PROVE  Live \/ (PartTell /\ Unsent /\ cacheP'[Toward] # None)
<1>h. ChangesC' = ChangesC
  BY TowardIsOne
<1>1. CASE CoordTake
  <2>1. /\ cacheC' = cacheC /\ server' = server
        /\ Holds(queueC', ChangesC) => Holds(queueC, ChangesC)
        /\ kobjC' \in ChangesC => Holds(queueC, ChangesC)
        /\ InHandC' => kobjC' \in TowardC
    BY <1>1, TakesToward DEF CoordTake, InHandC
  <2>2. InHandC' /\ kobjC'.event # "FORGET" => kobjC' \in ChangesC
    BY <2>1 DEF ChangesC
  <2>3. Sending' => Sending
    BY <2>1, TowardIsOne DEF Sending
  <2> QED BY <1>h, <2>1, <2>2, <2>3 DEF Live
<1>2. CASE CoordStep /\ ~CoordTake
  <2>1. PICK s : Adds(s)
    BY <1>2, CoordAdds
  <2>2. /\ Holds(queueC', ChangesC) <=> Holds(queueC, ChangesC) \/ Holds(s, ChangesC)
        /\ ~CoordApprove => ~Holds(s, ChangesC)
    BY <2>1, AddsTo DEF Adds
  <2>3. /\ InHandC' => InHandC /\ kobjC'.event = kobjC.event
        /\ cacheC'[Toward] # cacheC[Toward] => InHandC /\ CoordWrite
        /\ CoordApprove => InHandC /\ kobjC.event # "FORGET"
        /\ server' = server
    BY <1>2, EveryStep, CoordHands
  <2>4. InHandC /\ CoordWrite /\ kobjC.event = "FORGET" => cacheC'[Toward] = None
    BY Names DEF CoordWrite, InHandC, Shapes, HeldC, Held, Caches
  <2>5. Sending' => Sending
    BY <2>3, TowardIsOne DEF Sending
  <2> QED BY <1>h, <2>2, <2>3, <2>4, <2>5 DEF Live
<1>3. CASE Puts
  <2>1. UNCHANGED <<cacheC, pcC, kobjC>> /\ queueC \in Seq(CoordObjects) /\ ~Sending'
    BY <1>3, PutsToward
  <2>2. PICK k : /\ queueC' = queueC \o <<k>> /\ <<k>> \in Seq(CoordObjects)
                 /\ k \in TowardC => Sending /\ k.event # "FORGET"
    BY <1>3, PutsToward
  <2>3. Holds(queueC', ChangesC) <=> Holds(queueC, ChangesC) \/ k \in ChangesC
    BY <2>1, <2>2, AddsOne
  <2> QED BY <1>h, <2>1, <2>2, <2>3 DEF Live, ChangesC, InHandC
<1>4. CASE PartStep \/ MainStep \/ Still
  <2>1. UNCHANGED <<cacheC, queueC, pcC, kobjC>>
    BY <1>4, PartHands, MainHands DEF Still, CoordSame
  <2> QED BY <1>h, <2>1, SendingBack DEF Live, InHandC
<1> QED BY <1>1, <1>2, <1>3, <1>4, EveryStep

(* An edge the coordinator lives with stays clear of withdrawals.           *)
LEMMA StaysClear ==
    ASSUME Shapes, SentOnce, ForgottenLast, Live, Clear, Live', [Next]_vars
    PROVE  Clear'
<1>h. /\ cacheP[Toward] # None
      /\ ~Holds(pollqueue, ForgetEvents) /\ ~Holds(queueP, ForgetsP)
      /\ ~(pcP # "idle" /\ kobjP.rid = Toward /\ kobjP.event = "FORGET")
      /\ ~(pcC \in Past /\ InHandC /\ kobjC.event = "FORGET")
      /\ ForgetEvents' = ForgetEvents /\ ForgetsP' = ForgetsP /\ ChangesC' = ChangesC
      /\ queueP \in Seq(PartObjects)
  BY TowardIsOne DEF Clear, Shapes, Underway
<1>1. CASE CoordStep
  <2>1. UNCHANGED <<server, cacheP, queueP, pcP, kobjP>> /\ ~Holds(pollqueue', ForgetEvents)
    BY <1>1, <1>h, EveryStep, CoordHands
  <2>2. ASSUME pcC' \in Past, InHandC', kobjC'.event = "FORGET" PROVE FALSE
    <3>1. ~CoordTake
      BY <2>2 DEF CoordTake, Past
    <3>2. InHandC /\ kobjC.event = "FORGET" /\ pcC \notin Past
      BY <1>1, <1>h, <2>2, <3>1, EveryStep, CoordHands
    <3>3. CoordWrite
      BY <1>1, <2>2, <3>1, <3>2 DEF CoordStep, CoordDrop, CoordAttach, CoordCheck, CoordGoOn,
         CoordApprove, CoordShake, CoordTell, CoordFinal, Past
    <3>4. cacheC'[Toward] = None /\ queueC' = queueC
      BY <3>2, <3>3, Names DEF CoordWrite, InHandC, Shapes, HeldC, Held, Caches
    <3>5. ~Holds(queueC', ChangesC)
      BY <3>2, <3>3, <3>4 DEF ForgottenLast, ForgetsToward, CoordWrite, Unwritten
    <3>6. ~Sending'
      BY <2>1, <3>2, TowardIsOne DEF SentOnce, AtCoord, Sending
    <3> QED BY <1>h, <2>2, <3>4, <3>5, <3>6 DEF Live
  <2> QED BY <1>h, <2>1, <2>2 DEF Clear
<1>2. CASE PartStep
  <2>1. UNCHANGED <<pcC, kobjC, pollqueue>>
    BY <1>2, PartHands
  <2>2. cacheP'[Toward] # None
    <3>1. CASE PartWrite
      <4>1. /\ pcP = "write" /\ kobjP.rid \in Rids /\ kobjP.version # None
            /\ normP = "FORGET" <=> kobjP.event = "FORGET"
            /\ cacheP' = [cacheP EXCEPT ![kobjP.rid] = IF normP = "FORGET" THEN None ELSE kobjP.version]
        BY <3>1, InProcess DEF PartWrite, Shapes, HeldP, Held, Normed
      <4> QED BY <1>h, <4>1, Names DEF Shapes, Caches
    <3> QED BY <1>2, <1>h, <3>1 DEF PartStep, PartTake, PartSkip, PartDrop, PartAttach, PartCheck,
               PartGoOn, PartApprove, PartPropose, PartTell, PartFinal
  <2>3. ~Holds(queueP', ForgetsP)
    <3>1. CASE PartTake \/ PartSkip
      BY <1>h, <3>1, TakesTowardP
    <3>2. CASE \E k \in EdgeObjects(c) : /\ queueP' = queueP \o <<k>> /\ <<k>> \in Seq(PartObjects)
                                         /\ k.source = None /\ k.event # "FORGET"
                                         /\ k \in TowardP => PartPropose
      <4>1. PICK k \in EdgeObjects(c) : /\ queueP' = queueP \o <<k>> /\ <<k>> \in Seq(PartObjects)
                                        /\ k.event # "FORGET"
        BY <3>2
      <4>2. Holds(queueP', ForgetsP) <=> Holds(queueP, ForgetsP) \/ k \in ForgetsP
        BY <1>h, <4>1, AddsOne
      <4> QED BY <1>h, <4>1, <4>2 DEF ForgetsP
    <3> QED BY <1>2, <1>h, <3>1, <3>2, PartAdds
  <2>4. ~(pcP' # "idle" /\ kobjP'.rid = Toward /\ kobjP'.event = "FORGET")
    <3>1. CASE PartTake
      BY <1>h, <3>1, TakesTowardP DEF ForgetsP
    <3> QED BY <1>2, <1>h, <3>1, PartHands
  <2> QED BY <1>h, <2>1, <2>2, <2>3, <2>4 DEF Clear, InHandC
<1>3. CASE MainStep
  <2>1. /\ UNCHANGED <<cacheP, pcC, kobjC>>
        /\ pcP' = "idle" \/ (pcP' = pcP /\ kobjP' = kobjP)
    BY <1>3, MainHands
  <2>2. ~Holds(pollqueue', ForgetEvents)
    <3>1. ~Holds(<<>>, ForgetEvents)
      BY ShortQueues
    <3> QED BY <1>3, <1>h, <3>1, MainHands
  <2>3. ~Holds(queueP', ForgetsP)
    <3>1. CASE queueP' \in {queueP, <<>>}
      <4>1. ~Holds(<<>>, ForgetsP)
        BY ShortQueues
      <4> QED BY <1>h, <3>1, <4>1
    <3>2. CASE \E s : /\ s = [i \in DOMAIN pollqueue |-> Received(pollqueue[i])]
                      /\ queueP' = queueP \o s
      <4>1. PICK s : /\ s = [i \in DOMAIN pollqueue |-> Received(pollqueue[i])]
                     /\ queueP' = queueP \o s
        BY <3>2
      <4>2. s \in Seq(PartObjects) /\ ~Holds(s, ForgetsP)
        BY <1>h, <4>1, PolledToward
      <4>3. Holds(queueP \o s, ForgetsP) <=> Holds(queueP, ForgetsP) \/ Holds(s, ForgetsP)
        BY <1>h, <4>2, JoinedQueues
      <4> QED BY <1>h, <4>1, <4>2, <4>3
    <3> QED BY <1>3, <3>1, <3>2, MainHands
  <2> QED BY <1>h, <2>1, <2>2, <2>3 DEF Clear, InHandC
<1>4. CASE Puts \/ Still
  <2>1. UNCHANGED <<pcC, kobjC, pollqueue, cacheP, queueP, pcP, kobjP>>
    BY <1>4 DEF Puts, Still, CoordSame, PartSame
  <2> QED BY <1>h, <2>1 DEF Clear, InHandC
<1> QED BY <1>1, <1>2, <1>3, <1>4, EveryStep

LEMMA WithdrawnStep ==
    ASSUME Shapes, SentOnce, ForgottenLast, Withdrawn, [Next]_vars
    PROVE  Withdrawn'
<1> SUFFICES ASSUME Live', ~Live PROVE Clear'
  BY StaysClear DEF Withdrawn
<1>1. PartTell /\ Unsent /\ cacheP'[Toward] # None
  BY LiveBack
<1>2. ~AtCoord /\ ~OnItsWay
  BY <1>1 DEF SentOnce, Pending
<1>3. /\ UNCHANGED <<queueP, pcP, kobjP, pcC, kobjC, pollqueue>>
      /\ ForgetEvents' = ForgetEvents /\ ForgetsP' = ForgetsP
  BY <1>1, TowardIsOne DEF PartTell, AtWork, CoordSame
<1>4. ~Holds(pollqueue, ForgetEvents)
  BY <1>2 DEF OnItsWay, Holds, ForgetEvents
<1>5. ~Holds(queueP, ForgetsP)
  <2>1. PartObjects \intersect ForgetsP \subseteq SentP
    BY Names, Objects DEF PartObjects, AboutPart, ForgetsP, SentP, TowardP
  <2>2. queueP \in Seq(PartObjects)
    BY DEF Shapes, Underway
  <2>3. \A i \in DOMAIN queueP : queueP[i] \in PartObjects
    BY <2>2, ElementOfSeq
  <2> QED BY <1>2, <2>1, <2>3 DEF OnItsWay, Holds
<1>6. kobjP.event # "FORGET"
  BY <1>1 DEF Unsent, OwnInHandP, Shapes, HeldP
<1> QED BY <1>1, <1>2, <1>3, <1>4, <1>5, <1>6 DEF Clear, AtCoord, InHandC

-----------------------------------------------------------------------------
(* The network at rest.                                                     *)

KoiNetInv ==
    /\ Shapes /\ Strangers /\ PartComes /\ CoordComes /\ BackComes
    /\ ProposedOnce /\ SentOnce /\ GotOnce /\ ForgottenLast /\ Withdrawn

LEMMA KoiNetInit == Init => KoiNetInv
<1> SUFFICES ASSUME Init PROVE KoiNetInv
  OBVIOUS
<1>1. /\ queueC = <<>> /\ queueP = <<>> /\ pollqueue = <<>> /\ server = <<>>
      /\ pcC = "idle" /\ pcP = "idle" /\ mode = "start"
      /\ cacheC[p] = None /\ cacheC[Toward] = None /\ cacheP[c] = None
  BY Names DEF Init, Fresh
<1>2. CoordComes /\ BackComes
  BY <1>1 DEF CoordComes, BackComes, Renewing
<1>3. ASSUME NEW S, NEW T
      PROVE  ~Holds(<<>>, S) /\ Alone(<<>>, S, T) /\ Unfollowed(<<>>, S, T)
  BY ShortQueues
<1>4. ~InHandC /\ ~OwnInHandP /\ ~ForgetsToward
  BY <1>1 DEF InHandC, OwnInHandP, ForgetsToward
<1>5. ~Sending
  <2>1. ASSUME NEW e PROVE <<e>> # <<>>
    OBVIOUS
  <2> QED BY <1>1, <2>1 DEF Sending
<1>6. ProposedOnce /\ GotOnce /\ ForgottenLast
  BY <1>1, <1>3, <1>4 DEF ProposedOnce, GotOnce, ForgottenLast
<1>7. SentOnce /\ Withdrawn
  BY <1>1, <1>3, <1>4, <1>5 DEF SentOnce, AtCoord, OnItsWay, Withdrawn, Live
<1> QED BY <1>2, <1>6, <1>7, ShapesInit, StrangersInit, PartComesInit DEF KoiNetInv

LEMMA KoiNetStep == KoiNetInv /\ [Next]_vars => KoiNetInv'
<1> SUFFICES ASSUME KoiNetInv, [Next]_vars PROVE KoiNetInv'
  OBVIOUS
<1>1. /\ Shapes /\ Strangers /\ PartComes /\ CoordComes /\ BackComes
      /\ ProposedOnce /\ SentOnce /\ GotOnce /\ ForgottenLast /\ Withdrawn
  BY DEF KoiNetInv
<1>2. Shapes' /\ Strangers'
  BY <1>1, ShapesStep, StrangersStep
<1>3. PartComes' /\ CoordComes' /\ BackComes'
  BY <1>1, PartComesStep, CoordComesStep, BackComesStep
<1>4. ProposedOnce' /\ SentOnce' /\ GotOnce'
  BY <1>1, ProposedOnceStep, SentOnceStep, GotOnceStep
<1>5. ForgottenLast' /\ Withdrawn'
  BY <1>1, ForgottenLastStep, WithdrawnStep
<1> QED BY <1>2, <1>3, <1>4, <1>5 DEF KoiNetInv

LEMMA KoiNetInvariant == Spec => []KoiNetInv
<1> QED BY KoiNetInit, KoiNetStep, PTL DEF Spec

LEMMA AtRest ==
    ASSUME Settled, PartComes, CoordComes
    PROVE  cacheC[p] # None /\ cacheP[c] # None /\ ~Renewing
<1>1. /\ pcC = "idle" /\ queueC = <<>> /\ pcP = "idle" /\ queueP = <<>>
      /\ server = <<>> /\ pollqueue = <<>> /\ mode = "poll"
  BY DEF Settled, Waiting, Coord!Quiet, Part!Quiet
<1>2. ASSUME NEW S PROVE ~Holds(<<>>, S)
  BY ShortQueues
<1>3. server # Handshake /\ ~NewOnWire
  <2>1. \A x, y : <<>> # <<x>> /\ <<>> # <<x, y>>
    OBVIOUS
  <2> QED BY <1>1, <2>1 DEF Handshake, NewOnWire
<1>4. ~ForgetsPart /\ ~NewInHand /\ ~NotBegun
  BY <1>1 DEF ForgetsPart, Unwritten, NewInHand, NotBegun
<1>5. cacheC[p] # None
  BY <1>1, <1>2, <1>3, <1>4 DEF PartComes, NewToCome
<1>6. ~Renewing
  BY <1>1, <1>2, <1>3, <1>4, <1>5 DEF Renewing
<1> QED BY <1>1, <1>2, <1>5, <1>6 DEF CoordComes

(* However handshakes are refused, repeated or cut short by restarts: when  *)
(* nothing is underway any more, each node knows the other.                 *)
THEOREM RestIsMutual == Spec => []NodesKnowEachOther
<1>1. KoiNetInv => NodesKnowEachOther
  BY AtRest DEF KoiNetInv, NodesKnowEachOther
<1> QED BY <1>1, KoiNetInvariant, PTL

(* When nothing is underway any more, the coordinator holds no subscription *)
(* that the partial node has lost, and the partial node none that the       *)
(* coordinator has deleted and not proposed again.                          *)
THEOREM RestHasProposers == Spec => []NoEdgeWithoutProposer
<1>1. KoiNetInv => NoEdgeWithoutProposer
  <2> SUFFICES ASSUME KoiNetInv, Settled
               PROVE  /\ cacheC[Toward] # None => cacheP[Toward] # None
                      /\ cacheC[Back] # None
    BY DEF NoEdgeWithoutProposer
  <2>1. cacheC[Toward] # None => cacheP[Toward] # None
    BY DEF KoiNetInv, Withdrawn, Live, Clear
  <2>2. ~Renewing /\ pcC = "idle" /\ queueC = <<>>
    BY AtRest DEF KoiNetInv, Settled, Coord!Quiet
  <2>3. ~ChangeToCome
    <3>1. ~Holds(<<>>, BackChange)
      BY ShortQueues
    <3> QED BY <2>2, <3>1 DEF ChangeToCome, ChangeInHand
  <2>4. cacheC[Back] # None
    BY <2>2, <2>3 DEF KoiNetInv, BackComes
  <2> QED BY <2>1, <2>4
<1> QED BY <1>1, KoiNetInvariant, PTL
=============================================================================
