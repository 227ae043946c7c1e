------------------------ MODULE MCKnowledgePipeline ------------------------
(* Values for the constants of KnowledgePipeline, for TLC. *)
EXTENDS KnowledgePipeline

CONSTANTS me, p, q, o, a, b, none

V(t, v) == [ts |-> t, val |-> v]
Full(r, event, source, version) ==
    [rid |-> r, event |-> event, source |-> source, version |-> version, full |-> TRUE]
Announced(r, event, source, version) == [Full(r, event, source, version) EXCEPT !.full = FALSE]
Forget(r, source) == Announced(r, "FORGET", source, none)

Node(type, provides) == [node_type |-> type, provides |-> provides, key_ok |-> TRUE]
Edge(status, type, rids) == [status |-> status, edge_type |-> type, rid_types |-> rids]

\* A full node that provides node and object events; it starts with a cache
\* that holds its own bundle and what `known' says.
OwnBundle(provides) == V(0, Node("FULL", provides))
StoredWith(known, provides) ==
    [r \in Rids |-> IF r \in DOMAIN known THEN known[r]
                    ELSE IF r = me THEN OwnBundle(provides) ELSE none]
ServedWith(known) == [r \in Rids |-> IF r \in DOMAIN known THEN known[r] ELSE {}]

-----------------------------------------------------------------------------
(* Objects: one peer that subscribed to objects and one object; the peer      *)
(* announces versions in any order and answers fetches with whichever it has. *)
ObjProvides == {"object"}
ObjVersions == {V(1, a), V(2, b), V(2, a), V(3, a)}
ObjStored == StoredWith([r \in {p, <<me, p>>} |->
    IF r = p THEN V(0, Node("FULL", {})) ELSE V(0, Edge("APPROVED", "WEBHOOK", {"object"}))],
    ObjProvides)
ObjIncoming == {Full(o, "NEW", p, v) : v \in {V(1, a), V(2, b)}}
    \union {Announced(o, "UPDATE", p, v) : v \in ObjVersions}
    \union {Announced(o, "UPDATE", p, none), Forget(o, p), Forget(<<me, p>>, p),
            Full(me, "UPDATE", p, V(9, Node("PARTIAL", {})))}
ObjServed == ServedWith([r \in {o} |-> ObjVersions])

-----------------------------------------------------------------------------
(* Edges: p is a full node that provides nodes, q a partial node; this node    *)
(* starts alone and p is its first contact.  Peers propose, withdraw and       *)
(* approve edges, with clocks behind this node's, even with it and ahead of it. *)
EdgProvides == {"node"}
Coordinator == Node("FULL", {"node"})
EdgStored == StoredWith(<<>>, EdgProvides)
EdgServed == ServedWith([r \in {p, q, <<me, p>>} |->
    CASE r = p -> {V(1, Coordinator)}
      [] r = q -> {V(1, Node("PARTIAL", {}))}
      [] OTHER -> {V(1, Edge("PROPOSED", "WEBHOOK", {"node"})),
                   V(2, Edge("PROPOSED", "POLL", {"object"}))}])
Proposes(n, t, type, rids) == Full(<<me, n>>, "NEW", n, V(t, Edge("PROPOSED", type, rids)))
Approves(n, t) == Full(<<n, me>>, "UPDATE", n, V(t, Edge("APPROVED", "WEBHOOK", {"node"})))
Joins(n, profile) == Full(n, "NEW", n, V(1, profile))
EdgIncoming ==
    {Joins(p, Coordinator), Full(p, "UPDATE", p, V(0, Node("FULL", {}))), Forget(p, p), Joins(q, Node("PARTIAL", {})),
     Joins(q, [Node("PARTIAL", {"node"}) EXCEPT !.key_ok = FALSE]),
     Proposes(p, 1, "WEBHOOK", {"node"}), Proposes(q, 1, "WEBHOOK", {"node"}),
     Proposes(q, 2, "POLL", {"node"}), Proposes(q, 4, "POLL", {"node"}), Announced(<<me, p>>, "UPDATE", p, none),
     Approves(p, 9), Forget(<<p, me>>, p), Forget(<<me, p>>, p)}

=============================================================================
