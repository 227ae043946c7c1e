------------------------------ MODULE GraphLoad ------------------------------
(* convert_jsonld_to_ttl.py turns what an extraction stored into triples,     *)
(* load_to_fuseki.py replaces the content of the triple store with them, a    *)
(* hundred at a time, and koi_api_server.py answers queries from the store    *)
(* meanwhile.  A blank node is known by its label within one request only:    *)
(* the store gives it a node of its own for each request that names it.       *)
EXTENDS Naturals, Sequences, FiniteSets, FiniteSetsExt, SequencesExt

CONSTANTS Corpora,       \* documents: records [entities, transformation]
          Old,          \* the triples the store holds before
          ChunkSize,    \* triples of one insert
          MaxLoads,     \* bound: runs of the loader
          Listable,     \* values that begin with orn: or http://regen.network/
          Hidden,       \* values that begin with orn:regen.ontology: or cid:
          PathEnd,      \* what follows the last slash of the values that have one
          MaxNodes,     \* the limit of a graph query
          MaxAnswers    \* bound: queries answered

(* Files are finite.                                                          *)
ASSUME CorporaAssumption ==
  \A ds \in Corpora : IsFiniteSet(ds) /\ \A d \in ds :
    /\ IsFiniteSet(d.transformation.to) /\ IsFiniteSet(d.entities)
    /\ \A e \in d.entities : /\ IsFiniteSet(e.alignsWith) /\ IsFiniteSet(DOMAIN e.nested)
                           /\ \A k \in DOMAIN e.nested : IsFiniteSet(e.nested[k])
ASSUME ChunkAssumption == ChunkSize \in Nat

VARIABLES documents,    \* the converter's input
          triples,      \* the file it writes
          order,        \* the loader's list, in the order of the parsed graph
          sent,         \* how many of them it has inserted
          loader,       \* idle, clear, insert, failed, loaded
          cleared,      \* the clear of this run succeeded
          loads,        \* runs so far
          store,        \* the default graph of the triple store
          answer,       \* what the server answered last
          answers
loadVars == <<documents, triples, order, sent, loader, cleared, loads, store, answer, answers>>

Uri(v) == [kind |-> "uri", value |-> v, request |-> 0]
Literal(v) == [kind |-> "literal", value |-> v, request |-> 0]
Blank(v) == [kind |-> "blank", value |-> v, request |-> 0]
NoAnswer == [asked |-> {}, status |-> 0, nodes |-> {}, edges |-> {}, count |-> 0]

LoadInit ==
  /\ documents \in Corpora
  /\ triples = {} /\ order = << >> /\ sent = 0
  /\ loader = "idle" /\ cleared = FALSE /\ loads = 0
  /\ store = Old
  /\ answer = NoAnswer /\ answers = 0

-----------------------------------------------------------------------------
(* One triple for the type, one for the name, one for each essence; each      *)
(* nested object, a key with the keys inside, hangs from a blank node.        *)
ConvertNested(node, subject, k, inside) ==
  {<<subject, k, node>>} \cup {<<node, i, Literal(i)>> : i \in inside}
ConvertEntity(d, e) ==
  {<<Uri(e.id), "type", Uri(e.type)>>, <<Uri(e.id), "label", Literal(e.name)>>}
  \cup {<<Uri(e.id), "alignsWith", Literal(a)>> : a \in e.alignsWith}
  \cup {<<Uri(e.id), "wasGeneratedBy", Uri("orn:regen.ontology:v1")>>}
  \cup UNION {ConvertNested(Blank(<<d.transformation.id, e.id, k>>), Uri(e.id), k, e.nested[k]) : k \in DOMAIN e.nested}

(* Mutant of ConvertTransformation: the states swapped.                       *)
ConvertTransformationSwapped(t) ==
  {<<Uri(t.id), "type", Uri("Transformation")>>, <<Uri(t.id), "toState", Uri(t.from)>>}
  \cup {<<Uri(t.id), "fromState", Literal(s)>> : s \in t.to}
ConvertTransformation(t) ==
  {<<Uri(t.id), "type", Uri("Transformation")>>, <<Uri(t.id), "fromState", Literal(t.from)>>}
  \cup {<<Uri(t.id), "toState", Uri(s)>> : s \in t.to}

Metadata == {<<Uri("orn:regen.dataset"), "type", Uri("Dataset")>>}

Convert ==
  /\ triples = {} /\ loader = "idle"
  /\ triples' = Metadata \cup UNION {(UNION {ConvertEntity(d, e) : e \in d.entities})
                                       \cup ConvertTransformation(d.transformation) : d \in documents}
  /\ UNCHANGED <<documents, order, sent, loader, cleared, loads, store, answer, answers>>

-----------------------------------------------------------------------------
(* The loader.  Every request may be answered, refused, or carried out        *)
(* without its answer arriving.                                               *)
StartLoad ==
  /\ triples # {} /\ loader \in {"idle", "failed", "loaded"}
  /\ loads < MaxLoads
  /\ loads' = loads + 1 /\ loader' = "clear"
  /\ UNCHANGED <<documents, triples, order, sent, cleared, store, answer, answers>>

(* A refused clear is a warning: the new triples are added to the old ones.   *)
(* The order of the parsed graph is that of a hash table; which triples of a  *)
(* blank node share a request is what matters of it.                          *)
Listed(ts) == FoldSet(LAMBDA t, s : Append(s, t), << >>, ts)
Orders ==
  LET blank(t) == "blank" \in {t[1].kind, t[3].kind}
      rest == Listed({t \in triples : ~blank(t)})
      hanging == Listed({t \in triples : blank(t)})
  IN  {SubSeq(hanging, 1, k) \o rest \o SubSeq(hanging, k + 1, Len(hanging)) : k \in 0..Len(hanging)}
Clear ==
  /\ loader = "clear"
  /\ \/ store' = {} /\ cleared' = TRUE /\ loader' \in {"insert", "failed"}
     \/ store' = store /\ cleared' = FALSE /\ loader' \in {"insert", "failed"}
  /\ order' \in Orders
  /\ sent' = 0
  /\ UNCHANGED <<documents, triples, loads, answer, answers>>

Received(t, request) ==
  LET node(n) == IF n.kind = "blank" THEN [n EXCEPT !.request = request] ELSE n
  IN  <<node(t[1]), t[2], node(t[3])>>
Request == 1000 * loads + sent + 1
InRequest == {order[i] : i \in {j \in DOMAIN order : sent < j /\ j <= sent + ChunkSize}}
(* Mutant of Insert: a request that fails is passed over.                     *)
InsertSkipping ==
  /\ loader = "insert" /\ sent < Len(order)
  /\ store' \in {store, store \cup {Received(t, Request) : t \in InRequest}}
  /\ sent' = sent + ChunkSize
  /\ UNCHANGED <<documents, triples, order, loader, cleared, loads, answer, answers>>
Insert ==
  /\ loader = "insert" /\ sent < Len(order)
  /\ \/ /\ store' = store \cup {Received(t, Request) : t \in InRequest}
        /\ sent' = sent + ChunkSize
        /\ loader' = loader
     \/ /\ store' \in {store, store \cup {Received(t, Request) : t \in InRequest}}
        /\ sent' = sent
        /\ loader' = "failed"
  /\ UNCHANGED <<documents, triples, order, cleared, loads, answer, answers>>

(* The count and the sample are printed; neither changes the result.          *)
EndLoad ==
  /\ loader = "insert" /\ sent >= Len(order)
  /\ loader' = "loaded"
  /\ UNCHANGED <<documents, triples, order, sent, cleared, loads, store, answer, answers>>

-----------------------------------------------------------------------------
(* The server: one query of the store for each request.                       *)
Answer(a) ==
  /\ answers < MaxAnswers /\ triples # {}
  /\ answers' = answers + 1
  /\ answer' = a
  /\ UNCHANGED <<documents, triples, order, sent, loader, cleared, loads, store>>

Health ==
  \/ Answer([NoAnswer EXCEPT !.status = 200, !.count = Cardinality(store)])
  \/ Answer([NoAnswer EXCEPT !.status = 500])

(* The rows of a graph query: triples of the listed subjects without types    *)
(* and labels and, unless asked for, without the ontology and content ids (a  *)
(* blank object has no text to compare and is left out with them).            *)
Rows(metadata) ==
  {t \in store : /\ t[2] \notin {"type", "label"}
                 /\ t[1].kind = "uri" /\ t[1].value \in Listable
                 /\ metadata \/ (t[3].kind # "blank" /\ {t[1].value, t[3].value} \cap Hidden = {})}
(* A row comes once for each type and each label of its subject and object,   *)
(* and the limit counts these.                                                *)
Joined(metadata) ==
  LET values(n, k) == {t[3].value : t \in {u \in store : u[1] = n /\ u[2] = k}}
      optional(n, k) == IF values(n, k) = {} THEN {"unbound"} ELSE values(n, k)
  IN  UNION {{t} \X optional(t[1], "type") \X optional(t[3], "type")
                 \X optional(t[1], "label") \X optional(t[3], "label") : t \in Rows(metadata)}

(* Nodes are named by the end of their path, so two of them can become one.    *)
Id(value) == IF value \in DOMAIN PathEnd THEN PathEnd[value] ELSE value
GraphOf(rows, metadata) ==
  LET links == {t \in rows : t[3].kind = "uri"}
  IN  [asked |-> {metadata}, status |-> 200, count |-> 3851,
       nodes |-> {Id(t[1].value) : t \in rows} \cup {Id(t[3].value) : t \in links},
       edges |-> {<<Id(t[1].value), t[2], Id(t[3].value)>> : t \in links}]
GraphData ==
  \/ \E metadata \in BOOLEAN :
       LET some == IF Cardinality(Joined(metadata)) <= MaxNodes THEN {Joined(metadata)}
                   ELSE kSubset(MaxNodes, Joined(metadata))
       IN  \E joined \in some : Answer(GraphOf({j[1] : j \in joined}, metadata))
  \/ Answer([NoAnswer EXCEPT !.status = 500])

SparqlQuery ==
  \/ Answer([NoAnswer EXCEPT !.status = 400])
  \/ Answer([NoAnswer EXCEPT !.status = 500])
  \/ Answer([NoAnswer EXCEPT !.status = 200, !.count = Cardinality(store)])

(* The converter writes no hasEssence, so the store has no answer to this     *)
(* query; when the query fails the server answers with three samples.         *)
EssenceData ==
  \/ Answer([NoAnswer EXCEPT !.status = 200])
  \/ Answer([NoAnswer EXCEPT !.status = 200, !.nodes = {"Agent_001", "SemanticAsset_042", "Organization_015"}])

LoadNext ==
  \/ Convert \/ StartLoad \/ Clear \/ Insert \/ EndLoad
  \/ Health \/ GraphData \/ SparqlQuery \/ EssenceData
LoadSpec == LoadInit /\ [][LoadNext]_loadVars

-----------------------------------------------------------------------------
(* Triples by the labels of their blank nodes, whichever nodes the store made. *)
Plain(t) == <<[t[1] EXCEPT !.request = 0], t[2], [t[3] EXCEPT !.request = 0]>>

(* A load that reports success left every triple of the file in the store,    *)
(* those of blank nodes too, and nothing else when its clear succeeded: not   *)
(* the part an earlier run that failed had inserted, whatever order the       *)
(* triples were sent in.                                                      *)
LoadedIsComplete ==
  loader = "loaded" =>
    /\ triples \subseteq {Plain(t) : t \in store}
    /\ cleared => {Plain(t) : t \in store} \subseteq triples

(* The loader says it "Successfully loaded" the file: then the object that    *)
(* hangs from a blank node is one object in the store too.  It is not: its    *)
(* triples are sent with their label, which means another node in each        *)
(* request.                                                                   *)
BlankNodes == {n \in UNION {{t[1], t[3]} : t \in store} : n.kind = "blank"}
NestedObjectsAreWhole ==
  loader = "loaded" /\ cleared => \A m, n \in BlankNodes : m.value = n.value => m = n

(* What the server draws of the transformations is what the documents         *)
(* recorded, at any moment of a load whose clear succeeded: an answer in      *)
(* between, or after a load that failed, may miss edges and has none of an    *)
(* earlier dataset; once the load has ended, and while the joined rows are    *)
(* within the limit, it misses none of those that it may list.                *)
Drawn(transformation, i) == <<Id(transformation.id), "toState", Id(i)>>
RecordedEdges == UNION {{Drawn(d.transformation, i) : i \in d.transformation.to} : d \in documents}
ListedEdges ==
  UNION {{Drawn(d.transformation, i) : i \in d.transformation.to \ Hidden} :
           d \in {f \in documents : f.transformation.id \in Listable \ Hidden}}
ShowsTransformations ==
  answers' # answers /\ cleared => \A metadata \in answer'.asked :
    LET drawn == {e \in answer'.edges : e[2] = "toState"}
    IN  /\ drawn \subseteq RecordedEdges
        /\ loader = "loaded" /\ Cardinality(Joined(metadata)) <= MaxNodes => ListedEdges \subseteq drawn
GraphShowsTransformations == [][ShowsTransformations]_loadVars
=============================================================================
