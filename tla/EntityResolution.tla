-------------------------- MODULE EntityResolution --------------------------
(* extractors/entity-deduplication-system.py and the program that feeds it    *)
(* with what the extraction stored, process_all_with_deduplication.py.        *)
(*                                                                            *)
(* Names are model data: Normal says what normalize_name makes of one,        *)
(* Similarity the percentage calculate_similarity gives two of them whose     *)
(* normal forms differ.  A canonical id is a hash of the type and the normal  *)
(* form: the pair of them.  Confidences of canonical entities are left out.   *)
EXTENDS Naturals, Sequences, FiniteSets

CONSTANTS Extracted,      \* the entities an extraction may store
          MaxEntities,    \* bound: entities of one extraction
          Normal,         \* [names -> normal forms]
          Similarity,     \* [names \X names -> 0..100]
          NoName          \* the entity has no name

(* What is empty stays so.                                                    *)
ASSUME NormalAssumption == Normal[""] = ""

Threshold == 85

VARIABLES stored,         \* the entities, in the order of processed_entities
          taken,          \* how many were added
          registry,       \* entity_registry: id -> signature
          name_index,     \* normal form -> ids
          resolved,       \* the canonical id add_entity returned for each
          relationships,  \* triple -> the document that stated it first
          imported,       \* what the generated import creates: nodes and edges
          raised          \* an exception ended the program
resolutionVars == <<stored, taken, registry, name_index, resolved, relationships, imported, raised>>

Nothing == [nodes |-> {}, edges |-> {}]

ResolutionInit ==
  /\ \E n \in 1..MaxEntities : stored \in [1..n -> Extracted]
  /\ taken = 0
  /\ registry = << >> /\ name_index = << >>
  /\ resolved = << >> /\ relationships = << >>
  /\ imported = Nothing /\ raised = FALSE

-----------------------------------------------------------------------------
NameOf(e) == IF e.name = NoName THEN "" ELSE e.name
IdOf(e) == <<e.type, IF e.name = NoName THEN Normal["unnamed"] ELSE Normal[e.name]>>

Similar(a, b) ==
  IF a = "" \/ b = "" THEN 0
  ELSE IF Normal[a] = Normal[b] THEN 100 ELSE Similarity[a, b]

(* The three ways to match: the normal form in the index, a similar canonical *)
(* name or alias (the first one that is similar enough counts), an equal      *)
(* property.  Each gives an id, a confidence, and the order it is tried in.   *)
ExactMatches(e) ==
  IF Normal[e.name] \in DOMAIN name_index
  THEN {[id |-> id, conf |-> 100, order |-> 1] :
          id \in {x \in name_index[Normal[e.name]] : registry[x].type = e.type}}
  ELSE {}
FuzzyConfidences(e, id) ==
  LET s == registry[id]
      near(names) == {Similar(e.name, n) : n \in names} \cap Threshold..100
  IN  IF near({s.name}) # {} THEN near({s.name}) ELSE near(s.aliases)
FuzzyMatches(e, chosen) ==
  {[id |-> id, conf |-> chosen[id], order |-> 2] : id \in DOMAIN chosen}
Sharing(e, key) ==
  {id \in DOMAIN registry :
     /\ registry[id].type = e.type
     /\ key \in DOMAIN e.props /\ key \in DOMAIN registry[id].props
     /\ e.props[key] = registry[id].props[key]}
PropertyMatches(e) ==
  {[id |-> id, conf |-> 95, order |-> 3] : id \in Sharing(e, "email")}
  \cup {[id |-> id, conf |-> 100, order |-> 3] : id \in Sharing(e, "identifier")}

(* sorted() is stable: among the most confident matches the way tried first.  *)
Best(ms) ==
  {m \in ms : \A o \in ms : m.conf > o.conf \/ (m.conf = o.conf /\ m.order <= o.order)}

(* What find_matches may put first.  An entity without a name matches nothing.*)
FoundFirst(e) ==
  IF NameOf(e) = "" THEN {}
  ELSE LET ids == {id \in DOMAIN registry : registry[id].type = e.type /\ FuzzyConfidences(e, id) # {}}
           choices == {f \in [ids -> Threshold..100] : \A id \in ids : f[id] \in FuzzyConfidences(e, id)}
       IN  UNION {Best(ExactMatches(e) \cup FuzzyMatches(e, f) \cup PropertyMatches(e)) : f \in choices}

(* Mutant of Merge: the document is forgotten.                                *)
MergeWithoutSource(s, e) ==
  [s EXCEPT !.props = [k \in DOMAIN @ \cup DOMAIN e.props |-> IF k \in DOMAIN @ THEN @[k] ELSE e.props[k]]]
Merge(s, e) ==
  [s EXCEPT
     !.related = @ \/ e.rels # {},
     !.aliases = IF NameOf(e) # "" /\ Normal[e.name] # Normal[s.name] THEN @ \cup {e.name} ELSE @,
     !.props = [k \in DOMAIN @ \cup DOMAIN e.props |-> IF k \in DOMAIN @ THEN @[k] ELSE e.props[k]],
     !.sources = @ \cup {e.foundIn}]

(* Two lists of a property are merged through a set, which a list of objects, *)
(* as relationships are, cannot be made into.                                 *)
Unmergeable(s, e) == s.related /\ e.rels # {}

Signature(e) ==
  [name |-> NameOf(e), type |-> e.type, aliases |-> {}, props |-> e.props, sources |-> {e.foundIn},
   related |-> e.rels # {}]

With(f, k, v) == [x \in DOMAIN f \cup {k} |-> IF x = k THEN v ELSE f[x]]
Indexed(name, id) ==
  With(name_index, name, {id} \cup IF name \in DOMAIN name_index THEN name_index[name] ELSE {})

(* add_relationship: the subject is the canonical id, the object is what the  *)
(* model wrote, never a canonical id.  'evidenceFor' is looked up in lower    *)
(* case and so stays itself.                                                  *)
Predicate(p) ==
  CASE p \in {"supports", "support"} -> "supports"
    [] p \in {"opposes", "oppose", "contradicts"} -> "opposes"
    [] p \in {"addresses", "address", "answers"} -> "addresses"
    [] OTHER -> p
AddRelationships(id, e) ==
  LET triples == {<<id, Predicate(r.type), r.target>> : r \in e.rels}
  IN  [t \in DOMAIN relationships \cup triples |->
         IF t \in DOMAIN relationships THEN relationships[t] ELSE e.foundIn]

Adding ==
  /\ taken < Len(stored) /\ ~raised
  /\ taken' = taken + 1
  /\ UNCHANGED <<stored, imported, raised>>
Entity == stored[taken + 1]

AddToMatch ==
  /\ Adding
  /\ \E m \in FoundFirst(Entity) :
       /\ ~Unmergeable(registry[m.id], Entity)
       /\ registry' = [registry EXCEPT ![m.id] = Merge(@, Entity)]
       /\ resolved' = Append(resolved, m.id)
       /\ relationships' = AddRelationships(m.id, Entity)
  /\ UNCHANGED name_index

(* Nothing catches the exception, and nothing was written before the last     *)
(* entity.                                                                    *)
MergeRaises ==
  /\ taken < Len(stored) /\ ~raised
  /\ \E m \in FoundFirst(Entity) : Unmergeable(registry[m.id], Entity)
  /\ raised' = TRUE
  /\ UNCHANGED <<stored, taken, registry, name_index, resolved, relationships, imported>>

(* No match: a new canonical entity.  Its id may be in use, by another entity *)
(* without a name; that entry is replaced.                                    *)
AddNew ==
  /\ Adding
  /\ FoundFirst(Entity) = {}
  /\ registry' = With(registry, IdOf(Entity), Signature(Entity))
  /\ name_index' = Indexed(Normal[NameOf(Entity)], IdOf(Entity))
  /\ resolved' = Append(resolved, IdOf(Entity))
  /\ relationships' = AddRelationships(IdOf(Entity), Entity)

(* The import creates an edge only between nodes that MATCH finds.            *)
GenerateImport ==
  /\ taken = Len(stored) /\ imported = Nothing
  /\ imported' = [nodes |-> DOMAIN registry,
                  edges |-> {t \in DOMAIN relationships : {t[1], t[3]} \subseteq DOMAIN registry}]
  /\ UNCHANGED <<stored, taken, registry, name_index, resolved, relationships, raised>>

ResolutionNext == AddToMatch \/ MergeRaises \/ AddNew \/ GenerateImport
ResolutionSpec == ResolutionInit /\ [][ResolutionNext]_resolutionVars

-----------------------------------------------------------------------------
(* The names whose canonical id only they can have: not those that normalize  *)
(* to nothing or to what a missing name is given.                             *)
ProperName(n) == n # NoName /\ Normal[n] \notin {"", Normal["unnamed"]}

(* No document is forgotten: an entity with a proper name that was resolved   *)
(* to one with a proper name still counts its document among the sources of   *)
(* that canonical entity, whatever was added in between.                      *)
SourcesKept ==
  \A i \in DOMAIN resolved :
    ProperName(stored[i].name) /\ resolved[i][2] \notin {"", Normal["unnamed"]}
      => stored[i].foundIn \in registry[resolved[i]].sources
=============================================================================
